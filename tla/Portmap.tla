------------------------------- MODULE Portmap -------------------------------
(***************************************************************************)
(* The PORTMAP program (src/protocol/nfs/portmap): a table of ports, behind*)
(* a lock that each procedure holds while it looks and changes.  A port is *)
(* sent in 32 bits and stored in 16.                                       *)
(***************************************************************************)
EXTENDS Integers, Tables

IPPROTO_TCP == 6
IPPROTO_UDP == 17

PortmapKey(prog, vers, prot) == [prog |-> prog, vers |-> vers, prot |-> prot]
KeyOf(mapping) == PortmapKey(mapping.prog, mapping.vers, mapping.prot)
NewTable == <<>>

get_port(table, key) == IF key \in DOMAIN table THEN table[key] ELSE 0

\* Mutant: a SET replaces what is there.
pmapproc_setport_replace(table, mapping) ==
    [table |-> Override(Entry(KeyOf(mapping), mapping.port % 2^16), table), result |-> TRUE]

pmapproc_setport(table, mapping) ==
    IF KeyOf(mapping) \in DOMAIN table THEN [table |-> table, result |-> FALSE]
    ELSE [table |-> Override(Entry(KeyOf(mapping), mapping.port % 2^16), table), result |-> TRUE]

pmapproc_unsetport(table, mapping) ==
    LET gone == {PortmapKey(mapping.prog, mapping.vers, p) : p \in {IPPROTO_TCP, IPPROTO_UDP}}
    IN  [table |-> Without(table, gone),
         result |-> gone \cap DOMAIN table # {}]

pmapproc_getport(table, mapping) == get_port(table, KeyOf(mapping))

\* The order in which a HashMap lists its entries means nothing: a set.
pmapproc_dump(table) ==
    {[prog |-> k.prog, vers |-> k.vers, prot |-> k.prot, port |-> table[k]] : k \in DOMAIN table}
==============================================================================
