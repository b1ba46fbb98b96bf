----------------------------- MODULE Permissions -----------------------------
(***************************************************************************)
(* vfs::permissions (src/vfs/permissions.rs): what a user may do with a    *)
(* file.  The ACCESS3 bits are a set of rights; the nine mode bits are     *)
(* three sets of "r", "w" and "x".                                         *)
(***************************************************************************)
EXTENDS Integers

Bits == {"r", "w", "x"}
Rights == {"READ", "LOOKUP", "MODIFY", "EXTEND", "DELETE", "EXECUTE"}

auth_matches_gid(auth, gid) == auth.gid = gid \/ gid \in auth.gids

\* Mutant: a user has the bits of every class he belongs to.
unix_mode_perms_any(attr, auth) ==
    IF auth.uid = 0 THEN Bits
    ELSE attr.mode.other
         \cup (IF auth.uid = attr.uid THEN attr.mode.owner ELSE {})
         \cup (IF auth_matches_gid(auth, attr.gid) THEN attr.mode.group ELSE {})

unix_mode_perms(attr, auth) ==
    IF auth.uid = 0 THEN Bits
    ELSE IF auth.uid = attr.uid THEN attr.mode.owner
    ELSE IF auth_matches_gid(auth, attr.gid) THEN attr.mode.group
    ELSE attr.mode.other

\* The rights among those requested that are granted.
access_mask(attr, auth, capabilities, requested) ==
    LET perms == unix_mode_perms(attr, auth)
        allow_write == capabilities = "ReadWrite" /\ "w" \in perms
    IN  {right \in requested :
            \/ right = "READ" /\ "r" \in perms
            \/ right = "EXECUTE" /\ "x" \in perms
            \/ right = "LOOKUP" /\ attr.ftype = "NF3DIR" /\ "x" \in perms
            \/ /\ right \in {"MODIFY", "EXTEND"} /\ allow_write
               /\ attr.ftype = "NF3REG" \/ (attr.ftype = "NF3DIR" /\ "x" \in perms)
            \/ /\ right = "DELETE" /\ allow_write
               /\ attr.ftype = "NF3DIR" /\ "x" \in perms}
==============================================================================
