----------------------------- MODULE RecordStream -----------------------------
(***************************************************************************)
(* One connection as a stream of fragments: the client's records arrive in *)
(* fragments (read_fragment, SocketMessageHandler::read), are processed    *)
(* one after the other (process_rpc_command), and the replies leave in     *)
(* fragments (write_fragment).  What the bytes of a record say, and what   *)
(* is answered to it, are parameters: Wire gives the XDR codecs.  The      *)
(* tasks and channels in between are the subject of RpcPipeline, and       *)
(* retransmissions of TransactionTracker.                                  *)
(*                                                                         *)
(* A client makes the calls of Calls.  It may cut a record short, change a *)
(* byte of it or make it longer, split it into fragments, empty ones too,  *)
(* and hang up at any time.  A fragment's header and data arrive at once;  *)
(* read_exact waits for them.                                              *)
(***************************************************************************)
EXTENDS Integers, Sequences

CONSTANTS
    Calls(_),           \* the calls a client may make, as its i-th
    IsValid(_),         \* is it a call indeed, with its credentials in order?
    MayDamage(_, _),    \* may the client damage the i-th record, of this call?
    MaySplit(_),        \* may it send the call in several fragments, and more after it?
    Encoded(_, _),      \* the i-th record, of this call
    Handled(_, _),      \* what handle_rpc makes of a record of the call: ok, made, means
    Written(_),         \* the bytes of the reply it gives
    Decoded(_, _),      \* what the client makes of the bytes of a reply to the call
    Limit,              \* MAX_RPC_RECORD_LENGTH
    FragmentSizes,      \* sizes of the fragments but the last
    MAX_FRAGMENT_SIZE,  \* the longest fragment the server writes
    MaxCalls,           \* bound on the calls
    MaxFragments        \* bound on the fragments in transit

ASSUME StreamAssumption ==
    /\ Limit \in Nat
    /\ FragmentSizes \subseteq Nat
    /\ MAX_FRAGMENT_SIZE \in Nat \ {0}
    /\ MaxCalls \in Nat /\ MaxFragments \in Nat

-----------------------------------------------------------------------------
(* The client's records.                                                   *)
Whole == [kind |-> "none", at |-> 0]
Cut(k) == [kind |-> "cut", at |-> k]
Altered(k) == [kind |-> "altered", at |-> k]
Padded(n) == [kind |-> "padded", at |-> n]

\* What the client may do to a record: bytes after the arguments are allowed.
Damages(r) ==
    {Cut(k) : k \in 0 .. Len(r) - 1} \cup {Altered(k) : k \in DOMAIN r}
    \cup {Padded(Limit), Padded(Limit + 1)}

Apply(d, r) ==
    CASE d.kind = "none" -> r
      [] d.kind = "cut" -> SubSeq(r, 1, d.at)
      [] d.kind = "altered" -> [r EXCEPT ![d.at] = IF @ = 1 THEN 2 ELSE 1]
      [] d.kind = "padded" -> r \o [i \in 1 .. d.at - Len(r) |-> 0]

\* What the client may do to the i-th record, r.
Treatments(i, call, r) == {Whole} \cup (IF MayDamage(i, call) THEN Damages(r) ELSE {})

Undamaged(d) == d.kind \in {"none", "padded"}

\* Records and replies are bytes.  A reply has some, and every call that is one
\* gets a reply if its record arrives undamaged.
ASSUME CodecAssumption ==
    \A i \in 1 .. MaxCalls : \A call \in Calls(i) : \A r \in {Encoded(i, call)} :
        \A d \in Treatments(i, call, r) : \A out \in {Handled(Apply(d, r), call)} :
            /\ Apply(d, r) \in Seq(Nat)
            /\ out.ok => Written(out) \in Seq(Nat) \ {<<>>}
            /\ IsValid(call) /\ Undamaged(d) => out.ok

VARIABLES
    asked,          \* the calls made: call, damage and record
    sending,        \* is the client in the middle of a record?
    unsent,         \* what it has yet to send of it
    up,             \* fragments on their way to the server
    cur_fragment,   \* the record the reader is putting together
    reader,         \* "running" or "ended"
    submitted,      \* the records submitted to the command queue
    understood,     \* what the server made of each record it processed
    meant,          \* the replies it gave
    down,           \* fragments on their way to the client
    reply,          \* the reply the client is putting together
    heard,          \* the replies it has, decoded
    conn,           \* "open" or "closed", by the server
    hungup          \* the client has closed the connection

client == <<asked, sending, unsent>>
server == <<cur_fragment, reader, submitted>>
answers == <<understood, meant>>
listener == <<reply, heard>>
vars == <<client, up, server, answers, down, listener, conn, hungup>>

-----------------------------------------------------------------------------
(* The client.                                                             *)
Ask ==
    /\ ~hungup /\ ~sending
    /\ Len(asked) < MaxCalls
    /\ Len(asked) > 0 => MaySplit(asked[1].call)
    /\ LET i == Len(asked) + 1
       IN  \E call \in Calls(i) : \E r \in {Encoded(i, call)} : \E d \in Treatments(i, call, r) :
               /\ unsent' = Apply(d, r)
               /\ asked' = Append(asked, [call |-> call, damage |-> d, record |-> unsent'])
    /\ sending' = TRUE
    /\ UNCHANGED <<up, server, answers, down, listener, conn, hungup>>

\* The client ends a record with a last fragment, which may be empty.
SendFragment ==
    /\ ~hungup /\ sending
    /\ Len(up) < MaxFragments
    /\ \/ /\ up' = Append(up, [last |-> TRUE, data |-> unsent])
          /\ sending' = FALSE
          /\ unsent' = <<>>
       \/ /\ MaySplit(asked[Len(asked)].call)
          /\ Len(up) < MaxFragments - 1
          /\ \E n \in FragmentSizes :
                /\ n <= Len(unsent)
                /\ up' = Append(up, [last |-> FALSE, data |-> SubSeq(unsent, 1, n)])
                /\ unsent' = SubSeq(unsent, n + 1, Len(unsent))
          /\ UNCHANGED sending
    /\ UNCHANGED <<asked, server, answers, down, listener, conn, hungup>>

\* Some of what is in transit still arrives.  process_socket ends when it reads
\* the end of the stream.
HangUp ==
    /\ ~hungup
    /\ hungup' = TRUE
    /\ conn' = "closed"
    /\ \E n \in 0 .. Len(up) : up' = SubSeq(up, 1, n)
    /\ UNCHANGED <<client, server, answers, down, listener>>

-----------------------------------------------------------------------------
(* The reader.                                                             *)
\* Mutant: the buffer is handed on and kept.
ReadKeeps ==
    /\ reader = "running"
    /\ up # <<>>
    /\ up' = Tail(up)
    /\ LET f == Head(up)
       IN  IF Len(cur_fragment) + Len(f.data) > Limit
           THEN /\ reader' = "ended"
                /\ UNCHANGED <<cur_fragment, submitted>>
           ELSE /\ cur_fragment' = cur_fragment \o f.data
                /\ submitted' = IF f.last THEN Append(submitted, cur_fragment \o f.data) ELSE submitted
                /\ UNCHANGED reader
    /\ UNCHANGED <<client, answers, down, listener, conn, hungup>>

\* read and read_fragment: the length is checked before the data is read.  An
\* error ends the reader for good.
Read ==
    /\ reader = "running"
    /\ up # <<>>
    /\ up' = Tail(up)
    /\ LET f == Head(up)
           filled == cur_fragment \o f.data
       IN  \/ /\ Len(cur_fragment) + Len(f.data) > Limit
              /\ reader' = "ended"
              /\ UNCHANGED <<cur_fragment, submitted>>
           \/ /\ Len(cur_fragment) + Len(f.data) <= Limit
              /\ IF f.last
                 THEN cur_fragment' = <<>> /\ submitted' = Append(submitted, filled)
                 ELSE cur_fragment' = filled /\ UNCHANGED submitted
              /\ UNCHANGED reader
    /\ UNCHANGED <<client, answers, down, listener, conn, hungup>>

\* read_exact meets the end of the stream.
ReadEnd ==
    /\ reader = "running"
    /\ hungup /\ up = <<>>
    /\ reader' = "ended"
    /\ UNCHANGED <<client, up, cur_fragment, submitted, answers, down, listener, conn, hungup>>

-----------------------------------------------------------------------------
(* The worker.                                                             *)
\* The fragments of a buffer: how many, the offset of the i-th, and its length.
Count(buf) == (Len(buf) + MAX_FRAGMENT_SIZE - 1) \div MAX_FRAGMENT_SIZE
Offset(i) == (i - 1) * MAX_FRAGMENT_SIZE
Size(buf, i) ==
    IF Len(buf) - Offset(i) < MAX_FRAGMENT_SIZE THEN Len(buf) - Offset(i) ELSE MAX_FRAGMENT_SIZE
\* Mutant: a fragment that ends where the buffer ends is not the last.
write_fragment_open(buf) ==
    [i \in 1 .. Count(buf) |->
        [last |-> Offset(i) + MAX_FRAGMENT_SIZE > Len(buf),
         data |-> SubSeq(buf, Offset(i) + 1, Offset(i) + Size(buf, i))]]
\* write_fragment: nothing is written for an empty buffer.
write_fragment(buf) ==
    [i \in 1 .. Count(buf) |->
        [last |-> Offset(i) + Size(buf, i) >= Len(buf),
         data |-> SubSeq(buf, Offset(i) + 1, Offset(i) + Size(buf, i))]]

Failed == [ok |-> FALSE]

\* process_rpc_command, and what becomes of its result: a reply is written, an
\* error ends process_socket.
Process ==
    /\ Len(understood) < Len(submitted)
    /\ \E out \in {Handled(submitted[Len(understood) + 1], asked[Len(understood) + 1].call)} :
        \/ /\ ~out.ok
           /\ conn' = "closed"
           /\ understood' = Append(understood, Failed)
           /\ meant' = Append(meant, Failed)
           /\ UNCHANGED down
        \/ /\ out.ok
           /\ understood' = Append(understood, out.made)
           /\ meant' = Append(meant, out.means)
           /\ \E bytes \in {Written(out)} :
                down' = IF conn = "open" THEN down \o write_fragment(bytes) ELSE down
           /\ UNCHANGED conn
    /\ UNCHANGED <<client, up, server, listener, hungup>>

\* The reader has ended and the queue is empty: the channels close one after the
\* other, and process_socket ends.
Close ==
    /\ conn = "open"
    /\ reader = "ended"
    /\ Len(understood) = Len(submitted)
    /\ conn' = "closed"
    /\ UNCHANGED <<client, up, server, answers, down, listener, hungup>>

-----------------------------------------------------------------------------
(* The client reads its replies; it knows the call from the order.         *)
Listen ==
    /\ ~hungup
    /\ down # <<>>
    /\ down' = Tail(down)
    /\ LET f == Head(down)
           filled == reply \o f.data
       IN  IF f.last
           THEN reply' = <<>> /\ heard' = Append(heard, Decoded(asked[Len(heard) + 1].call, filled))
           ELSE reply' = filled /\ UNCHANGED heard
    /\ UNCHANGED <<client, up, server, answers, conn, hungup>>

-----------------------------------------------------------------------------
Init ==
    /\ asked = <<>> /\ sending = FALSE /\ unsent = <<>>
    /\ up = <<>> /\ down = <<>>
    /\ cur_fragment = <<>> /\ reader = "running" /\ submitted = <<>>
    /\ understood = <<>> /\ meant = <<>>
    /\ reply = <<>> /\ heard = <<>>
    /\ conn = "open" /\ hungup = FALSE

Next == Ask \/ SendFragment \/ HangUp \/ Read \/ ReadEnd \/ Process \/ Close \/ Listen

Spec == Init /\ [][Next]_vars

-----------------------------------------------------------------------------
(* When nothing is left to do, every call that was sent whole has been     *)
(* answered: no reply is stuck in a fragment that does not end it          *)
(* (read_fragment, write_fragment).                                        *)
Quiet == ~hungup /\ ~sending /\ up = <<>> /\ down = <<>> /\ Len(understood) = Len(submitted)
NothingLost ==
    (/\ Quiet
     /\ \A i \in DOMAIN asked :
            /\ IsValid(asked[i].call)
            /\ Undamaged(asked[i].damage) /\ Len(asked[i].record) <= Limit)
    => Len(heard) = Len(asked)

(* The records submitted are those the client completed, whole and in      *)
(* order, and none is longer than the limit (SocketMessageHandler::read).  *)
Completed == IF sending THEN SubSeq(asked, 1, Len(asked) - 1) ELSE asked
Channel == INSTANCE RecordChannel WITH
    sent <- [i \in DOMAIN Completed |-> Completed[i].record],
    delivered <- submitted,
    open <- (reader = "running")
ImplementsChannel == Channel!Spec
==============================================================================
