---------------------------- MODULE MspDelivery ----------------------------
(***************************************************************************)
(* What MSP promises the two ends of the link: commands are carried out    *)
(* exactly once, in the order in which they were given, and each is        *)
(* confirmed only after it was carried out.                                *)
(***************************************************************************)
EXTENDS Naturals, Sequences

CONSTANT Commands

VARIABLES sent,       \* the commands the OBC has started, in order
          done,       \* the commands the experiment has carried out, in order
          confirmed   \* how many of them the OBC knows to be carried out

Init ==
    /\ sent = << >>
    /\ done = << >>
    /\ confirmed = 0

Submit(c) ==
    /\ confirmed = Len(sent)
    /\ sent' = Append(sent, c)
    /\ UNCHANGED <<done, confirmed>>

CarryOut ==
    /\ Len(done) < Len(sent)
    /\ done' = Append(done, sent[Len(done) + 1])
    /\ UNCHANGED <<sent, confirmed>>

Confirm ==
    /\ confirmed < Len(done)
    /\ confirmed' = confirmed + 1
    /\ UNCHANGED <<sent, done>>

Next == (\E c \in Commands : Submit(c)) \/ CarryOut \/ Confirm

Spec == Init /\ [][Next]_<<sent, done, confirmed>>
=============================================================================
