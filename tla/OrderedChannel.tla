--------------------------- MODULE OrderedChannel ---------------------------
(***************************************************************************)
(* What a framed connection promises to whoever listens on it: messages    *)
(* come in the order they were sent, none twice and none left out, from    *)
(* the moment the listener joined.  Nothing is promised about how many     *)
(* arrive: the connection may end at any time.                             *)
(***************************************************************************)
EXTENDS Naturals, Sequences

CONSTANT Message

VARIABLES
  sent,        \* the messages handed to the sender
  missed,      \* how many passed before there was a listener
  received     \* the messages the listener got

vars == <<sent, missed, received>>

TypeOK ==
  /\ sent \in Seq(Message)
  /\ missed \in Nat
  /\ received \in Seq(Message)

Init ==
  /\ sent = <<>>
  /\ missed = 0
  /\ received = <<>>

Send(m) ==
  /\ sent' = Append(sent, m)
  /\ UNCHANGED <<missed, received>>

\* Messages that pass while nobody listens.
Miss ==
  /\ received = <<>>
  /\ \E n \in missed + 1 .. Len(sent) : missed' = n
  /\ UNCHANGED <<sent, received>>

\* The listener gets the next few messages.
Receive ==
  /\ \E n \in missed + Len(received) + 1 .. Len(sent) :
       received' = SubSeq(sent, missed + 1, n)
  /\ UNCHANGED <<sent, missed>>

Next == (\E m \in Message : Send(m)) \/ Miss \/ Receive

Spec == Init /\ [][Next]_vars

=============================================================================
