------------------------------ MODULE Channel ------------------------------
(***************************************************************************)
(* What the unicast transport expects of a connection to a peer: whole     *)
(* envelopes arrive, each once and in the order they were written, until   *)
(* the connection ends; what has not arrived by then never does.           *)
(***************************************************************************)
EXTENDS Naturals, Sequences

CONSTANT Envelopes

VARIABLES
  sent,      \* what has been written
  got,       \* what has been received
  status     \* "open"; "left": the writer has ended; "ended"

vars == <<sent, got, status>>

Init == sent = <<>> /\ got = <<>> /\ status = "open"

Write(e) ==
  /\ status = "open"
  /\ sent' = Append(sent, e)
  /\ UNCHANGED <<got, status>>

\* Several may be received at once.
Deliver ==
  /\ status # "ended"
  /\ \E n \in Len(got) + 1 .. Len(sent) : got' = SubSeq(sent, 1, n)
  /\ UNCHANGED <<sent, status>>

Leave == status = "open" /\ status' = "left" /\ UNCHANGED <<sent, got>>

End == status # "ended" /\ status' = "ended" /\ UNCHANGED <<sent, got>>

Next == (\E e \in Envelopes : Write(e)) \/ Deliver \/ Leave \/ End

SafeSpec == Init /\ [][Next]_vars

\* As long as the connection lasts what was written arrives.
Spec == SafeSpec /\ WF_vars(Deliver)
=============================================================================
