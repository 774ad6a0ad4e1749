----------------------------- MODULE MCFraming -----------------------------
(* Two-valued bytes: bodies of one to three bytes, which look like prefixes and like
   each other's parts.  Octets of two values suffice here. *)
EXTENDS Framing, TLC

CONSTANTS A, B

To(r) == BuildEnvelope("unicast", r, Undefined, Undefined)

Sealed == EncryptOutbound(To(A))

\* What an agent does not build: a field is missing, or empty.
Untagged == [Sealed EXCEPT !.authTag = Undefined]
EmptyIv == [Sealed EXCEPT !.iv = NoText]

MCEnvelopes == {To(A), To(B), Sealed, Untagged, EmptyIv}

\* One body has a character of two bytes.
MCText == To(A) :> <<<<1>>>> @@ To(B) :> <<<<0>>, <<1>>>> @@ Sealed :> <<<<1>>, <<0, 1>>>>
          @@ Untagged :> <<<<1, 0>>>> @@ EmptyIv :> <<<<0>>>>
=============================================================================
