------------------------------ MODULE Envelope ------------------------------
(***************************************************************************)
(* The message envelope: how an agent builds one, and the checks of        *)
(* envelope-validator.ts.                                                  *)
(*                                                                         *)
(* A dotted address is the sequence of the numbers its parts are read as.  *)
(* The integers of its conversion have the width of four octets; an octet  *)
(* has OctetSize values, which are 256 in the code.                        *)
(***************************************************************************)
EXTENDS Integers, Sequences, FiniteSetsExt

CONSTANTS
  OctetSize,
  NaN,          \* the part of an address that is no number
  Undefined     \* a field that is not there

\* A text that is there: not empty.
SomeText == "text"
NoText == ""

ASSUME EnvelopeAssumption ==
  /\ OctetSize \in Nat \ {0} /\ OctetSize % 2 = 0
  /\ NaN \notin Int
  /\ Undefined # SomeText

-----------------------------------------------------------------------------
(* ipv4ToInt and isMulticastAddress. *)

\* How many values an integer has.
Space == OctetSize * OctetSize * OctetSize * OctetSize

Octets == 0 .. OctetSize - 1

\* Bit operations yield signed integers, >>> 0 makes them unsigned.
Signed(n) == LET m == n % Space IN IF m < Space \div 2 THEN m ELSE m - Space

Unsigned(n) == n % Space

IsAddress(parts) == Len(parts) = 4 /\ \A i \in 1 .. 4 : parts[i] \in Octets

\* One round of the loop, (n << 8) | octet, and all four.
Shift(n, octet) == Signed(n * OctetSize + octet)

Shifted(parts) == Shift(Shift(Shift(Shift(0, parts[1]), parts[2]), parts[3]), parts[4])

\* Mutant of Ipv4ToInt: the result of the shifts is taken as it is.
Ipv4ToIntSigned(parts) == Shifted(parts)

Ipv4ToInt(parts) == Unsigned(Shifted(parts))

\* MULTICAST_CIDR_LOW and MULTICAST_CIDR_HIGH: 224.0.0.0/4.
CidrLow == 14 * (Space \div 16)
CidrHigh == 15 * (Space \div 16) - 1

IsMulticastAddress(parts) == IsAddress(parts) /\ Ipv4ToInt(parts) \in CidrLow .. CidrHigh

-----------------------------------------------------------------------------
(* Building an envelope: buildEnvelope, encryptOutbound, stampTtl. *)

BuildEnvelope(mode, recipient, group, ttl) ==
  [mode |-> mode, recipientId |-> recipient, groupAddress |-> group, ttl |-> ttl,
   encrypted |-> FALSE, iv |-> Undefined, authTag |-> Undefined]

EncryptOutbound(env) ==
  [env EXCEPT !.encrypted = TRUE, !.iv = SomeText, !.authTag = SomeText]

StampTtl(env, default) == IF env.ttl = Undefined THEN [env EXCEPT !.ttl = default] ELSE env

-----------------------------------------------------------------------------
(* validateEnvelope. *)

ValidationCode ==
  {"OK", "MALFORMED_CRYPTO_FIELDS", "STRAY_CRYPTO_FIELDS", "MISSING_RECIPIENT",
   "MISSING_GROUP_ADDRESS", "GROUP_ADDRESS_OUT_OF_RANGE", "TTL_ON_NON_MULTICAST"}

\* JavaScript's !x, of a text.
Missing(x) == x \in {Undefined, NoText}

\* Mutant of Malformed: both fields must be missing.
MalformedBoth(env) == env.encrypted /\ Missing(env.iv) /\ Missing(env.authTag)

Malformed(env) == env.encrypted /\ (Missing(env.iv) \/ Missing(env.authTag))

\* The checks in their order; the first that fails gives the code.
Checks(env) ==
  << [code |-> "MALFORMED_CRYPTO_FIELDS", fails |-> Malformed(env)],
     [code |-> "STRAY_CRYPTO_FIELDS",
      fails |-> ~env.encrypted /\ (env.iv # Undefined \/ env.authTag # Undefined)],
     [code |-> "MISSING_RECIPIENT",
      fails |-> env.mode = "unicast" /\ Missing(env.recipientId)],
     [code |-> "MISSING_GROUP_ADDRESS",
      fails |-> env.mode = "multicast" /\ env.groupAddress = Undefined],
     [code |-> "GROUP_ADDRESS_OUT_OF_RANGE",
      fails |-> env.mode = "multicast" /\ ~IsMulticastAddress(env.groupAddress)],
     [code |-> "TTL_ON_NON_MULTICAST",
      fails |-> env.mode # "multicast" /\ env.ttl # Undefined] >>

ValidateEnvelope(env) ==
  LET failing == {i \in DOMAIN Checks(env) : Checks(env)[i].fails}
  IN IF failing = {} THEN "OK" ELSE Checks(env)[Min(failing)].code

-----------------------------------------------------------------------------
(* UnicastSecurity.decryptInbound. *)

\* What decrypt makes of the ciphertext: only a tag that is there can be right.
Opens(env) == ~Missing(env.iv) /\ ~Missing(env.authTag)
=============================================================================
