----------------------------- MODULE Conversions -----------------------------
(***************************************************************************)
(* The places where two programs must read the same thing out of the same  *)
(* data.  A behaviour picks one input and is done with it.                 *)
(***************************************************************************)
EXTENDS HeldoutSet, CertificateTime, EgressProxy, RegisterOutput

CONSTANTS
  Texts,       \* texts of held-out sets
  MinItems,    \* the fewest items a set may have
  Days,        \* days since 1970 (bound)
  Seconds,     \* seconds into a day
  Manifests,   \* sequences of destinations
  Bases,       \* first vsock ports a manifest may be given
  Noise,       \* what other programs print, as lexemes: braces in strings only
  Objects      \* JSON objects, as lexemes

ASSUME ConversionsAssumption ==
  /\ MinItems \in Nat \ {0} /\ Days \subseteq Nat
  /\ Seconds \subseteq {s \in Nat : s < 86400}
  /\ Manifests \subseteq Seq(STRING \X Nat) /\ Bases \subseteq Nat
  /\ \A m \in Manifests : Len(m) <= 252
  /\ Texts \subseteq Seq(STRING)
  /\ Noise \cup Objects \subseteq Seq(Seq(STRING))
  /\ \A ls \in Noise \cup Objects : \A i \in DOMAIN ls : IsLexeme(ls[i])
  /\ \A ls \in Noise : IsNoise(ls)
  /\ \A ls \in Objects : IsObject(ls)

VARIABLE input

None == [kind |-> "none"]

Init == input = None

\* A set is sealed.
SealSet ==
  /\ input = None
  /\ \E t \in Texts : input' = [kind |-> "set", text |-> t]

\* A session certificate is made.
MakeCertificate ==
  /\ input = None
  /\ \E d \in Days, s \in Seconds : input' = [kind |-> "time", day |-> d, second |-> s]

\* The image is rebuilt with a new manifest and the host set up for it, after
\* it was set up for an earlier one.
MoveProxies ==
  /\ input = None
  /\ \E earlier, now \in Manifests, b, c \in Bases :
       input' = [kind |-> "proxy", earlier |-> AssignProxyDestinations(earlier, b),
                 dests |-> now, base |-> c]

\* register:enclave succeeds: it may have created a config first.
RegisterEnclave ==
  /\ input = None
  /\ \E created \in Objects \cup {<<>>}, registered \in Objects,
        a, b, c \in Noise :
       input' = [kind |-> "output", registered |-> Text(registered),
                 text |-> Text(a) \o Text(created) \o Text(b) \o Text(registered)
                            \o Text(c)]

Next == SealSet \/ MakeCertificate \/ MoveProxies \/ RegisterEnclave

Spec == Init /\ [][Next]_input

-----------------------------------------------------------------------------
(* Properties.                                                             *)

\* The number of items an eval commits to is the number the enclave scores:
\* of a set the sealing script accepts the enclave reads the same items in the
\* same order, or it refuses one of them and scores nothing.
SetSizeIsScored ==
  input.kind = "set" =>
    LET sealed == ValidateHeldoutSet(input.text, MinItems)
        scored == ParseItems(input.text)
    IN sealed # Refused =>
         \/ scored = sealed
         \/ scored = Refused /\ "odd" \in ToSet(sealed)

\* The text the enclave signs is the one the key servers rebuild: the date
\* exists, the next day's date follows it in the Gregorian calendar, day 0 is
\* 1 January 1970, and the time of day adds up.
CertificateTimeExact ==
  input.kind = "time" =>
    LET f == CertificateFields(input.day, input.second)
    IN /\ IsDate(f.date)
       /\ CivilFromDays(input.day + 1) = NextDate(f.date)
       /\ input.day = 0 => f.date = [year |-> 1970, month |-> 1, day |-> 1]
       /\ f.hour \in 0..23 /\ f.minute \in 0..59 /\ f.second \in 0..59
       /\ 3600 * f.hour + 60 * f.minute + f.second = input.second

\* Whatever the host was set up for before: each destination the image was
\* built for is reached under an address its host resolves to, and under no
\* such address is anything else.
DialReachesHost ==
  input.kind = "proxy" =>
    LET manifest == AssignProxyDestinations(input.dests, input.base)
        units == SetupProxy(SetupProxy(NoUnits, input.earlier), manifest)
    IN \A d \in ToSet(input.dests) :
         LET ends == {Reached(manifest, units, lo, d[2]) :
                        lo \in AddressesOf(manifest, d[1])}
         IN {d} \in ends /\ ends \subseteq {{d}, {}}

\* A registration that succeeded is recognised, whatever quotes, braces and
\* escapes its own output holds and whatever harmless text surrounds it: the
\* run goes on with the enclave it registered and not with another object.
RegistrationFound ==
  input.kind = "output" =>
    ExtractRegisterResult(input.text, {Text(o) : o \in Objects}, {input.registered})
      = input.registered
=============================================================================
