----------------------------- MODULE EgressProxy -----------------------------
(***************************************************************************)
(* The enclave's way out.  A manifest gives every destination a loopback   *)
(* address and a vsock port; it is baked into the image, where run.sh      *)
(* reads it, and read once more on the host by setup-network-proxy.sh.     *)
(* A destination is a host and a port.                                     *)
(***************************************************************************)
EXTENDS Naturals, Sequences, FiniteSets

\* main: whom the enclave dials; no model endpoint is <<>>.
Destinations(aggregator, publisher, keyServers, model, localModel) ==
  <<aggregator, publisher>> \o keyServers \o (IF localModel THEN <<>> ELSE model)

\* assignProxyDestinations: a line for each host and port at its first
\* mention, under vsock ports and loopback addresses that count up.
FirstMentions(dests) ==
  {i \in DOMAIN dests : \A j \in 1..(i - 1) : dests[j] # dests[i]}
Before(dests, i) == Cardinality({j \in FirstMentions(dests) : j < i})
Line(dests, baseVport, i) ==
  [dest |-> dests[i], vport |-> baseVport + Before(dests, i),
   lo |-> 4 + Before(dests, i)]
AssignProxyDestinations(dests, baseVport) ==
  {Line(dests, baseVport, i) : i \in FirstMentions(dests)}

\* run.sh: /etc/hosts, where 127.0.0.256 is no address, and a listener for
\* each line of the manifest.
AddressesOf(manifest, host) ==
  {line.lo : line \in {l \in manifest : l.dest[1] = host /\ l.lo <= 255}}
Listeners(manifest) ==
  {[lo |-> line.lo, port |-> line.dest[2], vport |-> line.vport] :
     line \in manifest}

\* setup-network-proxy.sh: a unit for each line is written and restarted.
\* Units of other vsock ports, from an earlier manifest, go on.  Mutant: so
\* does a unit there is.
NoUnits == [p \in {} |-> <<>>]
Vports(manifest) == {line.vport : line \in manifest}
DestAt(manifest, p) ==
  (CHOOSE line \in manifest : line.vport = p).dest
KeepOldUnits(units, manifest) ==
  [p \in DOMAIN units \cup Vports(manifest) |->
     IF p \in DOMAIN units THEN units[p] ELSE DestAt(manifest, p)]
SetupProxy(units, manifest) ==
  [p \in DOMAIN units \cup Vports(manifest) |->
     IF p \in Vports(manifest) THEN DestAt(manifest, p) ELSE units[p]]

\* Where a connection to host and port ends, when host resolves to lo: each
\* vsock port the listeners there lead to, and the unit that takes it.
Reached(manifest, units, lo, port) ==
  {units[l.vport] : l \in {l \in Listeners(manifest) :
     l.lo = lo /\ l.port = port /\ l.vport \in DOMAIN units}}
=============================================================================
