--------------------------- MODULE ProtocolProofs ---------------------------
(***************************************************************************)
(* The safety properties of protocol, for every set of addresses and       *)
(* seeds, every hosts file, and any number of channels and retries.  The   *)
(* argument is the inductive invariant ProtocolInv: one lemma for each     *)
(* action or group of actions shows that it is kept, first while protocol  *)
(* starts and tries to connect, then while channels come and go.           *)
(***************************************************************************)
EXTENDS Protocol, FiniteSetTheorems, SequenceTheorems, TLAPS

-----------------------------------------------------------------------------
(* The inductive invariant.                                                *)

\* How far the bootstrap has come: it has been reported once at most, the
\* seeds are silent unless they were asked, and while they have not finished
\* one of them has still to end.
Quiet(s) == seed[s] = [connect |-> 0, send |-> FALSE, address |-> FALSE]
BootInv ==
  /\ booted \in {<<>>, <<"ok">>, <<"error">>}
  /\ boot \in {"load", "count"} => booted = <<>> /\ ~finished /\ ended_paths = 0
  /\ boot # "seeds" => \A s \in Seeds : Quiet(s)
  /\ boot = "seeds" /\ ~finished => booted = <<>> /\ ended_paths < Cardinality(Seeds)

\* count_paths counts the paths of start() that succeeded; a success is told
\* at two, and an error on behalf of a path that failed.
BootOk == IF booted = <<"ok">> THEN 1 ELSE 0
ShakeOk == IF shake = "ok" THEN 1 ELSE 0
PathsInv ==
  /\ count_paths = BootOk + ShakeOk
  /\ count_paths = 2 => told = <<"ok">>
  /\ count_paths # 2 => \A i \in 1..Len(told) : told[i] = "error"
  /\ count_paths # 2 /\ told # <<>> => booted = <<"error">> \/ shake = "error"

\* The attempts can be counted, and make up max_outbound_ once protocol runs.
TryingInv ==
  /\ IsFiniteSet(Units(fetched)) /\ IsFiniteSet(Units(connecting))
  /\ count_paths = 2 => \/ trying > 0
                        \/ starved
                        \/ Len(connections) + Attempts >= MaxOutbound

ProtocolInv == TypeOK /\ BootInv /\ PathsInv /\ TryingInv /\ ListExact

-----------------------------------------------------------------------------
(* Counting, and erasing from a list.                                      *)

\* Units(f) has f[a] members for each a.
LEMMA UnitsMember ==
  ASSUME NEW S, NEW f \in [S -> Nat]
  PROVE  \A a, k : <<a, k>> \in Units(f) <=> a \in S /\ k \in 1..f[a]
BY DEF Units

\* One more of a: the total grows by one.
LEMMA UnitAdded ==
  ASSUME NEW S, NEW f \in [S -> Nat], NEW a \in S, IsFiniteSet(Units(f))
  PROVE  LET g == [f EXCEPT ![a] = @ + 1]
         IN  IsFiniteSet(Units(g)) /\ Total(g) = Total(f) + 1 /\ Total(f) \in Nat
<1> DEFINE g == [f EXCEPT ![a] = @ + 1]
<1>1. g \in [S -> Nat] /\ g[a] = f[a] + 1 /\ \A b \in S \ {a} : g[b] = f[b]
  OBVIOUS
<1> HIDE DEF g
<1>2. Units(g) = Units(f) \cup {<<a, f[a] + 1>>}
  <2>1. ASSUME NEW u \in Units(g) PROVE u \in Units(f) \cup {<<a, f[a] + 1>>}
    <3>0. PICK b \in S : \E k \in 1..g[b] : u = <<b, k>>
      BY <1>1 DEF Units
    <3>1. PICK k \in 1..g[b] : u = <<b, k>>
      BY <3>0
    <3>2. CASE b = a
      BY <1>1, <3>1, <3>2, UnitsMember
    <3>3. CASE b # a
      BY <1>1, <3>1, <3>3, UnitsMember
    <3> QED BY <3>2, <3>3
  <2>2. ASSUME NEW u \in Units(f) PROVE u \in Units(g)
    <3>0. PICK b \in S : \E k \in 1..f[b] : u = <<b, k>>
      BY DEF Units
    <3>1. PICK k \in 1..f[b] : u = <<b, k>>
      BY <3>0
    <3>2. k \in 1..g[b]
      BY <1>1, <3>1
    <3> QED BY <1>1, <3>1, <3>2, UnitsMember
  <2>3. <<a, f[a] + 1>> \in Units(g)
    BY <1>1, UnitsMember
  <2> QED BY <2>1, <2>2, <2>3
<1>3. <<a, f[a] + 1>> \notin Units(f)
  BY UnitsMember
<1>4. IsFiniteSet(Units(g)) /\ Cardinality(Units(g)) = Cardinality(Units(f)) + 1
  BY <1>2, <1>3, FS_AddElement, ZenonT(40)
<1> QED BY <1>4, FS_CardinalityType DEF Total, g

\* One less of a: the total shrinks by one.
LEMMA UnitRemoved ==
  ASSUME NEW S, NEW f \in [S -> Nat], NEW a \in S, IsFiniteSet(Units(f)), f[a] > 0
  PROVE  LET g == [f EXCEPT ![a] = @ - 1]
         IN  /\ g \in [S -> Nat] /\ IsFiniteSet(Units(g))
             /\ Total(g) = Total(f) - 1 /\ Total(f) \in Nat /\ Total(g) \in Nat
<1> DEFINE g == [f EXCEPT ![a] = @ - 1]
<1>1. g \in [S -> Nat] /\ g[a] = f[a] - 1 /\ \A b \in S \ {a} : g[b] = f[b]
  OBVIOUS
<1> HIDE DEF g
<1>2. Units(g) = Units(f) \ {<<a, f[a]>>}
  <2>1. ASSUME NEW u \in Units(g) PROVE u \in Units(f) \ {<<a, f[a]>>}
    <3>0. PICK b \in S : \E k \in 1..g[b] : u = <<b, k>>
      BY <1>1 DEF Units
    <3>1. PICK k \in 1..g[b] : u = <<b, k>>
      BY <3>0
    <3>2. k \in 1..f[b] /\ (b = a => k # f[a])
      BY <1>1, <3>1
    <3> QED BY <3>1, <3>2, UnitsMember
  <2>2. ASSUME NEW u \in Units(f) \ {<<a, f[a]>>} PROVE u \in Units(g)
    <3>0. PICK b \in S : \E k \in 1..f[b] : u = <<b, k>>
      BY DEF Units
    <3>1. PICK k \in 1..f[b] : u = <<b, k>>
      BY <3>0
    <3>2. k \in 1..g[b]
      BY <1>1, <2>2, <3>1
    <3> QED BY <1>1, <3>1, <3>2, UnitsMember
  <2> QED BY <2>1, <2>2
<1>3. <<a, f[a]>> \in Units(f)
  BY UnitsMember
<1>4. IsFiniteSet(Units(g)) /\ Cardinality(Units(g)) = Cardinality(Units(f)) - 1
  BY <1>2, <1>3, FS_RemoveElement, Zenon
<1> QED BY <1>1, <1>4, FS_CardinalityType, Zenon DEF Total, g

\* Nothing counts as nothing.
LEMMA NoUnits ==
  ASSUME NEW S
  PROVE  LET f == [a \in S |-> 0] IN IsFiniteSet(Units(f)) /\ Total(f) = 0
<1>1. Units([a \in S |-> 0]) = {}
  BY DEF Units
<1> QED BY <1>1, FS_EmptySet DEF Total

\* Erasing the only index found closes the gap and keeps the rest in order.
LEMMA EraseOnly ==
  ASSUME NEW S, NEW list \in Seq(S), NEW i \in 1..Len(list)
  PROVE  /\ EraseFirst(list, {i}) \in Seq(S)
         /\ Len(EraseFirst(list, {i})) = Len(list) - 1
         /\ \A j \in 1..Len(list) - 1 :
              EraseFirst(list, {i})[j] = IF j < i THEN list[j] ELSE list[j + 1]
<1>1. (CHOOSE j \in {i} : \A k \in {i} : j <= k) = i
  OBVIOUS
<1> DEFINE u == SubSeq(list, 1, i - 1)
           v == SubSeq(list, i + 1, Len(list))
<1>2. EraseFirst(list, {i}) = u \o v
  BY <1>1, Zenon DEF EraseFirst
<1>3. /\ u \in Seq(S) /\ Len(u) = i - 1
      /\ \A j \in 1..i - 1 : u[j] = list[j]
  OBVIOUS
<1>4. /\ v \in Seq(S) /\ Len(v) = Len(list) - i
      /\ \A j \in 1..Len(list) - i : v[j] = list[i + j]
  OBVIOUS
<1> HIDE DEF u, v
<1>5. /\ u \o v \in Seq(S) /\ Len(u \o v) = Len(u) + Len(v)
      /\ \A j \in 1..Len(u) + Len(v) : (u \o v)[j] = IF j <= Len(u) THEN u[j] ELSE v[j - Len(u)]
  BY <1>3, <1>4, ConcatProperties, Zenon
<1>6. Len(u \o v) = Len(list) - 1
  BY <1>3, <1>4, <1>5
<1>7. ASSUME NEW j \in 1..Len(list) - 1
      PROVE  (u \o v)[j] = IF j < i THEN list[j] ELSE list[j + 1]
  <2>1. (u \o v)[j] = IF j <= Len(u) THEN u[j] ELSE v[j - Len(u)]
    BY <1>5, <1>6
  <2>2. CASE j < i
    BY <1>3, <2>1, <2>2
  <2>3. CASE ~(j < i)
    <3>1. (u \o v)[j] = v[j - (i - 1)]
      BY <1>3, <2>1, <2>3
    <3>2. PICK k \in 1..Len(list) - i : k = j - (i - 1)
      BY <2>3
    <3>3. v[k] = list[i + k] /\ i + k = j + 1
      BY <1>4, <3>2
    <3>5. (u \o v)[j] = list[j + 1]
      BY <3>1, <3>2, <3>3, Zenon
    <3> QED BY <2>3, <3>5, Zenon
  <2> QED BY <2>2, <2>3, Zenon
<1> HIDE DEF u, v
<1> QED BY <1>2, <1>5, <1>6, <1>7, Zenon

-----------------------------------------------------------------------------
(* Starting.                                                               *)

\* A path of start() ends, the bootstrap or the handshake service: what is
\* counted and told follows it.
LEMMA PathEndsInv ==
  ASSUME TypeOK, PathsInv, NEW ec \in {"ok", "error"}, PathEnds(ec),
         \/ booted = <<>> /\ booted' = <<ec>> /\ shake' = shake
         \/ shake = "pending" /\ shake' = ec /\ booted' = booted
  PROVE  /\ PathsInv'
         /\ told' \in Seq({"ok", "error"}) /\ count_paths' \in 0..2
         /\ trying' \in Nat /\ trying <= trying'
         /\ listening' \in {"none", "listen", "accept"}
         /\ count_paths' = 2 => trying' > 0
         /\ count_paths # 2
<1>1. BootOk \in {0, 1} /\ ShakeOk \in {0, 1} /\ count_paths = BootOk + ShakeOk
  BY DEF BootOk, ShakeOk, PathsInv
<1>2. count_paths # 2
  BY <1>1 DEF BootOk, ShakeOk
<1>3. CASE ec = "ok"
  <2>1. count_paths' = count_paths + 1
    BY <1>3 DEF PathEnds
  <2>2. count_paths' = BootOk' + ShakeOk'
    BY <1>1, <1>3, <2>1 DEF BootOk, ShakeOk
  <2>3. CASE count_paths' = 2
    <3>1. told' = Append(told, "ok") /\ trying' = trying + 1 /\ listening' = "listen"
      BY <1>3, <2>1, <2>3 DEF PathEnds
    <3>2. told = <<>>
      <4>1. booted' = <<"ok">> /\ shake' = "ok"
        BY <2>2, <2>3 DEF BootOk, ShakeOk
      <4>2. booted # <<"error">> /\ shake # "error"
        BY <4>1
      <4> QED BY <1>2, <4>2 DEF PathsInv
    <3>3. told' = <<"ok">>
      <4>1. Append(<<>>, "ok") = <<"ok">>
        OBVIOUS
      <4> QED BY <3>1, <3>2, <4>1, Zenon
    <3>4. <<"ok">> \in Seq({"ok", "error"})
      OBVIOUS
    <3>5. PathsInv'
      BY <2>2, <2>3, <3>3 DEF PathsInv
    <3>6. told' \in Seq({"ok", "error"})
      BY <3>3, <3>4, Zenon
    <3>7. trying \in Nat /\ listening' \in {"none", "listen", "accept"} /\ count_paths' \in 0..2
      BY <1>2, <2>3, <3>1 DEF TypeOK
    <3>8. trying' \in Nat /\ trying <= trying' /\ trying' > 0
      BY <3>1, <3>7
    <3>9. count_paths # 2
      BY <2>1, <2>3, <1>2 DEF TypeOK
    <3> QED BY <3>5, <3>6, <3>7, <3>8, <3>9, Zenon
  <2>4. CASE count_paths' # 2
    <3>1. UNCHANGED <<told, trying, listening>>
      BY <1>3, <2>1, <2>4 DEF PathEnds
    <3>2. told' # <<>> => booted' = <<"error">> \/ shake' = "error"
      BY <1>2, <3>1 DEF PathsInv
    <3>3. count_paths' \in 0..2
      BY <1>1, <1>2, <2>1
    <3>4. told \in Seq({"ok", "error"}) /\ trying \in Nat /\ listening \in {"none", "listen", "accept"}
      BY Zenon DEF TypeOK
    <3>5. PathsInv'
      BY <1>2, <2>2, <2>4, <3>1, <3>2, Zenon DEF PathsInv
    <3>6. trying <= trying' /\ (count_paths' = 2 => trying' > 0)
      BY <2>4, <3>1, <3>4
    <3> QED BY <1>2, <3>1, <3>3, <3>4, <3>5, <3>6, ZenonT(40)
  <2> QED BY <2>3, <2>4
<1>4. CASE ec = "error"
  <2>1. told' = Append(told, "error") /\ UNCHANGED <<count_paths, trying, listening>>
    BY <1>4 DEF PathEnds
  <2>2. count_paths' = BootOk' + ShakeOk'
    BY <1>1, <1>4, <2>1 DEF BootOk, ShakeOk
  <2>3. told' \in Seq({"ok", "error"}) /\ \A i \in 1..Len(told') : told'[i] = "error"
    <3>1. told \in Seq({"ok", "error"}) /\ \A i \in 1..Len(told) : told[i] = "error"
      BY <1>2 DEF PathsInv, TypeOK
    <3> QED BY <2>1, <3>1
  <2>4. booted' = <<"error">> \/ shake' = "error"
    BY <1>4
  <2>5. PathsInv'
    BY <1>2, <2>1, <2>2, <2>3, <2>4, Zenon DEF PathsInv
  <2>6. trying \in Nat /\ listening \in {"none", "listen", "accept"} /\ count_paths \in 0..2
    BY Zenon DEF TypeOK
  <2>7. trying <= trying' /\ (count_paths' = 2 => trying' > 0)
    BY <1>2, <2>1, <2>6
  <2> QED BY <1>2, <2>1, <2>3, <2>5, <2>6, <2>7, Zenon
<1> QED BY <1>3, <1>4

\* The bootstrap is reported for the first time, while it is still open.
LEMMA BootstrappedInv ==
  ASSUME TypeOK, BootInv, PathsInv, booted = <<>>,
         NEW ec \in {"ok", "error"}, Bootstrapped(ec), UNCHANGED shake
  PROVE  /\ booted' = <<ec>> /\ booted' \in Seq({"ok", "error"})
         /\ PathsInv'
         /\ told' \in Seq({"ok", "error"}) /\ count_paths' \in 0..2
         /\ trying' \in Nat /\ trying <= trying'
         /\ listening' \in {"none", "listen", "accept"}
         /\ count_paths' = 2 => trying' > 0
         /\ count_paths # 2
<1>1. booted' = <<ec>>
  <2>1. Append(<<>>, ec) = <<ec>>
    OBVIOUS
  <2> QED BY <2>1, Zenon DEF Bootstrapped
<1>2. <<ec>> \in Seq({"ok", "error"})
  OBVIOUS
<1>3. PathEnds(ec)
  BY DEF Bootstrapped
<1> QED BY <1>1, <1>2, <1>3, PathEndsInv, Zenon

\* What the steps of starting leave alone.
Elsewhere == <<file, buffer, fetches, outvars, nodevars>>

\* The attempts stay enough when a step of starting has begun one at most.
LEMMA StartTrying ==
  ASSUME TypeOK, TryingInv, UNCHANGED Elsewhere, trying' \in Nat, trying <= trying',
         count_paths' = 2 /\ count_paths # 2 => trying' > 0
  PROVE  TryingInv' /\ (ListExact => ListExact')
<1>1. UNCHANGED <<fetches, fetched, connecting, starved, connections, opened, closed,
                  accepted_channels>>
  BY DEF Elsewhere, outvars, nodevars
<1>2. UNCHANGED <<Units(fetched), Units(connecting), Attempts>>
  BY <1>1 DEF Attempts, Total, Units
<1>3. TryingInv'
  BY <1>1, <1>2 DEF TryingInv, TypeOK
<1>4. ListExact => ListExact'
  BY <1>1 DEF ListExact, Outbound, Inbound
<1> QED BY <1>3, <1>4

\* do_load.
LEMMA DoLoadInv == ProtocolInv /\ DoLoad => ProtocolInv'
<1> SUFFICES ASSUME ProtocolInv, DoLoad PROVE ProtocolInv'
  OBVIOUS
<1> USE DEF ProtocolInv
<1>1. /\ UNCHANGED <<file, buffer, fetches, outvars, nodevars, seed, ended_paths, finished,
                     booted, shake, count_paths, told, trying, listening>>
      /\ boot = "load" /\ boot' = "count"
  BY DEF DoLoad, seedvars
<1>2. pushes' \in [Addresses -> Nat]
  <2>1. ASSUME NEW a \in Addresses
        PROVE  Cardinality({i \in 1..Len(file) : file[i] = a}) \in Nat
    <3>1. IsFiniteSet(1..Len(file))
      BY FS_Interval DEF TypeOK
    <3>2. IsFiniteSet({i \in 1..Len(file) : file[i] = a})
      BY <3>1, FS_Subset
    <3> QED BY <3>2, FS_CardinalityType
  <2>2. \A a \in Addresses : pushes[a] \in Nat
    BY DEF TypeOK
  <2> DEFINE lines(a) == Cardinality({i \in 1..Len(file) : file[i] = a})
  <2>3. pushes' = [a \in Addresses |-> pushes[a] + lines(a)] /\ \A a \in Addresses : lines(a) \in Nat
    BY <2>1 DEF DoLoad
  <2> HIDE DEF lines
  <2> QED BY <2>2, <2>3
<1>3. TypeOK'
  BY <1>1, <1>2, ZenonT(30) DEF TypeOK, outvars, nodevars
<1>4. BootInv' /\ PathsInv'
  BY <1>1 DEF BootInv, PathsInv, Quiet, BootOk, ShakeOk
<1>5. trying' \in Nat /\ trying <= trying' /\ UNCHANGED <<Elsewhere, count_paths>>
  BY <1>1 DEF Elsewhere, TypeOK
<1> QED BY <1>3, <1>4, <1>5, StartTrying

\* if_0_seed.
LEMMA IfZeroSeedInv == ProtocolInv /\ IfZeroSeed => ProtocolInv'
<1> SUFFICES ASSUME ProtocolInv, IfZeroSeed PROVE ProtocolInv'
  OBVIOUS
<1> USE DEF ProtocolInv
<1>1. /\ UNCHANGED <<file, buffer, pushes, fetches, outvars, nodevars, ended_paths, finished, shake>>
      /\ boot = "count" /\ booted = <<>> /\ ~finished /\ ended_paths = 0
  BY DEF IfZeroSeed, hostvars, BootInv
<1>2. CASE buffer = <<>>
  <2>1. /\ boot' = "seeds"
        /\ seed' = [s \in Seeds |-> [connect |-> 3, send |-> FALSE, address |-> FALSE]]
        /\ UNCHANGED <<booted, count_paths, told, trying, listening>>
    BY <1>2 DEF IfZeroSeed
  <2>2. TypeOK'
    <3>1. seed' \in [Seeds -> [connect : 0..3, send : BOOLEAN, address : BOOLEAN]]
      BY <2>1
    <3> QED BY <1>1, <2>1, <3>1, ZenonT(30) DEF TypeOK, outvars, nodevars
  <2>3. Cardinality(Seeds) \in Nat \ {0}
    BY ProtocolAssumption, FS_EmptySet, FS_CardinalityType
  <2>4. BootInv' /\ PathsInv'
    BY <1>1, <2>1, <2>3 DEF BootInv, PathsInv, BootOk, ShakeOk
  <2>5. trying' \in Nat /\ trying <= trying' /\ UNCHANGED <<Elsewhere, count_paths>>
    <3>1. trying \in Nat
      BY Zenon DEF TypeOK
    <3> QED BY <1>1, <2>1, <3>1 DEF Elsewhere
  <2> QED BY <2>2, <2>4, <2>5, StartTrying
<1>3. CASE buffer # <<>>
  <2>1. boot' = "done" /\ Bootstrapped("ok") /\ UNCHANGED seed
    BY <1>3 DEF IfZeroSeed
  <2>2. /\ booted' = <<"ok">> /\ booted' \in Seq({"ok", "error"})
        /\ PathsInv'
        /\ told' \in Seq({"ok", "error"}) /\ count_paths' \in 0..2
        /\ trying' \in Nat /\ trying <= trying'
        /\ listening' \in {"none", "listen", "accept"}
        /\ count_paths' = 2 => trying' > 0
        /\ count_paths # 2
    BY <1>1, <2>1, BootstrappedInv
  <2>3. TypeOK'
    BY <1>1, <2>1, <2>2, ZenonT(30) DEF TypeOK, outvars, nodevars
  <2>4. BootInv'
    BY <1>1, <2>1, <2>2 DEF BootInv, Quiet
  <2> QED BY <1>1, <2>2, <2>3, <2>4, StartTrying DEF Elsewhere
<1> QED BY <1>2, <1>3

\* The handshake service has started, or could not.
LEMMA HandshakeStartedInv == ProtocolInv /\ HandshakeStarted => ProtocolInv'
<1> SUFFICES ASSUME ProtocolInv, HandshakeStarted PROVE ProtocolInv'
  OBVIOUS
<1> USE DEF ProtocolInv
<1>1. /\ UNCHANGED <<file, buffer, pushes, fetches, outvars, nodevars, seed, ended_paths, finished,
                     boot, booted>>
      /\ shake = "pending" /\ shake' \in {"ok", "error"} /\ PathEnds(shake')
  BY DEF HandshakeStarted, hostvars, seedvars
<1>2. /\ PathsInv'
      /\ told' \in Seq({"ok", "error"}) /\ count_paths' \in 0..2
      /\ trying' \in Nat /\ trying <= trying'
      /\ listening' \in {"none", "listen", "accept"}
      /\ count_paths' = 2 => trying' > 0
  BY <1>1, PathEndsInv
<1>3. TypeOK'
  BY <1>1, <1>2, ZenonT(30) DEF TypeOK, outvars, nodevars
<1>4. BootInv'
  BY <1>1 DEF BootInv, Quiet
<1> QED BY <1>1, <1>2, <1>3, <1>4, StartTrying DEF Elsewhere

-----------------------------------------------------------------------------
(* The seeds.                                                              *)

\* What holds after a seed's handler: the bootstrap may have been reported,
\* for the first time.
SeedResult ==
  /\ PathsInv'
  /\ ended_paths' \in 0..Cardinality(Seeds) /\ finished' \in BOOLEAN
  /\ booted' \in {<<>>, <<"ok">>, <<"error">>} /\ booted' \in Seq({"ok", "error"})
  /\ ~finished' => booted' = <<>> /\ ended_paths' < Cardinality(Seeds)
  /\ told' \in Seq({"ok", "error"}) /\ count_paths' \in 0..2
  /\ trying' \in Nat /\ trying <= trying'
  /\ listening' \in {"none", "listen", "accept"}
  /\ count_paths' = 2 /\ count_paths # 2 => trying' > 0

\* hosts counts the addresses of a packet as jobs to come.
LEMMA QueueType ==
  ASSUME TypeOK, NEW packet, Queue(packet)
  PROVE  pushes' \in [Addresses -> Nat]
<1>1. \A a \in Addresses : pushes[a] + (IF a \in packet THEN 1 ELSE 0) \in Nat
  <2>1. \A a \in Addresses : pushes[a] \in Nat
    BY Zenon DEF TypeOK
  <2> QED BY <2>1
<1> QED BY <1>1, Zenon DEF Queue

\* The bootstrap goes on as it was.
LEMMA SeedQuiet ==
  ASSUME ProtocolInv, boot = "seeds",
         UNCHANGED <<ended_paths, finished, booted, shake, count_paths, told, trying, listening>>
  PROVE  SeedResult
BY DEF ProtocolInv, TypeOK, BootInv, PathsInv, BootOk, ShakeOk, SeedResult

\* A seed's handler ends the bootstrap.
LEMMA SeedEnds ==
  ASSUME ProtocolInv, boot = "seeds", ~finished, NEW ec \in {"ok", "error"},
         ended_paths' = ended_paths + 1, finished' = TRUE, Bootstrapped(ec), UNCHANGED shake
  PROVE  SeedResult
<1> USE DEF ProtocolInv
<1>1. booted = <<>> /\ ended_paths < Cardinality(Seeds)
  BY DEF BootInv
<1>2. /\ booted' = <<ec>> /\ booted' \in Seq({"ok", "error"})
      /\ PathsInv'
      /\ told' \in Seq({"ok", "error"}) /\ count_paths' \in 0..2
      /\ trying' \in Nat /\ trying <= trying'
      /\ listening' \in {"none", "listen", "accept"}
      /\ count_paths' = 2 => trying' > 0
      /\ count_paths # 2
  BY <1>1, BootstrappedInv
<1>3. Cardinality(Seeds) \in Nat
  BY ProtocolAssumption, FS_CardinalityType
<1>4. booted' \in {<<>>, <<"ok">>, <<"error">>}
  BY <1>2, Zenon
<1>5. ended_paths' \in 0..Cardinality(Seeds)
  BY <1>1, <1>3 DEF TypeOK
<1> QED BY <1>2, <1>4, <1>5 DEF SeedResult

\* error_case.
LEMMA ErrorCaseInv ==
  ASSUME ProtocolInv, boot = "seeds", ErrorCase, UNCHANGED shake
  PROVE  SeedResult
<1> USE DEF ProtocolInv
<1>1. CASE finished
  BY <1>1, SeedQuiet DEF ErrorCase
<1>2. CASE ~finished /\ ended_paths + 1 = Cardinality(Seeds)
  BY <1>2, SeedEnds DEF ErrorCase
<1>3. CASE ~finished /\ ended_paths + 1 # Cardinality(Seeds)
  <2>1. /\ ended_paths' = ended_paths + 1
        /\ UNCHANGED <<finished, booted, count_paths, told, trying, listening>>
    BY <1>3 DEF ErrorCase
  <2>2. booted = <<>> /\ ended_paths < Cardinality(Seeds) /\ Cardinality(Seeds) \in Nat
    BY <1>3, ProtocolAssumption, FS_CardinalityType DEF BootInv
  <2>3. ended_paths' \in 0..Cardinality(Seeds) /\ ended_paths' < Cardinality(Seeds)
    <3>1. ended_paths \in 0..Cardinality(Seeds)
      BY Zenon DEF TypeOK
    <3> QED BY <1>3, <2>1, <2>2, <3>1
  <2> QED BY <2>1, <2>2, <2>3 DEF SeedResult, TypeOK, BootInv, PathsInv, BootOk, ShakeOk
<1> QED BY <1>1, <1>2, <1>3

\* A handler of seed s runs: it was owed, so the seeds had been asked.
LEMMA SeedStep ==
  ASSUME ProtocolInv, NEW s \in Seeds, SeedAnswers(s)
  PROVE  ProtocolInv'
<1> USE DEF ProtocolInv
<1> DEFINE SeedType == [Seeds -> [connect : 0..3, send : BOOLEAN, address : BOOLEAN]]
<1>1. boot = "seeds" /\ boot' = boot /\ UNCHANGED <<file, buffer, shake, fetches, outvars, nodevars>>
  <2>1. ~Quiet(s)
    BY DEF SeedAnswers, SeedRefused, SeedConnected, SeedAsked, SaveAddresses,
           SaveAddressesFails, Quiet
  <2> QED BY <2>1, ZenonT(30) DEF BootInv, SeedAnswers, SeedRefused, SeedConnected, SeedAsked,
                      SaveAddresses, SaveAddressesFails, hostvars, startvars
<1>2. seed' \in SeedType
  <2>1. seed \in SeedType
    BY DEF TypeOK
  <2>2. CASE SeedRefused(s)
    <3>1. PICK more \in 0..(seed[s].connect - 1) : seed' = [seed EXCEPT ![s].connect = more]
      BY <2>2, Zenon DEF SeedRefused
    <3>2. seed[s].connect \in 0..3
      BY <2>1, Zenon
    <3>3. more \in 0..3
      <4> HIDE DEF ProtocolInv
      <4> QED BY <3>1, <3>2
    <3> QED BY <2>1, <3>1, <3>3, ZenonT(30)
  <2>3. CASE SeedConnected(s)
    BY <2>1, <2>3 DEF SeedConnected
  <2>4. CASE \E ok \in BOOLEAN : SeedAsked(s, ok)
    BY <2>1, <2>4, ZenonT(30) DEF SeedAsked
  <2>5. CASE (\E packet \in Packets : SaveAddresses(s, packet)) \/ SaveAddressesFails(s)
    BY <2>1, <2>5, ZenonT(30) DEF SaveAddresses, SaveAddressesFails
  <2> QED BY <2>2, <2>3, <2>4, <2>5 DEF SeedAnswers
<1>3. pushes' \in [Addresses -> Nat]
  <2>1. UNCHANGED pushes \/ \E packet \in Packets : Queue(packet)
    BY ZenonT(30) DEF SeedAnswers, SeedRefused, SeedConnected, SeedAsked, SaveAddresses,
           SaveAddressesFails, hostvars
  <2>2. pushes \in [Addresses -> Nat]
    BY Zenon DEF TypeOK
  <2> QED BY <2>1, <2>2, QueueType, Zenon
<1>4. SeedResult
  <2>1. CASE SeedRefused(s) \/ SaveAddressesFails(s)
    BY <1>1, <2>1, ErrorCaseInv, Zenon DEF SeedRefused, SaveAddressesFails
  <2>2. CASE SeedConnected(s)
    BY <1>1, <2>2, SeedQuiet DEF SeedConnected, startvars
  <2>3. CASE \E ok \in BOOLEAN : SeedAsked(s, ok)
    BY <1>1, <2>3, ErrorCaseInv, SeedQuiet DEF SeedAsked
  <2>4. CASE \E packet \in Packets : SaveAddresses(s, packet)
    BY <1>1, <2>4, SeedQuiet, SeedEnds, ZenonT(30) DEF SaveAddresses
  <2> QED BY <2>1, <2>2, <2>3, <2>4 DEF SeedAnswers
<1>5. TypeOK'
  BY <1>1, <1>2, <1>3, <1>4, ZenonT(30) DEF TypeOK, SeedResult, outvars, nodevars
<1>6. BootInv'
  BY <1>1, <1>4 DEF BootInv, SeedResult
<1>7. trying' \in Nat /\ trying <= trying' /\ UNCHANGED Elsewhere
      /\ (count_paths' = 2 /\ count_paths # 2 => trying' > 0)
  BY <1>1, <1>4 DEF Elsewhere, SeedResult
<1>8. PathsInv'
  BY <1>4, Zenon DEF SeedResult
<1> QED BY <1>5, <1>6, <1>7, <1>8, StartTrying

-----------------------------------------------------------------------------
(* Running.                                                                *)

\* The steps of running leave the start as it is.
LEMMA StartKept ==
  ASSUME BootInv, PathsInv, UNCHANGED <<seedvars, startvars>>
  PROVE  BootInv' /\ PathsInv'
BY DEF seedvars, startvars, BootInv, PathsInv, Quiet, BootOk, ShakeOk

\* The lists are exact when they and the channels are as they were.
LEMMA ListsKept ==
  ASSUME ListExact, UNCHANGED <<opened, closed, connections, accepted_channels>>
  PROVE  ListExact'
BY DEF ListExact, Outbound, Inbound

\* hosts pushes an address, or a peer's addresses are queued: no attempt to
\* connect is concerned.
LEMMA HostsInv ==
  ASSUME ProtocolInv,
         \/ \E a \in Addresses : DoPush(a)
         \/ \E n \in 1..opened : \E packet \in Packets : ReceiveAddressMessage(n, packet)
         \/ \E ok \in BOOLEAN : HandleListen(ok)
  PROVE  ProtocolInv'
<1> USE DEF ProtocolInv
<1>1. /\ UNCHANGED <<file, seedvars, startvars, trying, fetches, fetched, connecting, echoes,
                     retries, starved, opened, closed, connections, accepted_channels>>
      /\ listening' \in {"none", "listen", "accept"}
      /\ closed' \cup addressed' \subseteq 1..opened'
  <2>1. CASE \E a \in Addresses : DoPush(a)
    BY <2>1, ZenonT(30) DEF DoPush, TypeOK, outvars, nodevars
  <2>2. CASE \E n \in 1..opened : \E packet \in Packets : ReceiveAddressMessage(n, packet)
    <3>1. listening \in {"none", "listen", "accept"} /\ closed \cup addressed \subseteq 1..opened
      BY Zenon DEF TypeOK
    <3> QED BY <2>2, <3>1, ZenonT(30) DEF ReceiveAddressMessage, outvars
  <2>3. CASE \E ok \in BOOLEAN : HandleListen(ok)
    BY <2>3, ZenonT(30) DEF HandleListen, TypeOK, outvars, nodevars, hostvars
  <2> QED BY <2>1, <2>2, <2>3, Zenon
<1>2. pushes' \in [Addresses -> Nat] /\ buffer' \in Seq(Addresses) /\ Len(buffer') <= Capacity
  <2>1. CASE \E a \in Addresses : DoPush(a)
    <3> PICK a \in Addresses : DoPush(a)
      BY <2>1
    <3>1. pushes' \in [Addresses -> Nat]
      <4>1. pushes \in [Addresses -> Nat]
        BY Zenon DEF TypeOK
      <4>2. pushes[a] > 0 /\ pushes' = [pushes EXCEPT ![a] = @ - 1]
        BY Zenon DEF DoPush
      <4> QED BY <4>1, <4>2
    <3> DEFINE r == IF Len(buffer) < Capacity THEN buffer ELSE Tail(buffer)
    <3>2. r \in Seq(Addresses) /\ Len(r) < Capacity /\ Len(r) \in Nat
      <4>1. CASE Len(buffer) < Capacity
        BY <4>1 DEF TypeOK
      <4>2. CASE ~(Len(buffer) < Capacity)
        <5>1. Len(buffer) = Capacity /\ buffer # <<>> /\ buffer \in Seq(Addresses)
          <6>1. buffer \in Seq(Addresses) /\ Len(buffer) <= Capacity
            BY Zenon DEF TypeOK
          <6> QED BY <4>2, <6>1, ProtocolAssumption
        <5>2. Tail(buffer) \in Seq(Addresses) /\ Len(Tail(buffer)) = Len(buffer) - 1
          BY <5>1, SMTT(30)
        <5> QED BY <4>2, <5>1, <5>2, ProtocolAssumption, SMTT(30)
      <4> QED BY <4>1, <4>2
    <3> HIDE DEF r
    <3>3. buffer' = Append(r, a)
      BY DEF DoPush, PushBack, r
    <3>4. Append(r, a) \in Seq(Addresses) /\ Len(Append(r, a)) = Len(r) + 1
      BY <3>2
    <3> QED BY <3>1, <3>2, <3>3, <3>4, ProtocolAssumption, SMTT(30)
  <2>2. CASE \E n \in 1..opened : \E packet \in Packets : ReceiveAddressMessage(n, packet)
    <3>1. UNCHANGED buffer /\ \E packet \in Packets : Queue(packet)
      BY <2>2, Zenon DEF ReceiveAddressMessage
    <3>2. pushes' \in [Addresses -> Nat]
      BY <3>1, QueueType, Zenon
    <3> QED BY <3>1, <3>2, Zenon DEF TypeOK
  <2>3. CASE \E ok \in BOOLEAN : HandleListen(ok)
    BY <2>3, Zenon DEF HandleListen, TypeOK, hostvars
  <2> QED BY <2>1, <2>2, <2>3
<1>3. TypeOK'
  BY <1>1, <1>2, Zenon DEF TypeOK, seedvars, startvars
<1>4. BootInv' /\ PathsInv' /\ ListExact'
  BY <1>1, StartKept, ListsKept
<1>5. UNCHANGED <<Units(fetched), Units(connecting), Attempts, count_paths>>
  BY <1>1 DEF Attempts, Total, Units, startvars
<1>6. TryingInv'
  BY <1>1, <1>5 DEF TryingInv
<1> QED BY <1>3, <1>4, <1>6

\* The number of connections is a number.
LEMMA ConnectionsCount == ASSUME TypeOK PROVE Len(connections) \in Nat
<1>1. connections \in Seq([address : Addresses, node : 1..opened])
  BY DEF TypeOK
<1> HIDE DEF TypeOK
<1> QED BY <1>1, LenProperties, Zenon

\* The totals are numbers.
LEMMA TotalsNat ==
  ASSUME TryingInv PROVE Total(fetched) \in Nat /\ Total(connecting) \in Nat
BY FS_CardinalityType DEF TryingInv, Total

\* What a step that turns attempts into others has to show.
OutStep ==
  /\ UNCHANGED <<hostvars, seedvars, startvars, listening, nodevars>>
  /\ trying' \in Nat /\ fetches' \in Nat /\ echoes' \in Nat /\ retries' \in Nat
  /\ starved' \in BOOLEAN
  /\ connecting' \in [Addresses -> Nat] /\ fetched' \in [Addresses \cup {None} -> Nat]
  /\ IsFiniteSet(Units(fetched)') /\ IsFiniteSet(Units(connecting)')
  /\ \/ trying' > 0
     \/ starved'
     \/ trying = 0 /\ ~starved /\ Attempts' >= Attempts /\ Attempts' \in Nat
     \/ Len(connections) + Attempts' >= MaxOutbound

\* It keeps the invariant.
LEMMA OutInv ==
  ASSUME ProtocolInv, OutStep PROVE ProtocolInv'
<1> USE DEF ProtocolInv, OutStep
<1>1. TypeOK'
  BY ZenonT(30) DEF TypeOK, hostvars, seedvars, startvars, nodevars
<1>2. BootInv' /\ PathsInv' /\ ListExact'
  <2>1. UNCHANGED <<seedvars, startvars, opened, closed, connections, accepted_channels>>
    BY Zenon DEF nodevars
  <2> QED BY <2>1, StartKept, ListsKept, Zenon
<1>3. connections' = connections /\ count_paths' = count_paths
  BY DEF nodevars, startvars
<1>4. Attempts \in Nat /\ Len(connections) \in Nat
  <2>1. fetches \in Nat
    BY Zenon DEF TypeOK
  <2>2. Attempts \in Nat
    BY <2>1, TotalsNat DEF Attempts
  <2> QED BY <2>2, ConnectionsCount, Zenon
<1>5. count_paths' = 2 => \/ trying' > 0
                          \/ starved'
                          \/ Len(connections') + Attempts' >= MaxOutbound
  <2>1. count_paths = 2 => \/ trying > 0 \/ starved \/ Len(connections) + Attempts >= MaxOutbound
    BY Zenon DEF TryingInv
  <2>2. \/ trying' > 0
        \/ starved'
        \/ trying = 0 /\ ~starved /\ Attempts' >= Attempts /\ Attempts' \in Nat
        \/ Len(connections) + Attempts' >= MaxOutbound
    BY Zenon
  <2> HIDE DEF ProtocolInv, OutStep
  <2> QED BY <1>3, <1>4, <2>1, <2>2, ProtocolAssumption
<1>6. TryingInv'
  BY <1>5, Zenon DEF TryingInv
<1> QED BY <1>1, <1>2, <1>6

\* try_connect asks for as many addresses as connections are missing.
LEMMA TryConnectInv ==
  ASSUME ProtocolInv, TryConnect PROVE ProtocolInv'
<1> USE DEF ProtocolInv
<1>1. Len(connections) \in Nat /\ Missing(Len(connections)) \in Nat
      /\ Len(connections) + Missing(Len(connections)) >= MaxOutbound
  BY ConnectionsCount, ProtocolAssumption DEF Missing
<1>2. UNCHANGED <<fetched, connecting, echoes, retries, starved>> /\ trying \in Nat /\ fetches \in Nat
      /\ trying' = trying - 1 /\ trying > 0 /\ fetches' = fetches + Missing(Len(connections))
      /\ UNCHANGED <<hostvars, seedvars, startvars, listening, nodevars>>
  BY Zenon DEF TryConnect, TypeOK, outvars
<1>3. Units(fetched)' = Units(fetched) /\ Units(connecting)' = Units(connecting)
  BY <1>2 DEF Units
<1>4. Attempts' = Attempts + Missing(Len(connections)) /\ Attempts \in Nat
  <2>1. /\ Attempts = fetches + Total(fetched) + Total(connecting)
        /\ Attempts' = fetches' + Total(fetched) + Total(connecting)
    BY <1>3, Zenon DEF Attempts, Total
  <2>2. Total(fetched) \in Nat /\ Total(connecting) \in Nat
    BY TotalsNat
  <2>3. fetches \in Nat /\ fetches' = fetches + Missing(Len(connections))
    BY <1>2, Zenon
  <2> HIDE DEF ProtocolInv
  <2>4. PICK m \in Nat : m = Missing(Len(connections))
    BY <1>1, Zenon
  <2>5. fetches' = fetches + m
    BY <2>3, <2>4, Zenon
  <2>6. fetches \in Nat /\ m \in Nat
    BY <2>3, <2>4, Zenon
  <2>7. (fetches + m) + Total(fetched) + Total(connecting)
          = (fetches + Total(fetched) + Total(connecting)) + m
        /\ fetches + Total(fetched) + Total(connecting) \in Nat
    BY <2>2, <2>6
  <2>8. Attempts' = Attempts + m /\ Attempts \in Nat
    BY <2>1, <2>5, <2>7, Zenon
  <2> QED BY <2>4, <2>8, Zenon
<1>5. Len(connections) + Attempts' >= MaxOutbound
  BY <1>1, <1>4, ProtocolAssumption
<1>6. /\ trying' \in Nat /\ fetches' \in Nat /\ echoes' \in Nat /\ retries' \in Nat
      /\ starved' \in BOOLEAN
      /\ connecting' \in [Addresses -> Nat] /\ fetched' \in [Addresses \cup {None} -> Nat]
  <2>1. trying' \in Nat /\ fetches' \in Nat
    BY <1>1, <1>2, SMTT(20)
  <2> QED BY <1>2, <2>1, Zenon DEF TypeOK
<1>7. IsFiniteSet(Units(fetched)') /\ IsFiniteSet(Units(connecting)')
  BY <1>3 DEF TryingInv
<1> QED BY <1>2, <1>5, <1>6, <1>7, OutInv, Zenon DEF OutStep

\* hosts answers a fetch.
LEMMA DoFetchAddressInv ==
  ASSUME ProtocolInv, DoFetchAddress PROVE ProtocolInv'
<1> USE DEF ProtocolInv
<1>1. PICK a \in IF buffer = <<>> THEN {None} ELSE Range(buffer) :
        fetched' = [fetched EXCEPT ![a] = @ + 1]
  BY Zenon DEF DoFetchAddress
<1>2. a \in Addresses \cup {None}
  <2>1. CASE buffer = <<>>
    BY <1>1, <2>1
  <2>2. CASE buffer # <<>>
    <3>1. a \in Range(buffer) /\ DOMAIN buffer = 1..Len(buffer)
          /\ \A i \in 1..Len(buffer) : buffer[i] \in Addresses
      <4>1. buffer \in Seq(Addresses)
        BY Zenon DEF TypeOK
      <4> QED BY <1>1, <2>2, <4>1
    <3> QED BY <3>1, Zenon DEF Range
  <2> QED BY <2>1, <2>2
<1>3. UNCHANGED <<trying, connecting, echoes, retries, starved>> /\ trying \in Nat /\ fetches \in Nat
      /\ fetches' = fetches - 1 /\ fetches > 0
      /\ UNCHANGED <<hostvars, seedvars, startvars, listening, nodevars>>
  BY Zenon DEF DoFetchAddress, TypeOK
<1>4. fetched \in [Addresses \cup {None} -> Nat] /\ fetched' \in [Addresses \cup {None} -> Nat]
  <2>1. fetched \in [Addresses \cup {None} -> Nat]
    BY Zenon DEF TypeOK
  <2> QED BY <1>1, <1>2, <2>1
<1>5. /\ IsFiniteSet(Units(fetched')) /\ Total(fetched') = Total(fetched) + 1
      /\ Units(fetched)' = Units(fetched')
  <2>1. IsFiniteSet(Units(fetched)) /\ Units(fetched)' = Units(fetched')
    BY DEF TryingInv, Units
  <2> DEFINE g == [fetched EXCEPT ![a] = @ + 1]
  <2>2. fetched' = g
    BY <1>1, Zenon
  <2>3. fetched \in [Addresses \cup {None} -> Nat]
    BY <1>4, Zenon
  <2>4. IsFiniteSet(Units(g)) /\ Total(g) = Total(fetched) + 1
    <3> HIDE DEF ProtocolInv
    <3> QED BY <1>2, <2>1, <2>3, UnitAdded, ZenonT(40)
  <2> HIDE DEF g
  <2> QED BY <2>1, <2>2, <2>4, Zenon
<1>6. Units(connecting)' = Units(connecting) /\ Total(connecting)' = Total(connecting)
      /\ Total(fetched)' = Total(fetched')
  BY <1>3 DEF Units, Total
<1>7. Attempts' = Attempts /\ Attempts \in Nat
  <2>1. /\ Attempts = fetches + Total(fetched) + Total(connecting)
        /\ Attempts' = fetches' + (Total(fetched) + 1) + Total(connecting)
    BY <1>5, <1>6, Zenon DEF Attempts
  <2>2. Total(fetched) \in Nat /\ Total(connecting) \in Nat
    BY TotalsNat
  <2>3. fetches \in Nat /\ fetches' = fetches - 1
    BY <1>3, Zenon
  <2> QED BY <2>1, <2>2, <2>3
<1>8. /\ trying' \in Nat /\ fetches' \in Nat /\ echoes' \in Nat /\ retries' \in Nat
      /\ starved' \in BOOLEAN /\ connecting' \in [Addresses -> Nat]
  <2>1. fetches' \in Nat
    BY <1>3
  <2> QED BY <1>3, <2>1, Zenon DEF TypeOK
<1>9. IsFiniteSet(Units(fetched)') /\ IsFiniteSet(Units(connecting)')
  BY <1>5, <1>6 DEF TryingInv
<1>10. trying' > 0 \/ starved' \/ (trying = 0 /\ ~starved /\ Attempts' >= Attempts)
  <2>1. starved \in BOOLEAN
    BY Zenon DEF TypeOK
  <2> QED BY <1>3, <1>7, <2>1
<1> QED BY <1>3, <1>4, <1>7, <1>8, <1>9, <1>10, OutInv, ZenonT(40) DEF OutStep

\* An attempt that comes to nothing is made again, or found hosts empty.
LEMMA AttemptEndsInv ==
  ASSUME ProtocolInv,
         \/ AttemptNothing \/ FailsAgain
         \/ \E a \in Addresses : AttemptRefused(a) \/ ConnectFails(a)
  PROVE  ProtocolInv'
<1> USE DEF ProtocolInv
<1>1. /\ fetched \in [Addresses \cup {None} -> Nat] /\ connecting \in [Addresses -> Nat]
      /\ IsFiniteSet(Units(fetched)) /\ IsFiniteSet(Units(connecting))
      /\ trying \in Nat /\ retries \in Nat /\ echoes \in Nat /\ fetches \in Nat
      /\ starved \in BOOLEAN
  BY Zenon DEF TypeOK, TryingInv
<1>2. Units(fetched)' = Units(fetched') /\ Units(connecting)' = Units(connecting')
  BY DEF Units
<1>3. CASE AttemptNothing
  <2>1. fetched' \in [Addresses \cup {None} -> Nat] /\ IsFiniteSet(Units(fetched'))
    BY <1>1, <1>3, UnitRemoved, Zenon DEF AttemptNothing
  <2> QED BY <1>1, <1>2, <1>3, <2>1, OutInv, ZenonT(40) DEF AttemptNothing, OutStep
<1>4. CASE FailsAgain
  <2>1. /\ echoes > 0 /\ retries' = retries + 1 /\ echoes' = echoes - 1 /\ trying' = trying + 1
    BY <1>4, Zenon DEF FailsAgain
  <2>2. retries' \in Nat /\ echoes' \in Nat /\ trying' \in Nat /\ trying' > 0
    BY <1>1, <2>1
  <2> QED BY <1>1, <1>2, <1>4, <2>2, OutInv, ZenonT(40) DEF FailsAgain, OutStep
<1>5. ASSUME NEW a \in Addresses, AttemptRefused(a) PROVE ProtocolInv'
  <2>1. fetched' \in [Addresses \cup {None} -> Nat] /\ IsFiniteSet(Units(fetched'))
    BY <1>1, <1>5, UnitRemoved, Zenon DEF AttemptRefused
  <2>2. retries' = retries + 1 /\ trying' = trying + 1
    BY <1>5, Zenon DEF AttemptRefused
  <2>3. retries' \in Nat /\ trying' \in Nat /\ trying' > 0
    BY <1>1, <2>2
  <2> QED BY <1>1, <1>2, <1>5, <2>1, <2>3, OutInv, ZenonT(40) DEF AttemptRefused, OutStep
<1>6. ASSUME NEW a \in Addresses, ConnectFails(a) PROVE ProtocolInv'
  <2>1. connecting' \in [Addresses -> Nat] /\ IsFiniteSet(Units(connecting'))
    BY <1>1, <1>6, UnitRemoved, Zenon DEF ConnectFails
  <2>2. retries' = retries + 1 /\ trying' = trying + 1 /\ \E more \in 0..2 : echoes' = echoes + more
    BY <1>6, Zenon DEF ConnectFails
  <2>3. retries' \in Nat /\ trying' \in Nat /\ trying' > 0 /\ echoes' \in Nat
    BY <1>1, <2>2
  <2> QED BY <1>1, <1>2, <1>6, <2>1, <2>3, OutInv, ZenonT(40) DEF ConnectFails, OutStep
<1> QED BY <1>3, <1>4, <1>5, <1>6

\* An address that was fetched is connected to.
LEMMA AttemptConnectInv ==
  ASSUME ProtocolInv, NEW a \in Addresses, AttemptConnect(a) PROVE ProtocolInv'
<1> USE DEF ProtocolInv
<1>1. /\ fetched \in [Addresses \cup {None} -> Nat] /\ connecting \in [Addresses -> Nat]
      /\ IsFiniteSet(Units(fetched)) /\ IsFiniteSet(Units(connecting))
      /\ trying \in Nat /\ retries \in Nat /\ echoes \in Nat /\ fetches \in Nat
      /\ starved \in BOOLEAN
  BY Zenon DEF TypeOK, TryingInv
<1>2. /\ Units(fetched)' = Units(fetched') /\ Units(connecting)' = Units(connecting')
      /\ Total(fetched)' = Total(fetched') /\ Total(connecting)' = Total(connecting')
  BY DEF Units, Total
<1>3. UNCHANGED <<hostvars, seedvars, startvars, trying, fetches, echoes, retries, starved,
                  listening, nodevars>>
  BY DEF AttemptConnect
<1>4. fetched' \in [Addresses \cup {None} -> Nat] /\ IsFiniteSet(Units(fetched'))
      /\ Total(fetched') = Total(fetched) - 1
  <2>1. fetched' = [fetched EXCEPT ![a] = @ - 1] /\ fetched[a] > 0
    BY DEF AttemptConnect
  <2>2. fetched' \in [Addresses \cup {None} -> Nat]
    BY <1>1, <2>1
  <2>3. LET g == [fetched EXCEPT ![a] = @ - 1]
        IN  IsFiniteSet(Units(g)) /\ Total(g) = Total(fetched) - 1
    <3> DEFINE S == Addresses \cup {None}
    <3>1. a \in S /\ fetched \in [S -> Nat] /\ IsFiniteSet(Units(fetched)) /\ fetched[a] > 0
      BY <1>1, <2>1
    <3> HIDE DEF S
    <3>2. LET g == [fetched EXCEPT ![a] = @ - 1]
          IN  /\ g \in [S -> Nat] /\ IsFiniteSet(Units(g))
              /\ Total(g) = Total(fetched) - 1 /\ Total(fetched) \in Nat /\ Total(g) \in Nat
      BY <3>1, UnitRemoved, Zenon
    <3> QED BY <3>2, Zenon
  <2> QED BY <2>1, <2>2, <2>3, ZenonT(30)
<1>5. connecting' \in [Addresses -> Nat] /\ IsFiniteSet(Units(connecting'))
      /\ Total(connecting') = Total(connecting) + 1
  <2>1. connecting' = [connecting EXCEPT ![a] = @ + 1]
    BY DEF AttemptConnect
  <2>2. connecting' \in [Addresses -> Nat]
    BY <1>1, <2>1
  <2> QED BY <1>1, <2>1, <2>2, UnitAdded, ZenonT(30)
<1>6. Attempts' = Attempts /\ Attempts \in Nat
  <2>1. /\ Attempts = fetches + Total(fetched) + Total(connecting)
        /\ Attempts' = fetches + (Total(fetched) - 1) + (Total(connecting) + 1)
    BY <1>2, <1>3, <1>4, <1>5, Zenon DEF Attempts
  <2>2. Total(fetched) \in Nat /\ Total(connecting) \in Nat /\ fetches \in Nat
    BY <1>1, TotalsNat
  <2> QED BY <2>1, <2>2
<1>7. trying' > 0 \/ starved' \/ (trying = 0 /\ ~starved /\ Attempts' >= Attempts)
  BY <1>1, <1>3, <1>6
<1> QED BY <1>1, <1>2, <1>3, <1>4, <1>5, <1>6, <1>7, OutInv, Zenon DEF OutStep

-----------------------------------------------------------------------------
(* The channels.                                                           *)

\* A channel that was opened joins one of the lists.
LEMMA OpenedLists ==
  ASSUME TypeOK, ListExact, opened' = opened + 1, UNCHANGED closed,
         \/ /\ UNCHANGED accepted_channels
            /\ \E a \in Addresses :
                 connections' = Append(connections, [address |-> a, node |-> opened + 1])
         \/ /\ UNCHANGED connections
            /\ accepted_channels' = Append(accepted_channels, opened + 1)
  PROVE  /\ connections' \in Seq([address : Addresses, node : 1..opened'])
         /\ accepted_channels' \in Seq(1..opened')
         /\ ListExact'
<1> DEFINE C == [address : Addresses, node : 1..opened + 1]
           A == 1..opened + 1
<1>1. opened \in Nat /\ closed \subseteq 1..opened
  BY DEF TypeOK
<1>2. /\ connections \in Seq(C) /\ Len(connections) \in Nat
      /\ \A i \in 1..Len(connections) : connections[i].node \in 1..opened
  <2>1. connections \in Seq([address : Addresses, node : 1..opened])
    BY DEF TypeOK
  <2>2. [address : Addresses, node : 1..opened] \subseteq C
    BY <1>1
  <2>3. \A i \in 1..Len(connections) : connections[i] \in [address : Addresses, node : 1..opened]
    BY <2>1, ElementOfSeq, Zenon
  <2>4. Len(connections) \in Nat /\ connections \in [1..Len(connections) -> C]
    BY <2>1, <2>2, <2>3, LenProperties, Zenon
  <2>5. \A D : \A k \in Nat : \A f \in [1..k -> D] : f \in Seq(D)
    OBVIOUS
  <2>6. connections \in Seq(C)
    BY <2>4, <2>5, Zenon
  <2> QED BY <1>1, <2>3, <2>4, <2>6
<1>3. /\ accepted_channels \in Seq(A) /\ Len(accepted_channels) \in Nat
      /\ \A i \in 1..Len(accepted_channels) : accepted_channels[i] \in 1..opened
  <2>1. accepted_channels \in Seq(1..opened)
    BY DEF TypeOK
  <2>2. 1..opened \subseteq A
    BY <1>1
  <2>3. \A i \in 1..Len(accepted_channels) : accepted_channels[i] \in 1..opened
    BY <2>1, ElementOfSeq, Zenon
  <2>4. Len(accepted_channels) \in Nat /\ accepted_channels \in [1..Len(accepted_channels) -> A]
    BY <2>1, <2>2, <2>3, LenProperties, Zenon
  <2>5. accepted_channels \in Seq(A)
    BY <2>4 
  <2> QED BY <2>3, <2>4, <2>5, SMTT(30)
<1> HIDE DEF C, A
<1>4. PICK m : m = opened + 1
  OBVIOUS
<1>5. /\ m \in A /\ m \notin 1..opened /\ m \notin closed
      /\ 1..opened' = (1..opened) \cup {m}
  BY <1>1, <1>4 DEF A
<1>6. CASE /\ UNCHANGED accepted_channels
           /\ \E a \in Addresses :
                connections' = Append(connections, [address |-> a, node |-> opened + 1])
  <2>1. PICK a \in Addresses : connections' = Append(connections, [address |-> a, node |-> m])
    BY <1>4, <1>6
  <2> DEFINE r == [address |-> a, node |-> m]
  <2>2. r \in C /\ r.node = m
    BY <1>5 DEF A, C
  <2> HIDE DEF r
  <2>3. /\ connections' \in Seq(C) /\ Len(connections') = Len(connections) + 1
        /\ \A i \in 1..Len(connections) : connections'[i] = connections[i]
        /\ connections'[Len(connections')] = r
    BY <1>2, <2>1, <2>2, AppendProperties, SMTT(20) DEF r
  <2>4. /\ 1..Len(connections') = (1..Len(connections)) \cup {Len(connections')}
        /\ Len(connections') \notin 1..Len(connections)
    BY <1>2, <2>3, SMTT(30)
  <2>5. ASSUME NEW n PROVE Inbound(n)' = Inbound(n)
    BY <1>6, Zenon DEF Inbound
  <2>6. Inbound(m) = {}
    BY <1>3, <1>5, SMTT(30) DEF Inbound
  <2>7. Outbound(m)' = {Len(connections')}
    <3>1. ASSUME NEW i \in 1..Len(connections) PROVE connections'[i].node # m
      BY <1>2, <1>5, <2>3, <3>1, ZenonT(30)
    <3>2. Outbound(m)' = {i \in 1..Len(connections') : connections'[i].node = m}
      BY Zenon DEF Outbound
    <3>3. connections'[Len(connections')].node = m
      BY <2>2, <2>3, ZenonT(30)
    <3> HIDE <2>3
    <3> QED BY <2>4, <3>1, <3>2, <3>3, ZenonT(40)
  <2>8. ASSUME NEW n \in 1..opened PROVE Outbound(n)' = Outbound(n)
    <3>1. Outbound(n)' = {i \in 1..Len(connections') : connections'[i].node = n}
      BY ZenonT(30) DEF Outbound
    <3>2. connections'[Len(connections')].node # n
      BY <1>5, <2>2, <2>3, <2>8, ZenonT(30)
    <3>3. ASSUME NEW i \in 1..Len(connections) PROVE connections'[i].node = connections[i].node
      BY <2>3, <3>3, Zenon
    <3> QED BY <2>4, <3>1, <3>2, <3>3, Zenon DEF Outbound
  <2>9. ListExact'
    <3> SUFFICES ASSUME NEW n \in 1..opened'
                 PROVE  IF n \in closed'
                        THEN Outbound(n)' = {} /\ Inbound(n)' = {}
                        ELSE \/ Inbound(n)' = {} /\ \E i \in 1..Len(connections') : Outbound(n)' = {i}
                             \/ Outbound(n)' = {} /\ \E i \in 1..Len(accepted_channels') : Inbound(n)' = {i}
      BY Zenon DEF ListExact
    <3>1. CASE n = m
      <4>1. n \notin closed' /\ Inbound(n)' = {} /\ Outbound(n)' = {Len(connections')}
        BY <1>5, <2>5, <2>6, <2>7, <3>1, ZenonT(30)
      <4>2. Len(connections') \in 1..Len(connections')
        BY <2>4, Zenon
      <4> QED BY <4>1, <4>2, Zenon
    <3>2. CASE n # m
      <4>1. n \in 1..opened
        BY <1>5, <3>2, SMTT(30)
      <4>2. Outbound(n)' = Outbound(n) /\ Inbound(n)' = Inbound(n)
        BY <2>5, <2>8, <4>1, Zenon
      <4>3. CASE n \in closed
        BY <4>1, <4>2, <4>3, Zenon DEF ListExact
      <4>4. CASE n \notin closed
        <5>1. \/ Inbound(n) = {} /\ \E i \in 1..Len(connections) : Outbound(n) = {i}
              \/ Outbound(n) = {} /\ \E i \in 1..Len(accepted_channels) : Inbound(n) = {i}
          BY <4>1, <4>4, ZenonT(30) DEF ListExact
        <5> QED BY <1>6, <2>4, <4>2, <4>4, <5>1, ZenonT(40)
      <4> QED BY <4>3, <4>4, Zenon
    <3> QED BY <3>1, <3>2, Zenon
  <2> QED BY <1>3, <1>6, <2>3, <2>9, Zenon DEF C, A
<1>7. CASE /\ UNCHANGED connections
           /\ accepted_channels' = Append(accepted_channels, opened + 1)
  <2>3. /\ accepted_channels' \in Seq(A) /\ Len(accepted_channels') = Len(accepted_channels) + 1
        /\ \A i \in 1..Len(accepted_channels) : accepted_channels'[i] = accepted_channels[i]
        /\ accepted_channels'[Len(accepted_channels')] = m
    BY <1>3, <1>4, <1>5, <1>7, AppendProperties, SMTT(20)
  <2>4. /\ 1..Len(accepted_channels') = (1..Len(accepted_channels)) \cup {Len(accepted_channels')}
        /\ Len(accepted_channels') \notin 1..Len(accepted_channels)
    BY <1>3, <2>3
  <2>5. ASSUME NEW n PROVE Outbound(n)' = Outbound(n)
    BY <1>7, Zenon DEF Outbound
  <2>6. Outbound(m) = {}
    BY <1>2, <1>5 DEF Outbound
  <2>7. Inbound(m)' = {Len(accepted_channels')}
    <3>1. ASSUME NEW i \in 1..Len(accepted_channels) PROVE accepted_channels'[i] # m
      BY <1>3, <1>5, <2>3, <3>1, ZenonT(40)
    <3>2. Inbound(m)' = {i \in 1..Len(accepted_channels') : accepted_channels'[i] = m}
      BY Zenon DEF Inbound
    <3> QED BY <2>3, <2>4, <3>1, <3>2, Zenon
  <2>8. ASSUME NEW n \in 1..opened PROVE Inbound(n)' = Inbound(n)
    <3>1. Inbound(n)' = {i \in 1..Len(accepted_channels') : accepted_channels'[i] = n}
      BY Zenon DEF Inbound
    <3>2. accepted_channels'[Len(accepted_channels')] # n
      BY <1>5, <2>3, <2>8, ZenonT(30)
    <3> QED BY <2>3, <2>4, <3>1, <3>2, Zenon DEF Inbound
  <2>9. ListExact'
    <3> SUFFICES ASSUME NEW n \in 1..opened'
                 PROVE  IF n \in closed'
                        THEN Outbound(n)' = {} /\ Inbound(n)' = {}
                        ELSE \/ Inbound(n)' = {} /\ \E i \in 1..Len(connections') : Outbound(n)' = {i}
                             \/ Outbound(n)' = {} /\ \E i \in 1..Len(accepted_channels') : Inbound(n)' = {i}
      BY Zenon DEF ListExact
    <3>1. CASE n = m
      <4>1. n \notin closed' /\ Outbound(n)' = {} /\ Inbound(n)' = {Len(accepted_channels')}
        BY <1>5, <2>5, <2>6, <2>7, <3>1, ZenonT(30)
      <4>2. Len(accepted_channels') \in 1..Len(accepted_channels')
        BY <2>4, Zenon
      <4> QED BY <4>1, <4>2, Zenon
    <3>2. CASE n # m
      <4>1. n \in 1..opened
        BY <1>5, <3>2
      <4>2. Outbound(n)' = Outbound(n) /\ Inbound(n)' = Inbound(n)
        BY <2>5, <2>8, <4>1, Zenon
      <4>3. CASE n \in closed
        BY <4>1, <4>2, <4>3, Zenon DEF ListExact
      <4>4. CASE n \notin closed
        <5>1. \/ Inbound(n) = {} /\ \E i \in 1..Len(connections) : Outbound(n) = {i}
              \/ Outbound(n) = {} /\ \E i \in 1..Len(accepted_channels) : Inbound(n) = {i}
          BY <4>1, <4>4, Zenon DEF ListExact
        <5> QED BY <1>7, <2>4, <4>2, <4>4, <5>1, ZenonT(40)
      <4> QED BY <4>3, <4>4, Zenon
    <3> QED BY <3>1, <3>2, Zenon
  <2> QED BY <1>2, <1>7, <2>3, <2>9, ZenonT(40) DEF C, A
<1> QED BY <1>6, <1>7, Zenon

\* What a step that opens or closes a channel has to show.
ChannelsStep ==
  /\ UNCHANGED <<hostvars, seedvars, startvars, echoes, retries, starved, fetched, trying>>
  /\ connecting' \in [Addresses -> Nat] /\ fetches' \in Nat /\ opened' \in Nat
  /\ listening' \in {"none", "listen", "accept"}
  /\ closed' \cup addressed' \subseteq 1..opened'
  /\ connections' \in Seq([address : Addresses, node : 1..opened'])
  /\ accepted_channels' \in Seq(1..opened')
  /\ ListExact'
  /\ IsFiniteSet(Units(connecting)')
  /\ \/ Len(connections') + Attempts' >= Len(connections) + Attempts
     \/ Len(connections') + Attempts' >= MaxOutbound
  /\ Len(connections') + Attempts' \in Nat

\* It keeps the invariant.
LEMMA ChannelsFrame ==
  ASSUME ProtocolInv, ChannelsStep PROVE ProtocolInv'
<1> USE DEF ProtocolInv, ChannelsStep
<1>1. TypeOK'
  BY ZenonT(30) DEF TypeOK, hostvars, seedvars, startvars
<1>2. BootInv' /\ PathsInv'
  <2>1. UNCHANGED <<seedvars, startvars>>
    BY Zenon
  <2> QED BY <2>1, StartKept, Zenon
<1>3. fetches \in Nat /\ Attempts \in Nat
  <2>1. fetches \in Nat
    BY Zenon DEF TypeOK
  <2>2. Total(fetched) \in Nat /\ Total(connecting) \in Nat
    BY TotalsNat, Zenon
  <2> HIDE DEF ProtocolInv, ChannelsStep
  <2> QED BY <2>1, <2>2 DEF Attempts
<1>4. Units(fetched)' = Units(fetched) /\ count_paths' = count_paths
  BY Zenon DEF Units, startvars
<1>5. count_paths' = 2 => \/ trying' > 0
                          \/ starved'
                          \/ Len(connections') + Attempts' >= MaxOutbound
  <2>1. count_paths = 2 => \/ trying > 0 \/ starved \/ Len(connections) + Attempts >= MaxOutbound
    BY Zenon DEF TryingInv
  <2>2. Len(connections) \in Nat
    BY ConnectionsCount, Zenon
  <2>3. /\ \/ Len(connections') + Attempts' >= Len(connections) + Attempts
           \/ Len(connections') + Attempts' >= MaxOutbound
        /\ Len(connections') + Attempts' \in Nat
        /\ UNCHANGED <<trying, starved>>
    BY Zenon
  <2> HIDE DEF ProtocolInv, ChannelsStep
  <2> QED BY <1>3, <1>4, <2>1, <2>2, <2>3, ProtocolAssumption, SMTT(20)
<1>6. IsFiniteSet(Units(fetched)')
  BY <1>4 DEF TryingInv
<1>7. TryingInv'
  BY <1>5, <1>6, Zenon DEF TryingInv
<1> QED BY <1>1, <1>2, <1>7

\* A connection that was made.
LEMMA HandleConnectInv ==
  ASSUME ProtocolInv, NEW a \in Addresses, HandleConnect(a) PROVE ProtocolInv'
<1> USE DEF ProtocolInv
<1>1. /\ connecting \in [Addresses -> Nat] /\ IsFiniteSet(Units(connecting))
      /\ connecting[a] > 0 /\ connecting' = [connecting EXCEPT ![a] = @ - 1]
      /\ fetches \in Nat /\ fetches' = fetches /\ fetched' = fetched /\ opened \in Nat
      /\ opened' = opened + 1 /\ UNCHANGED <<closed, accepted_channels, listening, trying>>
      /\ connections' = Append(connections, [address |-> a, node |-> opened + 1])
      /\ UNCHANGED <<hostvars, seedvars, startvars, echoes, retries, starved>>
  BY Zenon DEF HandleConnect, TypeOK, TryingInv
<1>2. connecting' \in [Addresses -> Nat] /\ IsFiniteSet(Units(connecting'))
      /\ Total(connecting') = Total(connecting) - 1
  <2>1. LET g == [connecting EXCEPT ![a] = @ - 1]
        IN  /\ g \in [Addresses -> Nat] /\ IsFiniteSet(Units(g))
            /\ Total(g) = Total(connecting) - 1 /\ Total(connecting) \in Nat /\ Total(g) \in Nat
    BY <1>1, UnitRemoved, Zenon
  <2> QED BY <1>1, <2>1, Zenon
<1>3. Units(connecting)' = Units(connecting') /\ Total(connecting)' = Total(connecting')
      /\ Total(fetched)' = Total(fetched)
  BY <1>1, Zenon DEF Units, Total
<1>4. Len(connections') = Len(connections) + 1 /\ Len(connections) \in Nat
  <2>1. Len(connections) \in Nat /\ connections \in Seq([address : Addresses, node : 1..opened])
    BY ConnectionsCount DEF TypeOK
  <2> QED BY <1>1, <2>1
<1>5. Attempts' = Attempts - 1 /\ Attempts \in Nat
  <2>1. Total(fetched) \in Nat /\ Total(connecting) \in Nat
    BY TotalsNat
  <2>2. /\ Attempts = fetches + Total(fetched) + Total(connecting)
        /\ Attempts' = fetches' + Total(fetched)' + Total(connecting)'
    BY Zenon DEF Attempts
  <2>3. /\ fetches \in Nat /\ fetches' = fetches /\ Total(fetched)' = Total(fetched)
        /\ Total(connecting)' = Total(connecting) - 1
    BY <1>1, <1>2, <1>3, Zenon
  <2> QED BY <2>1, <2>2, <2>3
<1>6. Len(connections') + Attempts' >= Len(connections) + Attempts
      /\ Len(connections') + Attempts' \in Nat
  BY <1>4, <1>5
<1>7. /\ connections' \in Seq([address : Addresses, node : 1..opened'])
      /\ accepted_channels' \in Seq(1..opened') /\ ListExact'
  BY <1>1, OpenedLists, Zenon
<1>8. closed' \cup addressed' \subseteq 1..opened' /\ opened' \in Nat
      /\ listening' \in {"none", "listen", "accept"}
  <2>1. closed \cup addressed \subseteq 1..opened /\ listening \in {"none", "listen", "accept"}
    BY Zenon DEF TypeOK
  <2>2. addressed' = addressed
    BY DEF HandleConnect
  <2>3. 1..opened \subseteq 1..opened' /\ opened' \in Nat
    BY <1>1
  <2> QED BY <1>1, <2>1, <2>2, <2>3, Zenon
<1>9. UNCHANGED <<hostvars, seedvars, startvars, echoes, retries, starved, fetched, trying>> /\ fetches' \in Nat
  BY <1>1, Zenon
<1> QED BY <1>2, <1>3, <1>6, <1>7, <1>8, <1>9, ChannelsFrame, ZenonT(40) DEF ChannelsStep

\* A channel that was accepted.
LEMMA HandleAcceptInv ==
  ASSUME ProtocolInv, NEW ok \in BOOLEAN, HandleAccept(ok) PROVE ProtocolInv'
<1> USE DEF ProtocolInv
<1>1. /\ UNCHANGED <<hostvars, seedvars, startvars, trying, fetches, fetched, connecting, echoes,
                     retries, starved, closed, addressed, connections>>
      /\ opened \in Nat /\ fetches \in Nat /\ connecting \in [Addresses -> Nat]
      /\ listening' = "none"
      /\ IsFiniteSet(Units(connecting)) /\ closed \cup addressed \subseteq 1..opened
  BY ZenonT(30) DEF HandleAccept, TypeOK, TryingInv, outvars
<1>2. Units(connecting)' = Units(connecting) /\ Total(connecting)' = Total(connecting)
      /\ Total(fetched)' = Total(fetched)
  BY <1>1, Zenon DEF Units, Total
<1>3. Attempts' = Attempts /\ Attempts \in Nat /\ Len(connections) \in Nat
  <2>1. Len(connections) \in Nat /\ Attempts' = Attempts
    BY <1>1, <1>2, ConnectionsCount, Zenon DEF Attempts
  <2>2. Total(fetched) \in Nat /\ Total(connecting) \in Nat /\ fetches \in Nat
    BY <1>1, TotalsNat, Zenon DEF TypeOK
  <2>3. Attempts \in Nat
    <3> HIDE DEF ProtocolInv
    <3> QED BY <2>2 DEF Attempts
  <2> QED BY <2>1, <2>3, Zenon
<1>4. Len(connections') + Attempts' >= Len(connections) + Attempts
      /\ Len(connections') + Attempts' \in Nat
  BY <1>1, <1>3
<1>5. CASE ok
  <2>1. opened' = opened + 1 /\ accepted_channels' = Append(accepted_channels, opened + 1)
    BY <1>5 DEF HandleAccept
  <2>2. /\ connections' \in Seq([address : Addresses, node : 1..opened'])
        /\ accepted_channels' \in Seq(1..opened') /\ ListExact'
    BY <1>1, <2>1, OpenedLists, Zenon
  <2>3. closed' \cup addressed' \subseteq 1..opened' /\ opened' \in Nat
        /\ listening' \in {"none", "listen", "accept"}
    BY <1>1, <2>1
  <2> QED BY <1>1, <1>2, <1>4, <2>2, <2>3, ChannelsFrame, Zenon DEF ChannelsStep
<1>6. CASE ~ok
  <2>1. UNCHANGED <<opened, accepted_channels>>
    BY <1>6 DEF HandleAccept
  <2>2. /\ connections' \in Seq([address : Addresses, node : 1..opened'])
        /\ accepted_channels' \in Seq(1..opened')
    BY <1>1, <2>1, Zenon DEF TypeOK
  <2>3. ListExact'
    BY <1>1, <2>1, ListsKept, Zenon
  <2> QED BY <1>1, <1>2, <1>4, <2>1, <2>2, <2>3, ChannelsFrame, ZenonT(40) DEF ChannelsStep
<1> QED BY <1>5, <1>6

\* g is f, of the given length, without its element i; the places of a value.
Erased(f, g, i, len) == \A j \in 1..len - 1 : g[j] = IF j < i THEN f[j] ELSE f[j + 1]
Places(f, len, m) == {j \in 1..len : f[j] = m}
Moved(F, G, i, len) ==
  /\ F = {i} => G = {}
  /\ F = {} => G = {}
  /\ \A k \in 1..len : k # i /\ F = {k} => \E l \in 1..len - 1 : G = {l}

\* Where a value is in a list of which an element was erased: nowhere if it was
\* the one erased, and otherwise in as many places as before.
LEMMA PlacesErased ==
  ASSUME NEW len \in Nat, NEW i \in 1..len, NEW f, NEW g, Erased(f, g, i, len), NEW m
  PROVE  Moved(Places(f, len, m), Places(g, len - 1, m), i, len)
<1> DEFINE F == Places(f, len, m)
           G == Places(g, len - 1, m)
<1>1. ASSUME NEW j \in 1..len - 1
      PROVE  /\ j < i => (j \in G <=> j \in F)
             /\ ~(j < i) => (j \in G <=> j + 1 \in F)
  BY DEF Erased, Places
<1>2. G \subseteq 1..len - 1 /\ F \subseteq 1..len
  BY DEF Places
<1> HIDE DEF F, G
<1>3. F = {i} => G = {}
  BY <1>1, <1>2
<1>4. F = {} => G = {}
  BY <1>1, <1>2
<1>5. ASSUME NEW k \in 1..len, k # i, F = {k} PROVE \E l \in 1..len - 1 : G = {l}
  <2>1. CASE k < i
    <3>1. k \in 1..len - 1 /\ k \in G
      BY <1>1, <1>5, <2>1
    <3>2. ASSUME NEW j \in G PROVE j = k
      <4>1. j \in 1..len - 1
        BY <1>2
      <4> QED BY <1>1, <1>5, <2>1, <4>1
    <3> QED BY <3>1, <3>2, Zenon
  <2>2. CASE ~(k < i)
    <3>0. PICK l \in 1..len - 1 : k = l + 1 /\ ~(l < i)
      <4>1. k - 1 \in 1..len - 1 /\ k = (k - 1) + 1 /\ ~(k - 1 < i)
        BY <1>5, <2>2
      <4> QED BY <4>1
    <3>1. l \in G
      BY <1>1, <1>5, <3>0
    <3>2. ASSUME NEW j \in G PROVE j = l
      <4>1. j \in 1..len - 1
        BY <1>2
      <4>2. CASE j < i
        BY <1>1, <1>5, <3>0, <4>1, <4>2, SMTT(20)
      <4>3. CASE ~(j < i)
        BY <1>1, <1>5, <3>0, <4>1, <4>3
      <4> QED BY <4>2, <4>3
    <3> QED BY <3>1, <3>2, Zenon
  <2> QED BY <2>1, <2>2
<1> QED BY <1>3, <1>4, <1>5, Zenon DEF F, G, Moved

\* The channels of a list without the one that stopped.
LEMMA StoppedOutbound ==
  ASSUME TypeOK, ListExact, NEW n \in 1..opened, NEW i \in 1..Len(connections), Outbound(n) = {i},
         connections' = EraseFirst(connections, Outbound(n)), UNCHANGED opened
  PROVE  /\ connections' \in Seq([address : Addresses, node : 1..opened'])
         /\ Len(connections') = Len(connections) - 1 /\ Len(connections) \in Nat
         /\ Outbound(n)' = {}
         /\ \A m : m # n /\ Outbound(m) = {} => Outbound(m)' = {}
         /\ \A m : \A k \in 1..Len(connections) :
              m # n /\ Outbound(m) = {k} => \E l \in 1..Len(connections') : Outbound(m)' = {l}
<1> DEFINE R == [address : Addresses, node : 1..opened]
<1>1. connections \in Seq(R)
  BY DEF TypeOK
<1> HIDE DEF R
<1>2. /\ connections' \in Seq(R) /\ Len(connections') = Len(connections) - 1
      /\ \A j \in 1..Len(connections) - 1 :
           connections'[j] = IF j < i THEN connections[j] ELSE connections[j + 1]
  BY <1>1, EraseOnly, Zenon
<1>3. Len(connections) \in Nat
  BY <1>1, LenProperties, Zenon
<1> DEFINE f == [j \in 1..Len(connections) |-> connections[j].node]
           g == [j \in 1..Len(connections') |-> connections'[j].node]
<1>4. ASSUME NEW j \in 1..Len(connections) - 1 PROVE g[j] = IF j < i THEN f[j] ELSE f[j + 1]
  <2>1. j \in 1..Len(connections) /\ j + 1 \in 1..Len(connections) /\ j \in 1..Len(connections')
    BY <1>2, <1>3
  <2>2. g[j] = connections'[j].node /\ f[j] = connections[j].node
        /\ f[j + 1] = connections[j + 1].node
    BY <2>1
  <2>3. connections'[j] = IF j < i THEN connections[j] ELSE connections[j + 1]
    BY <1>2, Zenon
  <2> QED BY <2>2, <2>3
<1>5. ASSUME NEW m PROVE /\ Outbound(m) = {j \in 1..Len(connections) : f[j] = m}
                         /\ Outbound(m)' = {j \in 1..Len(connections) - 1 : g[j] = m}
  BY <1>2, Zenon DEF Outbound
<1>6. i \in Outbound(n)
  OBVIOUS
<1>7. ASSUME NEW m, m # n PROVE Outbound(m) # {i}
  BY <1>6, <1>7 DEF Outbound
<1> HIDE DEF f, g
<1>8. ASSUME NEW m
      PROVE  /\ Outbound(m) = {i} => Outbound(m)' = {}
             /\ Outbound(m) = {} => Outbound(m)' = {}
             /\ \A k \in 1..Len(connections) :
                  k # i /\ Outbound(m) = {k} => \E l \in 1..Len(connections) - 1 : Outbound(m)' = {l}
  <2> DEFINE len == Len(connections)
             F == Places(f, len, m)
             G == Places(g, len - 1, m)
  <2>1. len \in Nat /\ i \in 1..len
    BY <1>3, Zenon
  <2>2. Erased(f, g, i, len)
    BY <1>4, Zenon DEF Erased
  <2> HIDE DEF len
  <2>3. Moved(F, G, i, len)
    BY <2>1, <2>2, PlacesErased, Zenon
  <2>4. Outbound(m) = F /\ Outbound(m)' = G
    BY <1>5, Zenon DEF len, Places
  <2> HIDE DEF F, G
  <2> QED BY <2>3, <2>4, Zenon DEF len, Moved
<1>9. opened' = opened /\ connections' \in Seq([address : Addresses, node : 1..opened'])
  BY <1>2 DEF R
<1> QED BY <1>2, <1>3, <1>7, <1>8, <1>9, ZenonT(30)

\* An accepted channel that stops leaves accepted_channels, and no other does.
LEMMA StoppedInbound ==
  ASSUME TypeOK, ListExact, NEW n \in 1..opened, NEW i \in 1..Len(accepted_channels),
         Inbound(n) = {i},
         accepted_channels' = EraseFirst(accepted_channels, Inbound(n)), UNCHANGED opened
  PROVE  /\ accepted_channels' \in Seq(1..opened')
         /\ Inbound(n)' = {}
         /\ \A m : m # n /\ Inbound(m) = {} => Inbound(m)' = {}
         /\ \A m : \A k \in 1..Len(accepted_channels) :
              m # n /\ Inbound(m) = {k} => \E l \in 1..Len(accepted_channels') : Inbound(m)' = {l}
<1> DEFINE R == 1..opened
<1>1. accepted_channels \in Seq(R)
  BY DEF TypeOK
<1> HIDE DEF R
<1>2. /\ accepted_channels' \in Seq(R) /\ Len(accepted_channels') = Len(accepted_channels) - 1
      /\ \A j \in 1..Len(accepted_channels) - 1 :
           accepted_channels'[j] =
             IF j < i THEN accepted_channels[j] ELSE accepted_channels[j + 1]
  BY <1>1, EraseOnly, Zenon
<1>3. Len(accepted_channels) \in Nat
  BY <1>1, LenProperties, Zenon
<1>5. ASSUME NEW m PROVE /\ Inbound(m) = {j \in 1..Len(accepted_channels) : accepted_channels[j] = m}
                         /\ Inbound(m)' = {j \in 1..Len(accepted_channels) - 1 : accepted_channels'[j] = m}
  BY <1>2, Zenon DEF Inbound
<1>6. i \in Inbound(n)
  OBVIOUS
<1>7. ASSUME NEW m, m # n PROVE Inbound(m) # {i}
  BY <1>6, <1>7, Zenon DEF Inbound
<1>8. ASSUME NEW m
      PROVE  /\ Inbound(m) = {i} => Inbound(m)' = {}
             /\ Inbound(m) = {} => Inbound(m)' = {}
             /\ \A k \in 1..Len(accepted_channels) :
                  k # i /\ Inbound(m) = {k} => \E l \in 1..Len(accepted_channels) - 1 : Inbound(m)' = {l}
  <2> DEFINE len == Len(accepted_channels)
             F == Places(accepted_channels, len, m)
             G == Places(accepted_channels', len - 1, m)
  <2>1. len \in Nat /\ i \in 1..len
    BY <1>3, Zenon
  <2>2. Erased(accepted_channels, accepted_channels', i, len)
    BY <1>2, Zenon DEF Erased
  <2> HIDE DEF len
  <2>3. Moved(F, G, i, len)
    BY <2>1, <2>2, PlacesErased, Zenon
  <2>4. Inbound(m) = F /\ Inbound(m)' = G
    BY <1>5, Zenon DEF len, Places
  <2> HIDE DEF F, G
  <2> QED BY <2>3, <2>4, Zenon DEF len, Moved
<1>9. opened' = opened /\ accepted_channels' \in Seq(1..opened')
  BY <1>2 DEF R
<1> QED BY <1>2, <1>3, <1>7, <1>8, <1>9, ZenonT(40)

\* The handler of a channel's end, whichever side opened it, keeps the invariant.
LEMMA ChannelStoppedInv ==
  ASSUME ProtocolInv, NEW n \in 1..opened, ChannelStopped(n) PROVE ProtocolInv'
<1> USE DEF ProtocolInv
<1>1. /\ UNCHANGED <<hostvars, seedvars, startvars, trying, fetched, connecting, echoes, retries,
                     starved, listening, opened, addressed>>
      /\ n \notin closed /\ closed' = closed \cup {n}
      /\ connections' = EraseFirst(connections, Outbound(n))
      /\ accepted_channels' = EraseFirst(accepted_channels, Inbound(n))
      /\ fetches' = fetches + (IF Outbound(n) = {} THEN 0 ELSE Missing(Len(connections) - 1))
  BY DEF ChannelStopped, outvars
<1>2. /\ opened' \in Nat /\ closed' \cup addressed' \subseteq 1..opened'
      /\ listening' \in {"none", "listen", "accept"}
      /\ fetches \in Nat /\ connecting' \in [Addresses -> Nat]
  <2>1. /\ opened \in Nat /\ closed \cup addressed \subseteq 1..opened
        /\ listening \in {"none", "listen", "accept"}
        /\ fetches \in Nat /\ connecting \in [Addresses -> Nat]
    BY Zenon DEF TypeOK
  <2> QED BY <1>1, <2>1, Zenon
<1>3. /\ Units(connecting)' = Units(connecting)
      /\ Total(connecting)' = Total(connecting) /\ Total(fetched)' = Total(fetched)
      /\ IsFiniteSet(Units(connecting))
  BY <1>1, Zenon DEF Units, Total, TryingInv
<1>4. /\ Total(connecting) \in Nat /\ Total(fetched) \in Nat /\ Len(connections) \in Nat
      /\ Attempts = fetches + Total(fetched) + Total(connecting)
      /\ Attempts' = fetches' + Total(fetched)' + Total(connecting)'
  BY TotalsNat, ConnectionsCount, Zenon DEF Attempts
<1>5. EraseFirst(connections, {}) = connections
      /\ EraseFirst(accepted_channels, {}) = accepted_channels
  BY DEF EraseFirst
<1>6. ASSUME NEW m
      PROVE  /\ UNCHANGED connections => Outbound(m)' = Outbound(m)
             /\ UNCHANGED accepted_channels => Inbound(m)' = Inbound(m)
  BY Zenon DEF Outbound, Inbound
<1>7. \/ Inbound(n) = {} /\ \E i \in 1..Len(connections) : Outbound(n) = {i}
      \/ Outbound(n) = {} /\ \E i \in 1..Len(accepted_channels) : Inbound(n) = {i}
  BY <1>1, Zenon DEF ListExact
<1>8. SUFFICES /\ connections' \in Seq([address : Addresses, node : 1..opened'])
               /\ accepted_channels' \in Seq(1..opened')
               /\ Outbound(n)' = {} /\ Inbound(n)' = {}
               /\ \A m : m # n /\ Outbound(m) = {} => Outbound(m)' = {}
               /\ \A m : m # n /\ Inbound(m) = {} => Inbound(m)' = {}
               /\ \A m : \A k \in 1..Len(connections) : m # n /\ Outbound(m) = {k}
                    => \E l \in 1..Len(connections') : Outbound(m)' = {l}
               /\ \A m : \A k \in 1..Len(accepted_channels) : m # n /\ Inbound(m) = {k}
                    => \E l \in 1..Len(accepted_channels') : Inbound(m)' = {l}
               /\ fetches' \in Nat /\ Len(connections') + Attempts' \in Nat
               /\ \/ Len(connections') + Attempts' >= Len(connections) + Attempts
                  \/ Len(connections') + Attempts' >= MaxOutbound
  <2>1. ASSUME NEW m \in 1..opened'
        PROVE  IF m \in closed'
               THEN Outbound(m)' = {} /\ Inbound(m)' = {}
               ELSE \/ Inbound(m)' = {} /\ \E i \in 1..Len(connections') : Outbound(m)' = {i}
                    \/ Outbound(m)' = {} /\ \E i \in 1..Len(accepted_channels') : Inbound(m)' = {i}
    <3>1. CASE m = n
      BY <1>1, <1>8, <3>1, Zenon
    <3>2. CASE m # n
      <4>1. m \in 1..opened /\ (m \in closed' <=> m \in closed)
        BY <1>1, <3>2, Zenon
      <4>2. CASE m \in closed
        BY <1>8, <3>2, <4>1, <4>2, ZenonT(40) DEF ListExact
      <4>3. CASE m \notin closed
        <5>1. \/ Inbound(m) = {} /\ \E i \in 1..Len(connections) : Outbound(m) = {i}
              \/ Outbound(m) = {} /\ \E i \in 1..Len(accepted_channels) : Inbound(m) = {i}
          BY <4>1, <4>3, Zenon DEF ListExact
        <5> QED BY <1>8, <3>2, <4>1, <4>3, <5>1, ZenonT(40)
      <4> QED BY <4>2, <4>3, Zenon
    <3> QED BY <3>1, <3>2, Zenon
  <2>2. ListExact'
    BY <2>1, Zenon DEF ListExact
  <2>3. UNCHANGED <<hostvars, seedvars, startvars, echoes, retries, starved, fetched, trying>>
    BY <1>1, Zenon
  <2> QED BY <1>2, <1>3, <1>8, <2>2, <2>3, ChannelsFrame, ZenonT(40) DEF ChannelsStep
<1>9. CASE Inbound(n) = {} /\ \E i \in 1..Len(connections) : Outbound(n) = {i}
  <2>1. PICK i \in 1..Len(connections) : Outbound(n) = {i}
    BY <1>9
  <2>2. UNCHANGED accepted_channels
    BY <1>1, <1>5, <1>9, Zenon
  <2>3. accepted_channels' \in Seq(1..opened')
    BY <1>1, <2>2, Zenon DEF TypeOK
  <2>4. /\ connections' \in Seq([address : Addresses, node : 1..opened'])
        /\ Len(connections') = Len(connections) - 1
        /\ Outbound(n)' = {}
        /\ \A m : m # n /\ Outbound(m) = {} => Outbound(m)' = {}
        /\ \A m : \A k \in 1..Len(connections) :
             m # n /\ Outbound(m) = {k} => \E l \in 1..Len(connections') : Outbound(m)' = {l}
    BY <1>1, <2>1, StoppedOutbound, Zenon
  <2>5. /\ Missing(Len(connections) - 1) \in Nat
        /\ (Len(connections) - 1) + Missing(Len(connections) - 1) >= MaxOutbound
        /\ fetches' = fetches + Missing(Len(connections) - 1) /\ Len(connections) - 1 \in Nat
    <3>1. fetches' = fetches + Missing(Len(connections) - 1) /\ Len(connections) \in Nat
      BY <1>1, <1>4, <2>1, Zenon
    <3> QED BY <2>1, <3>1, ProtocolAssumption DEF Missing
  <2>6. fetches' \in Nat /\ Len(connections') + Attempts' >= MaxOutbound
        /\ Len(connections') + Attempts' \in Nat
    <3>1. PICK k : k = Missing(Len(connections) - 1)
      OBVIOUS
    <3>2. /\ Len(connections') = Len(connections) - 1
          /\ Attempts' = fetches' + Total(fetched) + Total(connecting)
          /\ fetches' = fetches + k /\ k \in Nat /\ (Len(connections) - 1) + k >= MaxOutbound
      BY <1>3, <1>4, <2>4, <2>5, <3>1, ZenonT(40)
    <3>3. Len(connections) - 1 \in Nat /\ MaxOutbound \in Nat /\ fetches \in Nat
          /\ Total(fetched) \in Nat /\ Total(connecting) \in Nat
      BY <1>2, <1>4, <2>5, ProtocolAssumption, ZenonT(40)
    <3>4. \A l, f, q, t, u, max \in Nat :
            l + q >= max => /\ f + q \in Nat /\ l + (f + q + t + u) >= max
                            /\ l + (f + q + t + u) \in Nat
      OBVIOUS
    <3>5. fetches + k \in Nat
          /\ (Len(connections) - 1) + (fetches + k + Total(fetched) + Total(connecting)) >= MaxOutbound
          /\ (Len(connections) - 1) + (fetches + k + Total(fetched) + Total(connecting)) \in Nat
      BY <3>2, <3>3, <3>4, ZenonT(40)
    <3> QED BY <3>2, <3>5, Zenon
  <2> QED BY <1>6, <1>9, <2>2, <2>3, <2>4, <2>6, Zenon
<1>10. CASE Outbound(n) = {} /\ \E i \in 1..Len(accepted_channels) : Inbound(n) = {i}
  <2>1. PICK i \in 1..Len(accepted_channels) : Inbound(n) = {i}
    BY <1>10
  <2>2. UNCHANGED connections
    BY <1>1, <1>5, <1>10, Zenon
  <2>3. connections' \in Seq([address : Addresses, node : 1..opened'])
    BY <1>1, <2>2, ZenonT(40) DEF TypeOK
  <2>4. /\ accepted_channels' \in Seq(1..opened')
        /\ Inbound(n)' = {}
        /\ \A m : m # n /\ Inbound(m) = {} => Inbound(m)' = {}
        /\ \A m : \A k \in 1..Len(accepted_channels) :
             m # n /\ Inbound(m) = {k} => \E l \in 1..Len(accepted_channels') : Inbound(m)' = {l}
    BY <1>1, <2>1, StoppedInbound, ZenonT(40)
  <2>5. fetches' = fetches + 0
    BY <1>1, <1>10, Zenon
  <2>6. fetches' \in Nat /\ Len(connections') + Attempts' >= Len(connections) + Attempts
        /\ Len(connections') + Attempts' \in Nat
    <3>1. /\ Total(fetched) \in Nat /\ Total(connecting) \in Nat /\ fetches \in Nat
          /\ Len(connections) \in Nat
      BY <1>2, <1>4, Zenon
    <3>2. /\ Attempts = fetches + Total(fetched) + Total(connecting)
          /\ Attempts' = fetches' + Total(fetched) + Total(connecting)
      BY <1>3, <1>4, Zenon
    <3> QED BY <2>2, <2>5, <3>1, <3>2
  <2> QED BY <1>6, <1>10, <2>2, <2>3, <2>4, <2>6, ZenonT(30)
<1> QED BY <1>7, <1>9, <1>10, Zenon

-----------------------------------------------------------------------------
(* The results.                                                            *)

\* A protocol that was not started satisfies the invariant.
LEMMA ProtocolInit == ASSUME Init PROVE ProtocolInv
<1> USE DEF Init
<1>1. TypeOK
  <2>1. /\ seed \in [Seeds -> [connect : 0..3, send : BOOLEAN, address : BOOLEAN]]
        /\ Cardinality(Seeds) \in Nat
    BY ProtocolAssumption, FS_CardinalityType
  <2>2. file \in Seq(Addresses)
    BY ProtocolAssumption
  <2>3. <<>> \in Seq([address : Addresses, node : 1..opened]) /\ \A S : <<>> \in Seq(S)
    OBVIOUS
  <2>4. /\ pushes \in [Addresses -> Nat] /\ connecting \in [Addresses -> Nat]
        /\ fetched \in [Addresses \cup {None} -> Nat]
    OBVIOUS
  <2>5. Len(buffer) <= Capacity /\ ended_paths \in 0..Cardinality(Seeds)
    BY <2>1, ProtocolAssumption
  <2>6. /\ buffer \in Seq(Addresses)
        /\ booted \in Seq({"ok", "error"}) /\ told \in Seq({"ok", "error"})
        /\ connections \in Seq([address : Addresses, node : 1..opened])
        /\ accepted_channels \in Seq(1..opened)
    BY <2>3, Zenon
  <2>7. /\ {trying, fetches, echoes} \subseteq Nat /\ retries \in Nat /\ count_paths \in 0..2
        /\ boot \in {"load", "count", "seeds", "done"} /\ shake \in {"pending", "ok", "error"}
        /\ listening \in {"none", "listen", "accept"}
        /\ opened \in Nat /\ closed \cup addressed \subseteq 1..opened
    OBVIOUS
  <2>8. {finished, starved} \subseteq BOOLEAN
    BY Zenon
  <2> QED BY <2>1, <2>2, <2>4, <2>5, <2>6, <2>7, <2>8, ZenonT(30) DEF TypeOK
<1>2. BootInv /\ PathsInv
  BY DEF BootInv, PathsInv, Quiet, BootOk, ShakeOk
<1>3. TryingInv
  BY NoUnits DEF TryingInv
<1>4. ListExact
  BY DEF ListExact
<1> QED BY <1>1, <1>2, <1>3, <1>4, ZenonT(40) DEF ProtocolInv

\* Every step keeps it.
LEMMA ProtocolStep == ASSUME ProtocolInv, [Next]_vars PROVE ProtocolInv'
<1>1. CASE Starting
  BY <1>1, DoLoadInv, IfZeroSeedInv, HandshakeStartedInv, SeedStep, ZenonT(40) DEF Starting
<1>2. CASE Running
  BY <1>2, TryConnectInv, DoFetchAddressInv, AttemptEndsInv, HostsInv, AttemptConnectInv, ZenonT(30),
     HandleConnectInv, HandleAcceptInv, ChannelStoppedInv DEF Running
<1>3. CASE UNCHANGED vars
  <2>1. UNCHANGED <<file, buffer, pushes, fetches, boot, booted, seed, ended_paths, finished, shake,
                    count_paths, told, trying, fetched, connecting, echoes, retries, starved,
                    listening, opened, closed, addressed, connections, accepted_channels>>
    BY <1>3 DEF vars, hostvars, seedvars, startvars, outvars, nodevars
  <2>2. TypeOK'
    BY <2>1, ZenonT(30) DEF ProtocolInv, TypeOK
  <2>3. BootInv' /\ PathsInv' /\ ListExact'
    BY <2>1, StartKept, ListsKept, Zenon DEF ProtocolInv, seedvars, startvars
  <2>4. UNCHANGED <<Units(fetched), Units(connecting), Attempts>>
    BY <2>1, Zenon DEF Units, Total, Attempts
  <2>5. TryingInv'
    BY <2>1, <2>4, Zenon DEF ProtocolInv, TryingInv
  <2> QED BY <2>2, <2>3, <2>5 DEF ProtocolInv
<1> QED BY <1>1, <1>2, <1>3 DEF Next

\* Every reachable state of protocol satisfies the inductive invariant.
THEOREM ProtocolInvariance == Spec => []ProtocolInv
BY ProtocolInit, ProtocolStep, PTL DEF Spec

\* The two lists hold exactly the open channels, each once, and the buffer of
\* hosts and the counters of start-up stay within their bounds, whatever the
\* number of channels, seeds and addresses.
THEOREM ProtocolAlwaysConsistent == Spec => []ProtocolConsistent
<1>1. ProtocolInv => ProtocolConsistent
  BY DEF ProtocolInv, ProtocolConsistent
<1> QED BY <1>1, ProtocolInvariance, PTL

\* A success of start() has been told.
LEMMA ToldOk ==
  ASSUME ProtocolInv, "ok" \in Range(told)
  PROVE  told = <<"ok">> /\ booted = <<"ok">> /\ shake = "ok" /\ count_paths = 2
<1>1. told \in Seq({"ok", "error"}) /\ DOMAIN told = 1..Len(told)
  BY DEF ProtocolInv, TypeOK
<1>2. \E i \in 1..Len(told) : told[i] = "ok"
  BY <1>1, Zenon DEF Range
<1>3. count_paths = 2
  BY <1>2, Zenon DEF ProtocolInv, PathsInv
<1> QED BY <1>3 DEF ProtocolInv, PathsInv, BootOk, ShakeOk

\* start() hears of success at most once, of nothing else when it does, and
\* only when both of its paths succeeded; the seeds end the bootstrap once.
THEOREM ProtocolStartTold == Spec => []StartTold
<1>1. ProtocolInv => Len(booted) <= 1
  <2>1. Len(<<>>) <= 1 /\ Len(<<"ok">>) <= 1 /\ Len(<<"error">>) <= 1
    OBVIOUS
  <2>2. ProtocolInv => booted \in {<<>>, <<"ok">>, <<"error">>}
    BY DEF ProtocolInv, BootInv
  <2> QED BY <2>1, <2>2, Zenon
<1>2. ProtocolInv => StartTold
  BY <1>1, ToldOk DEF StartTold
<1> QED BY <1>2, ProtocolInvariance, PTL

\* A running protocol never stops short of max_outbound_ unless hosts was
\* found empty.
THEOREM ProtocolKeepsTrying == Spec => []KeepsTrying
<1>1. ProtocolInv => KeepsTrying
  BY ToldOk DEF ProtocolInv, TryingInv, KeepsTrying
<1> QED BY <1>1, ProtocolInvariance, PTL
=============================================================================
