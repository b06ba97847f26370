------------------------- MODULE EnergyServiceProofs -------------------------
(***************************************************************************)
(* Proofs about EnergyService, for any inventory, access configuration and *)
(* telemetry, and any number of requests: what a snapshot id that leaves   *)
(* the service stands for, how fresh the loads of a budget are, that the   *)
(* headroom of every rack is left on each capacity above it, that no       *)
(* campus overview hides a site over its safe capacity, that the           *)
(* curtailment a view advises is sound, and that a replayed day is one     *)
(* that could have been.  The argument follows a request through its       *)
(* program points: the versions of telemetry only grow, the ambient        *)
(* temperature is read before the loads, nothing a request has read        *)
(* changes once its snapshot is stored, and an answer is the budget, the   *)
(* view or the replay of exactly what was read.                            *)
(***************************************************************************)
EXTENDS EnergyService, SumTheorems, SequenceTheorems

InputStages == {"profile", "ambient", "inventory", "loads"}
Publishing == {"publish_budget", "publish_curtailment", "publish_rejected"}
Loaded == {"context", "persist"} \cup Publishing
Working == ReadStages \cup Loaded \cup {"respond", "answered"}

\* What the request under way is for.
KindInv ==
  /\ "pc" \in DOMAIN request
  /\ request.pc \in Working =>
       /\ "kind" \in DOMAIN request
       /\ request.kind \in OneSite \cup {"replay", "overview"}
  /\ request.pc \in {"sites", "samples"} => request.kind = "overview"
  /\ request.pc = "history" => request.kind = "replay"
  /\ request.pc \in Loaded => request.kind \in OneSite

\* While the input is read: the newest reading seen is not newer than what the
\* loads will be read from.
InputInv ==
  request.pc \in InputStages =>
    /\ {"site", "read", "pass"} \subseteq DOMAIN request
    /\ request.pass \in {"budget", "risk"}
    /\ request.kind \in OneSite => {"at", "override"} \subseteq DOMAIN request
    /\ request.pc # "profile" => request.site \in Sites
    /\ request.pc \in {"inventory", "loads"} =>
         /\ "observed" \in DOMAIN request.read
         /\ request.read.observed \in Nat
         /\ request.read.observed <= telemetry[request.site].version

\* An id is none, or that of a stored snapshot of this evidence.
Names(id, evidence) ==
  id # NoId => \E snapshot \in snapshots :
                 snapshot.id = id /\ snapshot.evidence = evidence

\* Once everything has been read for an answer about one site.
AnswerInv ==
  request.pc \in Loaded \cup {"respond", "answered"} /\ request.kind \in OneSite =>
    /\ {"site", "at", "override", "read"} \subseteq DOMAIN request
    /\ request.read.observed <= request.read.version
    /\ request.pc \notin {"context", "persist"} =>
         /\ "snapshot" \in DOMAIN request
         /\ Names(request.snapshot, Evidence(request))

TelemetryInv ==
  /\ DOMAIN telemetry = Sites
  /\ \A s \in Sites : /\ "version" \in DOMAIN telemetry[s]
                      /\ telemetry[s].version \in Nat

StoreInv ==
  /\ \A e \in events : Names(e.snapshot, e.evidence)
  /\ \A snapshot \in snapshots :
       snapshot.evidence.read.observed <= snapshot.evidence.read.version

IInv == KindInv /\ InputInv /\ AnswerInv /\ TelemetryInv /\ StoreInv
-----------------------------------------------------------------------------
(* Records extended with more fields, and requests at a new program point. *)
LEMMA JoinFacts ==
  ASSUME NEW f, NEW g
  PROVE  /\ DOMAIN Join(f, g) = DOMAIN f \cup DOMAIN g
         /\ \A x \in DOMAIN f : Join(f, g)[x] = f[x]
         /\ \A x \in DOMAIN g \ DOMAIN f : Join(f, g)[x] = g[x]
BY DEF Join

\* r is q at another program point.
SameButPc(q, r) ==
  /\ "pc" \in DOMAIN r
  /\ \A x \in DOMAIN q \ {"pc"} : x \in DOMAIN r /\ r[x] = q[x]

LEMMA MovedTo ==
  ASSUME NEW q, "pc" \in DOMAIN q, NEW next
  PROVE  /\ [q EXCEPT !.pc = next].pc = next
         /\ SameButPc(q, [q EXCEPT !.pc = next])
BY DEF SameButPc

LEMMA SameEvidence ==
  ASSUME NEW q, NEW r, SameButPc(q, r),
         {"site", "at", "override", "read"} \subseteq DOMAIN q
  PROVE  /\ {"site", "at", "override", "read"} \subseteq DOMAIN r
         /\ r.read = q.read /\ r.site = q.site
         /\ Evidence(r) = Evidence(q)
BY DEF SameButPc, Evidence

LEMMA SameField ==
  ASSUME NEW q, NEW r, SameButPc(q, r), NEW x \in DOMAIN q, x # "pc"
  PROVE  x \in DOMAIN r /\ r[x] = q[x]
BY DEF SameButPc

(* A request in a state that is settled without evidence. *)
LEMMA SettledIInv ==
  ASSUME IInv, OnlyRequest, "pc" \in DOMAIN request',
         request'.pc \in {"idle", "refused", "failed", "not_found"}
  PROVE  IInv'
<1>1. request'.pc \notin Working \cup InputStages \cup Loaded
  BY DEF Working, InputStages, Loaded, Publishing, ReadStages
<1>2. KindInv'
  BY <1>1 DEF KindInv, Working, Loaded, ReadStages, Publishing
<1>3. InputInv' /\ AnswerInv'
  BY <1>1 DEF InputInv, AnswerInv, Working
<1>4. TelemetryInv' /\ StoreInv'
  BY DEF OnlyRequest, IInv, TelemetryInv, StoreInv, Names, Sites
<1> QED BY <1>2, <1>3, <1>4 DEF IInv
-----------------------------------------------------------------------------
(* Steps of the request alone leave the store and the telemetry as they were. *)
LEMMA StoreKept ==
  ASSUME IInv, OnlyRequest
  PROVE  /\ TelemetryInv' /\ StoreInv' /\ Sites' = Sites
         /\ telemetry' = telemetry
         /\ \A id, evidence : Names(id, evidence)' <=> Names(id, evidence)
BY DEF OnlyRequest, IInv, TelemetryInv, StoreInv, Names, Sites

(* The input is read: profile, ambient, inventory, loads. *)
LEMMA AfterInputFacts ==
  ASSUME NEW q, {"pc", "kind", "site", "read", "pass"} \subseteq DOMAIN q,
         q.pass \in {"budget", "risk"},
         q.kind \in OneSite \cup {"replay", "overview"}
  PROVE  /\ DOMAIN AfterInput(q) = DOMAIN q
         /\ AfterInput(q).kind = q.kind
         /\ q.kind \in OneSite =>
              AfterInput(q).pc = "context" /\ SameButPc(q, AfterInput(q))
         /\ q.kind = "replay" => AfterInput(q).pc = "history"
         /\ q.kind = "overview" =>
              /\ AfterInput(q).pc \in {"profile", "samples"}
              /\ AfterInput(q).pc = "profile" => AfterInput(q).pass = "risk"
<1>1. CASE q.kind \in OneSite
  <2>1. AfterInput(q) = [q EXCEPT !.pc = "context"]
    BY <1>1 DEF AfterInput, OneSite
  <2> QED BY <1>1, <2>1, MovedTo DEF OneSite
<1>2. CASE q.kind = "replay"
  <2>1. AfterInput(q) = [q EXCEPT !.pc = "history"]
    BY <1>2 DEF AfterInput
  <2> QED BY <1>2, <2>1 DEF OneSite
<1>3. CASE q.kind = "overview" /\ q.pass = "budget"
  <2>1. PICK parts : AfterInput(q) =
          [q EXCEPT !.pc = "profile", !.pass = "risk", !.read = <<>>,
                    !.parts = parts]
    BY <1>3 DEF AfterInput
  <2> QED BY <1>3, <2>1 DEF OneSite
<1>4. CASE q.kind = "overview" /\ q.pass = "risk"
  <2>1. AfterInput(q) = [q EXCEPT !.pc = "samples"]
    BY <1>4 DEF AfterInput
  <2> QED BY <1>4, <2>1 DEF OneSite
<1> QED BY <1>1, <1>2, <1>3, <1>4

\* What a statement found takes precedence over what was read before.
LEMMA JoinRead ==
  ASSUME NEW f, NEW g
  PROVE  /\ "observed" \in DOMAIN f \cup DOMAIN g =>
              "observed" \in DOMAIN Join(f, g)
         /\ "observed" \in DOMAIN f => Join(f, g).observed = f.observed
         /\ "version" \in DOMAIN f => Join(f, g).version = f.version
         /\ "observed" \in DOMAIN g \ DOMAIN f => Join(f, g).observed = g.observed
BY DEF Join

\* What a statement found is now in the request.
WithRead(q, read) == [q EXCEPT !.read = read]

LEMMA ReadingIInv ==
  ASSUME IInv, NEW stage \in InputStages, NEW found, Reading(stage, found),
         NEW s \in Sites, s = request.site,
         NEW read, read = Join(found, request.read),
         stage \in {"profile", "inventory"} => found = <<>>,
         stage = "ambient" => /\ "observed" \in DOMAIN found
                              /\ found.observed = telemetry[s].version,
         stage = "loads" => /\ DOMAIN found = {"load", "version"}
                            /\ found.version = telemetry[s].version
  PROVE  IInv'
<1> DEFINE q == WithRead(request, read)
           r == request'
<1>1. /\ request.pc = stage /\ OnlyRequest
      /\ r = IF StageAfter(stage) = "done" THEN AfterInput(q)
             ELSE [q EXCEPT !.pc = StageAfter(stage)]
  BY DEF Reading, At, WithRead
<1>2. /\ {"pc", "kind", "site", "read", "pass"} \subseteq DOMAIN request
      /\ request.pass \in {"budget", "risk"}
      /\ request.kind \in OneSite \cup {"replay", "overview"}
      /\ request.kind \in OneSite => {"at", "override"} \subseteq DOMAIN request
  BY <1>1 DEF IInv, KindInv, InputInv, InputStages, Working, ReadStages
<1>3. /\ DOMAIN q = DOMAIN request /\ q.read = read
      /\ q.pc = stage /\ q.kind = request.kind /\ q.site = s
      /\ q.pass = request.pass /\ q.at = request.at
      /\ q.override = request.override
  BY <1>1, <1>2 DEF WithRead
<1> HIDE DEF q
<1>4. stage # "profile" /\ stage # "loads" =>
        /\ "observed" \in DOMAIN read /\ read.observed \in Nat
        /\ read.observed <= telemetry[s].version
  <2>1. CASE stage = "ambient"
    <3>1. read.observed = telemetry[s].version /\ "observed" \in DOMAIN read
      BY <2>1, JoinRead
    <3>2. telemetry[s].version \in Nat
      BY DEF IInv, TelemetryInv
    <3> QED BY <3>1, <3>2
  <2>2. CASE stage = "inventory"
    <3>1. /\ "observed" \in DOMAIN request.read
          /\ request.read.observed \in Nat
          /\ request.read.observed <= telemetry[s].version
      BY <1>1, <2>2 DEF IInv, InputInv, InputStages
    <3>2. read.observed = request.read.observed /\ "observed" \in DOMAIN read
      <4>1. "observed" \notin DOMAIN found
        BY <2>2
      <4> QED BY <3>1, <4>1, JoinRead
    <3> QED BY <3>1, <3>2
  <2> QED BY <2>1, <2>2 DEF InputStages
<1>5. stage = "loads" => read.observed <= read.version
  <2> SUFFICES ASSUME stage = "loads" PROVE read.observed <= read.version
    OBVIOUS
  <2>1. /\ "observed" \in DOMAIN request.read
        /\ request.read.observed <= telemetry[s].version
    BY <1>1 DEF IInv, InputInv, InputStages
  <2>2. read.observed = request.read.observed /\ read.version = found.version
    <3>1. "observed" \notin DOMAIN found /\ "version" \in DOMAIN found
      OBVIOUS
    <3> QED BY <2>1, <3>1, JoinRead
  <2> QED BY <2>1, <2>2
<1>6. CASE stage # "loads"
  <2>1. PICK next \in {"ambient", "inventory", "loads"} :
          /\ StageAfter(stage) = next
          /\ next \in {"inventory", "loads"} => stage \in {"ambient", "inventory"}
    BY <1>6 DEF StageAfter, InputStages
  <2>2. r = [q EXCEPT !.pc = next]
    BY <1>1, <2>1
  <2>3. /\ DOMAIN r = DOMAIN request /\ r.pc = next /\ r.read = read
        /\ r.kind = request.kind /\ r.site = s /\ r.pass = request.pass
    BY <1>2, <1>3, <2>2
  <2> HIDE DEF r
  <2>4. KindInv'
    BY <1>2, <2>3 DEF KindInv, Loaded, Publishing, r
  <2>5. InputInv'
    BY <1>1, <1>2, <1>4, <2>1, <2>3, StoreKept DEF InputInv, r
  <2>6. AnswerInv'
    BY <2>3 DEF AnswerInv, Loaded, Publishing, r
  <2> QED BY <1>1, <2>4, <2>5, <2>6, StoreKept DEF IInv
<1>7. CASE stage = "loads"
  <2>1. r = AfterInput(q)
    BY <1>1, <1>7 DEF StageAfter
  <2>2. /\ DOMAIN r = DOMAIN request /\ r.kind = request.kind
        /\ request.kind \in OneSite => r.pc = "context" /\ SameButPc(q, r)
        /\ request.kind = "replay" => r.pc = "history"
        /\ request.kind = "overview" =>
             /\ r.pc \in {"profile", "samples"}
             /\ r.pc = "profile" => r.pass = "risk"
    BY <1>2, <1>3, <2>1, AfterInputFacts
  <2>3. r.read = read \/ request.kind \notin OneSite
    BY <1>2, <1>3, <2>2, SameField
  <2> HIDE DEF r
  <2>4. KindInv'
    BY <1>2, <2>2 DEF KindInv, Loaded, Publishing, OneSite, Working, r
  <2>5. InputInv'
    BY <1>2, <2>2 DEF InputInv, InputStages, OneSite, r
  <2>6. AnswerInv'
    BY <1>2, <1>5, <1>7, <2>2, <2>3 DEF AnswerInv, Loaded, Publishing, OneSite, r
  <2> QED BY <1>1, <2>4, <2>5, <2>6, StoreKept DEF IInv
<1> QED BY <1>6, <1>7
-----------------------------------------------------------------------------
(* A request comes. *)
LEMMA ReceiveIInv ==
  ASSUME IInv, NEW kind \in OneSite \cup {"replay"}, NEW key, NEW s, NEW at,
         NEW override, NEW rack, NEW delta,
         Receive(kind, key, s, at, override, rack, delta)
  PROVE  IInv'
<1>1. /\ UNCHANGED <<inventory, telemetry, snapshots, events>>
      /\ \/ request' = [pc |-> "refused"]
         \/ request' = [pc |-> "profile", kind |-> kind, site |-> s,
                        at |-> at, override |-> override,
                        rack |-> rack, delta |-> delta, read |-> <<>>,
                        pass |-> "budget"]
  BY DEF Receive
<1>2. TelemetryInv' /\ StoreInv'
  BY <1>1 DEF IInv, TelemetryInv, StoreInv, Names, Sites
<1>3. KindInv' /\ InputInv' /\ AnswerInv'
  <2>1. CASE request' = [pc |-> "refused"]
    BY <2>1 DEF KindInv, InputInv, AnswerInv, Working, ReadStages, Loaded,
                Publishing, InputStages
  <2>2. CASE request' = [pc |-> "profile", kind |-> kind, site |-> s,
                         at |-> at, override |-> override,
                         rack |-> rack, delta |-> delta, read |-> <<>>,
                         pass |-> "budget"]
    BY <2>2 DEF KindInv, InputInv, AnswerInv, Loaded, Publishing
  <2> QED BY <1>1, <2>1, <2>2
<1> QED BY <1>2, <1>3 DEF IInv

LEMMA ReceiveOverviewIInv ==
  ASSUME IInv, NEW key, NEW at, ReceiveOverview(key, at)
  PROVE  IInv'
<1>1. PICK scope :
        /\ UNCHANGED <<inventory, telemetry, snapshots, events>>
        /\ \/ request' = [pc |-> "refused"]
           \/ request' = [pc |-> "sites", kind |-> "overview", at |-> at,
                          scope |-> scope, override |-> NoAmbient]
  BY DEF ReceiveOverview
<1>2. TelemetryInv' /\ StoreInv'
  BY <1>1 DEF IInv, TelemetryInv, StoreInv, Names, Sites
<1>3. KindInv' /\ InputInv' /\ AnswerInv'
  <2>1. CASE request' = [pc |-> "refused"]
    BY <2>1 DEF KindInv, InputInv, AnswerInv, Working, ReadStages, Loaded,
                Publishing, InputStages
  <2>2. CASE request' = [pc |-> "sites", kind |-> "overview", at |-> at,
                         scope |-> scope, override |-> NoAmbient]
    BY <2>2 DEF KindInv, InputInv, AnswerInv, Loaded, Publishing, InputStages
  <2> QED BY <1>1, <2>1, <2>2
<1> QED BY <1>2, <1>3 DEF IInv

(* The overview goes from site to site. *)
LEMMA NextSiteIInv ==
  ASSUME IInv, OnlyRequest, NEW q, NEW left, request' = NextSite(q, left),
         "kind" \in DOMAIN q, q.kind = "overview",
         DOMAIN q \cap {"pc", "site", "read", "pass"} = {}
  PROVE  IInv'
<1> DEFINE r == request'
<1>1. PICK more : /\ r = Join(q, more)
                  /\ \/ more = [pc |-> "respond"]
                     \/ more = [pc |-> "profile", site |-> Min(left),
                                left |-> left, read |-> <<>>, pass |-> "budget"]
  BY DEF NextSite
<1>2. r.kind = "overview" /\ {"pc", "kind"} \subseteq DOMAIN r
  BY <1>1 DEF Join
<1>3. \/ r.pc = "respond"
      \/ /\ r.pc = "profile" /\ {"site", "read", "pass"} \subseteq DOMAIN r
         /\ r.pass = "budget"
  BY <1>1 DEF Join
<1> HIDE DEF r
<1>4. KindInv' /\ InputInv' /\ AnswerInv'
  BY <1>2, <1>3 DEF KindInv, InputInv, AnswerInv, Loaded, Publishing,
                    InputStages, ReadStages, OneSite, r
<1> QED BY <1>4, StoreKept DEF IInv

LEMMA ListSiteProfilesIInv ==
  ASSUME IInv, ListSiteProfiles
  PROVE  IInv'
<1> DEFINE q == Join([parts |-> <<>>], Kept(request))
<1>1. "kind" \in DOMAIN request /\ request.kind = "overview"
  BY DEF ListSiteProfiles, At, IInv, KindInv, Working, ReadStages
<1>2. /\ "kind" \in DOMAIN Kept(request) /\ Kept(request).kind = "overview"
      /\ DOMAIN Kept(request) \cap {"pc", "site", "read", "pass"} = {}
  BY <1>1 DEF Kept
<1>3. /\ "kind" \in DOMAIN q /\ q.kind = "overview"
      /\ DOMAIN q \cap {"pc", "site", "read", "pass"} = {}
  BY <1>2 DEF Join
<1>4. OnlyRequest /\ \E left : request' = NextSite(q, left)
  BY DEF ListSiteProfiles
<1> HIDE DEF q
<1> QED BY <1>3, <1>4, NextSiteIInv

LEMMA LoadRiskSamplesIInv ==
  ASSUME IInv, NEW hours, NEW expensive, LoadRiskSamples(hours, expensive)
  PROVE  IInv'
<1>1. "kind" \in DOMAIN request /\ request.kind = "overview"
  BY DEF LoadRiskSamples, At, IInv, KindInv, Working, ReadStages
<1>2. PICK parts, left :
        /\ OnlyRequest
        /\ request' = NextSite(Kept([request EXCEPT !.parts = parts]), left)
  BY DEF LoadRiskSamples
<1>3. PICK q : q = Kept([request EXCEPT !.parts = parts])
  OBVIOUS
<1>4. /\ "kind" \in DOMAIN q /\ q.kind = "overview"
      /\ DOMAIN q \cap {"pc", "site", "read", "pass"} = {}
  BY <1>1, <1>3 DEF Kept
<1> QED BY <1>2, <1>3, <1>4, NextSiteIInv

(* The statements of LoadBudgetInput. *)
LEMMA AtSite ==
  ASSUME IInv, request.pc \in {"ambient", "inventory", "loads"}
  PROVE  request.site \in Sites
BY DEF IInv, InputInv, InputStages

LEMMA LoadSiteProfileIInv ==
  ASSUME IInv, LoadSiteProfile
  PROVE  IInv'
<1>1. CASE request.site \in Sites /\ Reading("profile", <<>>)
  <2>1. PICK s \in Sites : s = request.site
    BY <1>1
  <2>2. PICK read : read = Join(<<>>, request.read)
    OBVIOUS
  <2> QED BY <1>1, <2>1, <2>2, ReadingIInv DEF InputStages
<1>2. CASE /\ At("profile") /\ OnlyRequest
           /\ request' = [request EXCEPT !.pc = "not_found"]
  <2>1. "pc" \in DOMAIN request' /\ request'.pc = "not_found"
    BY <1>2 DEF IInv, KindInv
  <2> QED BY <1>2, <2>1, SettledIInv
<1> QED BY <1>1, <1>2 DEF LoadSiteProfile

LEMMA LoadAmbientIInv ==
  ASSUME IInv, LoadAmbient
  PROVE  IInv'
<1>1. PICK s \in Sites : s = request.site
  BY AtSite DEF LoadAmbient, At
<1>2. PICK found : /\ found = [ambient |-> telemetry[s].ambient,
                               observed |-> telemetry[s].version]
                   /\ Reading("ambient", found)
  BY <1>1 DEF LoadAmbient
<1>3. PICK read : read = Join(found, request.read)
  OBVIOUS
<1>4. "observed" \in DOMAIN found /\ found.observed = telemetry[s].version
  BY <1>2
<1> QED BY <1>1, <1>2, <1>3, <1>4, ReadingIInv DEF InputStages

LEMMA LoadInventoryIInv ==
  ASSUME IInv, LoadInventory
  PROVE  IInv'
<1>1. PICK s \in Sites : s = request.site
  BY AtSite DEF LoadInventory, Reading, At
<1>2. PICK read : read = Join(<<>>, request.read)
  OBVIOUS
<1> QED BY <1>1, <1>2, ReadingIInv DEF InputStages, LoadInventory

LEMMA LoadRackLoadsIInv ==
  ASSUME IInv, LoadRackLoads
  PROVE  IInv'
<1>1. PICK s \in Sites : s = request.site
  BY AtSite DEF LoadRackLoads, At
<1>2. PICK found : /\ found = [load |-> telemetry[s].load,
                               version |-> telemetry[s].version]
                   /\ Reading("loads", found)
  BY <1>1 DEF LoadRackLoads
<1>3. PICK read : read = Join(found, request.read)
  OBVIOUS
<1>4. /\ DOMAIN found = {"load", "version"}
      /\ found.version = telemetry[s].version
  BY <1>2
<1> QED BY <1>1, <1>2, <1>3, <1>4, ReadingIInv DEF InputStages

\* The day of a replay is read, or there is none.
LEMMA LoadHistoryIInv ==
  ASSUME IInv, NEW day, LoadHistory(day)
  PROVE  IInv'
<1>1. PICK points :
        /\ request.pc = "history" /\ OnlyRequest
        /\ request' = IF points = <<>> THEN [pc |-> "not_found"]
                      ELSE [pc |-> "respond", kind |-> "replay",
                            site |-> request.site, day |-> points]
  BY DEF LoadHistory, At
<1>2. CASE request' = [pc |-> "not_found"]
  <2>1. "pc" \in DOMAIN request' /\ request'.pc = "not_found"
    BY <1>2
  <2> QED BY <1>1, <2>1, SettledIInv
<1>3. CASE request' = [pc |-> "respond", kind |-> "replay",
                       site |-> request.site, day |-> points]
  <2>1. /\ request'.pc = "respond" /\ request'.kind = "replay"
        /\ {"pc", "kind"} \subseteq DOMAIN request'
    BY <1>3
  <2>2. KindInv' /\ InputInv' /\ AnswerInv'
    BY <2>1 DEF KindInv, InputInv, AnswerInv, Loaded, Publishing,
                InputStages, OneSite
  <2> QED BY <1>1, <2>2, StoreKept DEF IInv
<1> QED BY <1>1, <1>2, <1>3
-----------------------------------------------------------------------------
(* Evidence: context, snapshot, events, answer. *)
LEMMA AnswerFacts ==
  ASSUME IInv, request.pc \in Loaded
  PROVE  /\ request.kind \in OneSite
         /\ {"pc", "kind", "site", "at", "override", "read"} \subseteq DOMAIN request
         /\ request.read.observed <= request.read.version
         /\ request.pc \in Publishing =>
              /\ "snapshot" \in DOMAIN request
              /\ Names(request.snapshot, Evidence(request))
BY DEF IInv, KindInv, AnswerInv, Working, Loaded, Publishing

LEMMA LoadContextIInv ==
  ASSUME IInv, LoadContext
  PROVE  IInv'
<1>1. PICK missing :
        /\ request.pc = "context" /\ OnlyRequest
        /\ request' = Join([pc |-> "persist", missing |-> missing], request)
  BY DEF LoadContext, At
<1>2. /\ request.kind \in OneSite
      /\ {"pc", "kind", "site", "at", "override", "read"} \subseteq DOMAIN request
      /\ request.read.observed <= request.read.version
  BY <1>1, AnswerFacts DEF Loaded
<1>3. /\ request'.pc = "persist" /\ request'.kind = request.kind
      /\ request'.read = request.read
      /\ DOMAIN request \subseteq DOMAIN request'
  BY <1>1, <1>2 DEF Join
<1>4. KindInv' /\ InputInv' /\ AnswerInv'
  BY <1>2, <1>3 DEF KindInv, InputInv, AnswerInv, InputStages
<1> QED BY <1>1, <1>4, StoreKept DEF IInv

\* The id of the answer is that of the row that was stored, if any was.
LEMMA PersistBudgetSnapshotIInv ==
  ASSUME IInv, NEW stored \in BOOLEAN, NEW reported \in BOOLEAN,
         PersistBudgetSnapshot(stored, reported)
  PROVE  IInv'
<1>1. PICK id : id = SnapshotAnswered(received, stored, reported)
  OBVIOUS
<1>2. PICK row :
        /\ request.pc = "persist"
        /\ UNCHANGED <<inventory, telemetry, events>>
        /\ row = [id |-> received, missing |-> request.missing,
                  evidence |-> Evidence(request)]
        /\ snapshots' = IF stored THEN snapshots \cup {row} ELSE snapshots
        /\ request' = Join([pc |-> "publish_budget", missing |-> {},
                            snapshot |-> id], request)
  BY <1>1 DEF PersistBudgetSnapshot, At
<1>3. row.id = received /\ row.evidence = Evidence(request)
  BY <1>2
<1>4. id # NoId => id = received /\ stored
  BY <1>1 DEF SnapshotAnswered
<1>5. /\ request.kind \in OneSite
      /\ {"pc", "kind", "site", "at", "override", "read"} \subseteq DOMAIN request
      /\ request.read.observed <= request.read.version
  BY <1>2, AnswerFacts DEF Loaded
<1>6. /\ request'.pc = "publish_budget" /\ request'.kind = request.kind
      /\ request'.read = request.read /\ request'.snapshot = id
      /\ "snapshot" \in DOMAIN request'
      /\ DOMAIN request \subseteq DOMAIN request'
  BY <1>2, <1>5 DEF Join
<1>7. Evidence(request)' = Evidence(request)
  BY <1>2, <1>5 DEF Join, Evidence
<1>8. snapshots \subseteq snapshots' /\ (stored => row \in snapshots')
  BY <1>2
<1>9. Names(request.snapshot, Evidence(request))'
  BY <1>6, <1>7, <1>8, <1>3, <1>4 DEF Names
<1>10. KindInv' /\ InputInv' /\ AnswerInv'
  BY <1>5, <1>6, <1>9 DEF KindInv, InputInv, AnswerInv, InputStages, Loaded,
                          Publishing
<1>11. TelemetryInv'
  BY <1>2 DEF IInv, TelemetryInv, Sites
<1>12. StoreInv'
  <2>1. \A e \in events' : Names(e.snapshot, e.evidence)'
    BY <1>2, <1>8 DEF IInv, StoreInv, Names
  <2>2. row.evidence.read = request.read
    BY <1>3 DEF Evidence
  <2>3. \A snapshot \in snapshots' :
          snapshot.evidence.read.observed <= snapshot.evidence.read.version
    BY <1>2, <1>5, <2>2 DEF IInv, StoreInv
  <2> QED BY <2>1, <2>3 DEF StoreInv
<1> QED BY <1>10, <1>11, <1>12 DEF IInv

\* A step to the next program point that changes nothing but the events.
LEMMA OnwardIInv ==
  ASSUME IInv, request.pc \in Publishing,
         NEW next \in (Publishing \cup {"respond"}),
         request' = [request EXCEPT !.pc = next],
         UNCHANGED <<inventory, telemetry, snapshots>>,
         \A e \in events' \ events :
           e.snapshot = request.snapshot /\ e.evidence = Evidence(request)
  PROVE  IInv'
<1>1. /\ request.kind \in OneSite
      /\ {"pc", "kind", "site", "at", "override", "read"} \subseteq DOMAIN request
      /\ request.read.observed <= request.read.version
      /\ "snapshot" \in DOMAIN request
      /\ Names(request.snapshot, Evidence(request))
  BY AnswerFacts DEF Loaded
<1>2. /\ request'.pc = next /\ request'.kind = request.kind
      /\ request'.read = request.read /\ request'.snapshot = request.snapshot
      /\ DOMAIN request' = DOMAIN request
  BY <1>1
<1>3. Evidence(request)' = Evidence(request)
  BY <1>1 DEF Evidence
<1>4. Names(request.snapshot, Evidence(request))'
  BY <1>1, <1>2, <1>3 DEF Names
<1>5. KindInv' /\ InputInv' /\ AnswerInv'
  BY <1>1, <1>2, <1>4 DEF KindInv, InputInv, AnswerInv, InputStages, Loaded,
                          Publishing, ReadStages
<1>6. TelemetryInv'
  BY DEF IInv, TelemetryInv, Sites
<1>7. StoreInv'
  BY <1>1 DEF IInv, StoreInv, Names
<1> QED BY <1>5, <1>6, <1>7 DEF IInv

LEMMA PublishIInv ==
  ASSUME IInv, NEW stage \in Publishing, NEW type, NEW delivered \in BOOLEAN,
         NEW next \in (Publishing \cup {"respond"}),
         Publish(stage, type, next, delivered)
  PROVE  IInv'
<1>1. request.pc = stage /\ request' = [request EXCEPT !.pc = next]
      /\ UNCHANGED <<inventory, telemetry, snapshots>>
      /\ events' \subseteq events \cup {Event(request, type)}
  BY DEF Publish, At
<1>2. \A e \in events' \ events :
        e.snapshot = request.snapshot /\ e.evidence = Evidence(request)
  BY <1>1 DEF Event
<1> QED BY <1>1, <1>2, OnwardIInv

LEMMA PublicationIInv ==
  ASSUME IInv,
         \/ PublishLoadBudgetUpdated \/ PublishCurtailmentRecommended
         \/ PublishDispatchRejected
  PROVE  IInv'
BY PublishIInv DEF PublishLoadBudgetUpdated, PublishCurtailmentRecommended,
                   PublishDispatchRejected, Publishing

LEMMA NothingToPublishIInv ==
  ASSUME IInv, NoCurtailment \/ NothingRejected
  PROVE  IInv'
BY OnwardIInv DEF NoCurtailment, NothingRejected, Publishing, OnlyRequest, At

LEMMA RespondIInv ==
  ASSUME IInv, Respond
  PROVE  IInv'
<1>1. PICK answer :
        /\ request.pc = "respond" /\ OnlyRequest
        /\ request' = Join([pc |-> "answered", answer |-> answer], request)
  BY DEF Respond, At
<1>2. {"pc", "kind"} \subseteq DOMAIN request
      /\ request.kind \in OneSite \cup {"replay", "overview"}
  BY <1>1 DEF IInv, KindInv, Working
<1>3. /\ request'.pc = "answered" /\ request'.kind = request.kind
      /\ DOMAIN request \subseteq DOMAIN request'
      /\ \A x \in DOMAIN request \ {"pc", "answer"} : request'[x] = request[x]
  BY <1>1, <1>2 DEF Join
<1>4. request.kind \in OneSite =>
        /\ {"site", "at", "override", "read"} \subseteq DOMAIN request
        /\ request.read.observed <= request.read.version
        /\ "snapshot" \in DOMAIN request
        /\ Names(request.snapshot, Evidence(request))
  BY <1>1 DEF IInv, AnswerInv
<1>5. AnswerInv'
  <2> SUFFICES ASSUME request.kind \in OneSite PROVE AnswerInv'
    BY <1>3 DEF AnswerInv
  <2>1. request'.read = request.read /\ request'.snapshot = request.snapshot
    BY <1>3, <1>4
  <2>2. Evidence(request)' = Evidence(request)
    BY <1>3, <1>4 DEF Evidence
  <2>3. Names(request.snapshot, Evidence(request))'
    BY <1>1, <1>4, <2>1, <2>2 DEF Names, OnlyRequest
  <2> QED BY <1>3, <1>4, <2>1, <2>3 DEF AnswerInv
<1>6. KindInv' /\ InputInv'
  BY <1>2, <1>3 DEF KindInv, InputInv, InputStages, Loaded, Publishing
<1> QED BY <1>1, <1>5, <1>6, StoreKept DEF IInv

(* The environment. *)
LEMMA TelemetryArrivesIInv ==
  ASSUME IInv, NEW s \in Sites, NEW reading \in Readings,
         TelemetryArrives(s, reading)
  PROVE  IInv'
<1>1. /\ UNCHANGED <<inventory, request, snapshots, events>>
      /\ request.pc \in ReadStages
      /\ telemetry' = [telemetry EXCEPT ![s] =
           Join(reading, [version |-> telemetry[s].version + 1])]
  BY DEF TelemetryArrives
<1>2. /\ DOMAIN telemetry = Sites /\ telemetry[s].version \in Nat
  BY DEF IInv, TelemetryInv
<1>3. PICK row : row = Join(reading, [version |-> telemetry[s].version + 1])
  OBVIOUS
<1>4. "version" \in DOMAIN row /\ row.version = telemetry[s].version + 1
  BY <1>3, ReadingsAssumption DEF Join
<1>5. /\ DOMAIN telemetry' = Sites /\ telemetry'[s] = row
      /\ \A t \in Sites \ {s} : telemetry'[t] = telemetry[t]
  BY <1>1, <1>2, <1>3
<1>6. TelemetryInv'
  BY <1>1, <1>2, <1>4, <1>5 DEF IInv, TelemetryInv, Sites
<1>7. \A t \in Sites : telemetry[t].version <= telemetry'[t].version
  BY <1>2, <1>4, <1>5 DEF IInv, TelemetryInv
<1>8. InputInv'
  <2>1. \A t \in Sites, n \in Nat :
          n <= telemetry[t].version => n <= telemetry'[t].version
    BY <1>2, <1>4, <1>5 DEF IInv, TelemetryInv
  <2> QED BY <1>1, <2>1 DEF IInv, InputInv, Sites
<1>9. KindInv' /\ AnswerInv' /\ StoreInv'
  BY <1>1 DEF IInv, KindInv, AnswerInv, StoreInv, Names, Evidence
<1> QED BY <1>6, <1>8, <1>9 DEF IInv

LEMMA StopsIInv ==
  ASSUME IInv, ReadFails \/ Crash
  PROVE  IInv'
<1>1. OnlyRequest /\ (request' = [pc |-> "failed"] \/ request' = [pc |-> "idle"])
  BY DEF ReadFails, Crash, Idle
<1>2. "pc" \in DOMAIN request' /\ request'.pc \in {"failed", "idle"}
  BY <1>1
<1> QED BY <1>1, <1>2, SettledIInv
-----------------------------------------------------------------------------
(* The invariant and what follows from it. *)
LEMMA InitIInv == Init => IInv
<1> SUFFICES ASSUME Init PROVE IInv
  OBVIOUS
<1>1. PICK reading \in Readings :
        telemetry = [s \in Sites |-> Join(reading, [version |-> 1])]
  BY DEF Init
<1>2. PICK row : row = Join(reading, [version |-> 1])
  OBVIOUS
<1>3. "version" \in DOMAIN row /\ row.version = 1
  BY <1>2, ReadingsAssumption DEF Join
<1>4. TelemetryInv
  BY <1>1, <1>2, <1>3 DEF TelemetryInv
<1>5. KindInv /\ InputInv /\ AnswerInv /\ StoreInv
  BY DEF Init, Idle, KindInv, InputInv, AnswerInv, StoreInv, Working, Loaded,
         Publishing, ReadStages, InputStages
<1> QED BY <1>4, <1>5 DEF IInv

LEMMA NextIInv == IInv /\ [Next]_vars => IInv'
<1> SUFFICES ASSUME IInv, [Next]_vars PROVE IInv'
  OBVIOUS
<1>1. ASSUME NEW key \in Keys, NEW s \in Sites \cup {0}, NEW at \in Times,
             NEW override \in Overrides,
             \/ \E kind \in {"budget", "view"} :
                  Receive(kind, key, s, at, override, NoId, 0)
             \/ \E rack \in Targets, delta \in Deltas :
                  Receive("dispatch", key, s, at, override, rack, delta)
      PROVE  IInv'
  BY <1>1, ReceiveIInv DEF OneSite
<1>2. ASSUME NEW key \in Keys, NEW s \in Sites \cup {0}, NEW at \in Times,
             Receive("replay", key, s, at, NoAmbient, NoId, 0)
      PROVE  IInv'
  BY <1>2, ReceiveIInv
<1>3. ASSUME NEW key \in Keys, NEW at \in Times, ReceiveOverview(key, at)
      PROVE  IInv'
  BY <1>3, ReceiveOverviewIInv
<1>4. CASE ListSiteProfiles
  BY <1>4, ListSiteProfilesIInv
<1>5. CASE LoadSiteProfile \/ LoadAmbient \/ LoadInventory \/ LoadRackLoads
  BY <1>5, LoadSiteProfileIInv, LoadAmbientIInv, LoadInventoryIInv,
     LoadRackLoadsIInv
<1>6. ASSUME NEW hours \in Histories, NEW expensive \in BOOLEAN,
             LoadRiskSamples(hours, expensive)
      PROVE  IInv'
  BY <1>6, LoadRiskSamplesIInv
<1>7. ASSUME NEW day \in Days, LoadHistory(day) PROVE IInv'
  BY <1>7, LoadHistoryIInv
<1>8. CASE ReadFails \/ Crash
  BY <1>8, StopsIInv
<1>9. CASE LoadContext
  BY <1>9, LoadContextIInv
<1>10. ASSUME NEW stored \in BOOLEAN, NEW reported \in BOOLEAN,
              PersistBudgetSnapshot(stored, reported)
       PROVE  IInv'
  BY <1>10, PersistBudgetSnapshotIInv
<1>11. CASE \/ PublishLoadBudgetUpdated \/ PublishCurtailmentRecommended
            \/ PublishDispatchRejected
  BY <1>11, PublicationIInv
<1>12. CASE NoCurtailment \/ NothingRejected
  BY <1>12, NothingToPublishIInv
<1>13. CASE Respond
  BY <1>13, RespondIInv
<1>14. ASSUME NEW s \in Sites, NEW reading \in Readings,
              TelemetryArrives(s, reading)
       PROVE  IInv'
  BY <1>14, TelemetryArrivesIInv
<1>15. CASE UNCHANGED vars
  BY <1>15 DEF vars, IInv, KindInv, InputInv, AnswerInv, TelemetryInv, StoreInv,
               Names, Evidence, Sites
<1> QED BY <1>1, <1>2, <1>3, <1>4, <1>5, <1>6, <1>7, <1>8, <1>9, <1>10, <1>11,
           <1>12, <1>13, <1>14, <1>15 DEF Next, RequestArrives

LEMMA IInvHolds == Spec => []IInv
BY InitIInv, NextIInv, PTL DEF Spec

(* Whatever fails, a snapshot id in an answer or in an event names a stored *)
(* snapshot of the very budget it goes with.                                *)
THEOREM EvidenceMatchesHolds == Spec => []EvidenceMatches
<1>1. IInv => EvidenceMatches
  BY DEF IInv, StoreInv, AnswerInv, EvidenceMatches, Answered, Names, Loaded,
         Publishing
<1> QED BY <1>1, IInvHolds, PTL

(* The loads of a budget are never older than the telemetry_observed_at it *)
(* claims, although another statement reads them.                          *)
THEOREM LoadsAtLeastAsFreshHolds == Spec => []LoadsAtLeastAsFresh
<1>1. IInv => LoadsAtLeastAsFresh
  BY DEF IInv, StoreInv, AnswerInv, LoadsAtLeastAsFresh, Answered
<1> QED BY <1>1, IInvHolds, PTL
-----------------------------------------------------------------------------
(* The budget as a function of its input.                                  *)

\* Every quantity of the input is an integer, and every sum is over finitely
\* many.
Numeric(in) ==
  /\ {in.site.target, in.site.reserve, in.site.derateStart, in.site.deratePct,
      in.site.rampUp, in.site.rampDown, in.ambient} \subseteq Int
  /\ IsFiniteSet(DOMAIN in.load) /\ \A r \in DOMAIN in.load : in.load[r] \in Int
  /\ IsFiniteSet(DOMAIN in.assets) /\ IsFiniteSet(DOMAIN in.racks)
  /\ \A a \in DOMAIN in.assets :
       /\ in.assets[a].layer \in Layer
       /\ {in.assets[a].nominal, in.assets[a].margin, in.assets[a].deratePct,
           in.assets[a].derateStart} \subseteq Int
  /\ \A r \in DOMAIN in.racks :
       {in.racks[r].nominal, in.racks[r].margin, in.racks[r].thermal,
        in.racks[r].rampUp, in.racks[r].rampDown} \subseteq Int

LEMMA MinPositiveFacts ==
  ASSUME NEW S, S \subseteq Int
  PROVE  /\ MinPositive(S) \in Nat
         /\ \A x \in S : x >= 0 => MinPositive(S) <= x
<1> DEFINE P == {x \in S : x >= 0}
<1>1. P \subseteq Nat
  <2>1. \A x \in Int : x >= 0 => x \in Nat
    OBVIOUS
  <2> QED BY <2>1
<1>2. CASE P = {}
  BY <1>2 DEF MinPositive
<1>3. CASE P # {}
  <2>1. \E x \in P : \A y \in P : x <= y
    BY <1>1, <1>3, LeastNat
  <2>2. Min(P) \in P /\ \A y \in P : Min(P) <= y
    BY <2>1 DEF Min
  <2>3. MinPositive(S) = Min(P)
    BY <1>3 DEF MinPositive
  <2> QED BY <1>1, <2>2, <2>3
<1> QED BY <1>2, <1>3

LEMMA PercentIsInt ==
  ASSUME NEW x \in Int, NEW p \in Int
  PROVE  Percent(x, p) \in Int
<1>1. PICK hundredth \in Int : hundredth = x \div 100
  OBVIOUS
<1>2. hundredth * p \in Int
  OBVIOUS
<1> QED BY <1>1, <1>2 DEF Percent

LEMMA DerateIsInt ==
  ASSUME NEW ambient \in Int, NEW start \in Int, NEW pct \in Int
  PROVE  AmbientDerateFactor(ambient, start, pct) \in Int
<1>1. PICK lost \in Int : lost = (ambient - start) * pct
  OBVIOUS
<1> QED BY <1>1 DEF AmbientDerateFactor, Larger

LEMMA AssetBudgetFacts ==
  ASSUME NEW asset, NEW load \in Int, NEW ambient \in Int,
         {asset.nominal, asset.margin, asset.derateStart, asset.deratePct}
           \subseteq Int
  PROVE  LET budget == ComputeAssetBudget(asset, load, ambient)
         IN  /\ budget.load = load /\ budget.safe \in Int
             /\ budget.available = Larger(budget.safe - load, 0)
<1>1. PICK factor \in Int :
        factor = IF asset.maintenance THEN 0 ELSE StatusFactor(asset.status)
  BY DEF StatusFactor
<1>2. PICK derate \in Int :
        derate = AmbientDerateFactor(ambient, asset.derateStart, asset.deratePct)
  BY DerateIsInt
<1>3. PICK effective \in Int :
        effective = Percent(Percent(asset.nominal, factor), derate)
  BY PercentIsInt
<1>4. PICK margin \in Int : margin = Percent(effective, asset.margin)
  BY PercentIsInt
<1>5. PICK safe \in Int : safe = Larger(effective - margin, 0)
  <2>1. Larger(effective - margin, 0) \in Int
    BY DEF Larger
  <2> QED BY <2>1
<1>6. ComputeAssetBudget(asset, load, ambient) =
        [load |-> load, safe |-> safe, available |-> Larger(safe - load, 0)]
  BY <1>1, <1>2, <1>3, <1>4, <1>5 DEF ComputeAssetBudget
<1> QED BY <1>6

LEMMA LoadsAreInts ==
  ASSUME NEW in, Numeric(in)
  PROVE  /\ SiteLoad(in) \in Int
         /\ \A r : LoadOf(in, r) \in Int
         /\ \A a : AssetLoad(in, a) \in Int
<1>1. /\ IsFiniteSet(DOMAIN in.load) /\ IsFiniteSet(DOMAIN in.racks)
      /\ \A r \in DOMAIN in.load : in.load[r] \in Int
  BY DEF Numeric
<1>2. SiteLoad(in) \in Int
  BY <1>1, SumIsInt DEF SiteLoad, SumFunction
<1>3. \A r : LoadOf(in, r) \in Int
  BY <1>1 DEF LoadOf
<1>4. ASSUME NEW a PROVE AssetLoad(in, a) \in Int
  <2>1. PICK fed : fed = {r \in DOMAIN in.racks : Feeds(in, a, r)}
    OBVIOUS
  <2>2. PICK loads : loads = [r \in DOMAIN in.racks |-> LoadOf(in, r)]
    OBVIOUS
  <2>3. IsFiniteSet(fed)
    <3>1. fed \in SUBSET DOMAIN in.racks
      BY <2>1
    <3>2. IsFiniteSet(DOMAIN in.racks)
      BY <1>1
    <3> QED BY <3>1, <3>2, FS_Subset
  <2>4. \A r \in fed : loads[r] \in Int
    BY <1>3, <2>1, <2>2
  <2>5. AssetLoad(in, a) = SumFunctionOnSet(loads, fed)
    BY <2>1, <2>2 DEF AssetLoad
  <2> QED BY <2>3, <2>4, <2>5, SumIsInt
<1> QED BY <1>2, <1>3, <1>4

\* The parts of the budget of a site.
LEMMA SiteBudgetFacts ==
  ASSUME NEW in, Numeric(in)
  PROVE  LET b == ComputeSiteBudget(in)
         IN  /\ b.load = SiteLoad(in) /\ b.safe \in Int
             /\ b.available = Larger(b.safe - b.load, 0)
             /\ DOMAIN b.assets = DOMAIN in.assets
             /\ \A a \in DOMAIN in.assets :
                  b.assets[a] = ComputeAssetBudget(in.assets[a], AssetLoad(in, a),
                                                   in.ambient)
             /\ DOMAIN b.racks = DOMAIN in.racks
             /\ \A r \in DOMAIN in.racks :
                  b.racks[r] = RackBudget(in, r, b.assets, b.available)
<1>1. PICK asset : asset = [nominal |-> in.site.target, margin |-> in.site.reserve,
                            derateStart |-> in.site.derateStart,
                            deratePct |-> in.site.deratePct, status |-> "active",
                            maintenance |-> FALSE]
  OBVIOUS
<1>2. /\ SiteLoad(in) \in Int /\ in.ambient \in Int
      /\ {asset.nominal, asset.margin, asset.derateStart, asset.deratePct}
           \subseteq Int
  BY <1>1, LoadsAreInts DEF Numeric
<1>3. PICK own : own = ComputeAssetBudget(asset, SiteLoad(in), in.ambient)
  OBVIOUS
<1>4. own.load = SiteLoad(in) /\ own.safe \in Int
  BY <1>2, <1>3, AssetBudgetFacts
<1>5. PICK assets :
        assets = [a \in DOMAIN in.assets |->
                    ComputeAssetBudget(in.assets[a], AssetLoad(in, a), in.ambient)]
  OBVIOUS
<1>6. \A a \in DOMAIN in.assets : assets[a].safe \in Int
  <2> SUFFICES ASSUME NEW a \in DOMAIN in.assets PROVE assets[a].safe \in Int
    OBVIOUS
  <2>1. {in.assets[a].nominal, in.assets[a].margin, in.assets[a].derateStart,
         in.assets[a].deratePct} \subseteq Int
    BY DEF Numeric
  <2>2. AssetLoad(in, a) \in Int
    BY LoadsAreInts
  <2> QED BY <1>2, <1>5, <2>1, <2>2, AssetBudgetFacts
<1>7. LayerTotals(in, assets) \subseteq Int
  <2> DEFINE Total(k) == SumFunctionOnSet([a \in DOMAIN assets |-> assets[a].safe],
                           {a \in DOMAIN assets : in.assets[a].layer = k})
  <2>1. ASSUME NEW k PROVE Total(k) \in Int
    <3> DEFINE of == {a \in DOMAIN assets : in.assets[a].layer = k}
               safe == [a \in DOMAIN assets |-> assets[a].safe]
    <3>1. IsFiniteSet(of)
      <4>1. IsFiniteSet(DOMAIN assets)
        BY <1>5 DEF Numeric
      <4> QED BY <4>1, FS_Subset
    <3>2. \A a \in of : safe[a] \in Int
      BY <1>5, <1>6
    <3> HIDE DEF of, safe
    <3>3. SumFunctionOnSet(safe, of) \in Int
      BY <3>1, <3>2, SumIsInt
    <3> QED BY <3>3 DEF of, safe
  <2>2. LayerTotals(in, assets) = {t \in {Total(k) : k \in Layer} : t > 0}
    BY DEF LayerTotals
  <2> HIDE DEF Total
  <2> QED BY <2>1, <2>2
<1>8. PICK safe \in Int : safe = MinPositive({own.safe} \cup LayerTotals(in, assets))
  <2>1. {own.safe} \cup LayerTotals(in, assets) \subseteq Int
    BY <1>4, <1>7
  <2>2. MinPositive({own.safe} \cup LayerTotals(in, assets)) \in Nat
    BY <2>1, MinPositiveFacts
  <2> QED BY <2>2
<1>9. PICK b : b = ComputeSiteBudget(in)
  OBVIOUS
<1>10. PICK available : available = Larger(safe - own.load, 0)
  OBVIOUS
<1>11. /\ b.load = own.load /\ b.safe = safe /\ b.available = available
       /\ b.assets = assets
       /\ b.racks = [r \in DOMAIN in.racks |-> RackBudget(in, r, assets, available)]
  BY <1>1, <1>3, <1>5, <1>8, <1>9, <1>10 DEF ComputeSiteBudget
<1> QED BY <1>4, <1>5, <1>8, <1>9, <1>10, <1>11

\* What a rack is promised is within what the site, the rack itself and each
\* asset above it have left.
LEMMA RackBudgetFacts ==
  ASSUME NEW in, Numeric(in), NEW r \in DOMAIN in.racks, NEW assets,
         \A a \in DOMAIN in.assets : assets[a].available \in Nat,
         NEW siteAvailable \in Nat
  PROVE  LET rack == RackBudget(in, r, assets, siteAvailable)
         IN  /\ rack.load = LoadOf(in, r) /\ rack.safe \in Int
             /\ rack.dispatchable \in Nat
             /\ rack.dispatchable <= siteAvailable
             /\ rack.dispatchable <= Larger(rack.safe - rack.load, 0)
             /\ rack.dispatchable <= Larger(in.racks[r].thermal - rack.load, 0)
             /\ \A a \in PathOf(in, r) : rack.dispatchable <= assets[a].available
<1>1. PICK profile : profile = in.racks[r]
  OBVIOUS
<1>2. /\ {profile.nominal, profile.margin, profile.thermal, profile.rampUp,
          profile.rampDown, in.site.rampUp, in.ambient} \subseteq Int
  BY <1>1 DEF Numeric
<1>3. PICK load \in Int : load = LoadOf(in, r)
  BY LoadsAreInts
<1>4. PICK asset : asset = [nominal |-> profile.nominal, margin |-> profile.margin,
                            derateStart |-> 0, deratePct |-> 0,
                            status |-> profile.status,
                            maintenance |-> profile.maintenance]
  OBVIOUS
<1>5. PICK own : own = ComputeAssetBudget(asset, load, in.ambient)
  OBVIOUS
<1>6. /\ own.load = load /\ own.safe \in Int
      /\ own.available = Larger(own.safe - load, 0) /\ own.available \in Nat
  <2>1. {asset.nominal, asset.margin, asset.derateStart, asset.deratePct}
          \subseteq Int
    BY <1>2, <1>4
  <2>2. own.load = load /\ own.safe \in Int
        /\ own.available = Larger(own.safe - load, 0)
    BY <1>2, <1>5, <2>1, AssetBudgetFacts
  <2> QED BY <2>2 DEF Larger
<1>7. PICK headroom \in Nat : headroom = Larger(profile.thermal - load, 0)
  <2>1. profile.thermal - load \in Int
    BY <1>2
  <2>2. Larger(profile.thermal - load, 0) \in Nat
    BY <2>1 DEF Larger
  <2> QED BY <2>2
<1>8. PICK up \in Int : up = RampUpLimit(in.site, profile)
  <2>1. RampUpLimit(in.site, profile) \in Int
    BY <1>2 DEF RampUpLimit, Larger
  <2> QED BY <2>1
<1>9. PICK path :
        path = {own.available, siteAvailable, headroom}
                 \cup {assets[a].available : a \in PathOf(in, r)}
                 \cup {x \in {in.site.rampUp, up} : x > 0}
  OBVIOUS
<1>10. PathOf(in, r) \subseteq DOMAIN in.assets
  BY DEF PathOf
<1>11. path \subseteq Int
  BY <1>2, <1>6, <1>9, <1>10
<1>12. PICK least \in Nat :
         least = MinPositive(path) /\ \A x \in path : x >= 0 => least <= x
  BY <1>11, MinPositiveFacts
<1>13. PICK promised \in {0, least} :
         promised = IF SafetyBlocked(profile) THEN 0 ELSE least
  OBVIOUS
<1>14. PICK rack : rack = RackBudget(in, r, assets, siteAvailable)
  OBVIOUS
<1>15. rack.load = load /\ rack.safe = own.safe /\ rack.dispatchable = promised
  BY <1>1, <1>3, <1>4, <1>5, <1>7, <1>8, <1>9, <1>12, <1>13, <1>14 DEF RackBudget
<1>16. \A x \in path : x \in Nat => promised <= x
  BY <1>12, <1>13
<1>17. /\ promised \in Nat /\ promised <= siteAvailable
       /\ promised <= own.available /\ promised <= headroom
       /\ \A a \in PathOf(in, r) : promised <= assets[a].available
  BY <1>6, <1>9, <1>10, <1>12, <1>13, <1>16
<1> QED BY <1>1, <1>3, <1>6, <1>7, <1>14, <1>15, <1>17
-----------------------------------------------------------------------------
(* A rack takes d more.                                                     *)
Takes(in, after, r, d) ==
  /\ after.site = in.site /\ after.assets = in.assets
  /\ after.racks = in.racks /\ after.ambient = in.ambient
  /\ after.load = Join([x \in {r} |-> LoadOf(in, r) + d], in.load)

LEMMA LoadsTaken ==
  ASSUME NEW in, Numeric(in), NEW r \in DOMAIN in.racks, NEW d \in Int,
         NEW after, Takes(in, after, r, d)
  PROVE  /\ Numeric(after)
         /\ DOMAIN after.load = DOMAIN in.load \cup {r}
         /\ LoadOf(after, r) = LoadOf(in, r) + d
         /\ \A x : x # r => LoadOf(after, x) = LoadOf(in, x)
<1>1. PICK v \in Int : v = LoadOf(in, r) + d
  <2>1. LoadOf(in, r) + d \in Int
    BY LoadsAreInts
  <2> QED BY <2>1
<1>2. /\ DOMAIN after.load = DOMAIN in.load \cup {r} /\ after.load[r] = v
      /\ \A x \in DOMAIN in.load : x # r => after.load[x] = in.load[x]
  <2>1. PICK taken : taken = [x \in {r} |-> v]
    OBVIOUS
  <2>2. DOMAIN taken = {r} /\ taken[r] = v
    BY <2>1
  <2>3. after.load = Join(taken, in.load)
    BY <1>1, <2>1 DEF Takes
  <2> QED BY <2>2, <2>3 DEF Join
<1>3. LoadOf(after, r) = v /\ \A x : x # r => LoadOf(after, x) = LoadOf(in, x)
  BY <1>2 DEF LoadOf
<1>4. /\ IsFiniteSet(DOMAIN after.load)
      /\ \A x \in DOMAIN after.load : after.load[x] \in Int
  <2>1. IsFiniteSet(DOMAIN in.load) /\ \A x \in DOMAIN in.load : in.load[x] \in Int
    BY DEF Numeric
  <2>2. IsFiniteSet(DOMAIN in.load \cup {r})
    BY <2>1, FS_AddElement
  <2> QED BY <1>2, <2>1, <2>2
<1>5. Numeric(after)
  BY <1>4 DEF Numeric, Takes
<1> QED BY <1>1, <1>2, <1>3, <1>5

\* The site draws d more, and so does each asset above the rack.
LEMMA SiteLoadTaken ==
  ASSUME NEW in, Numeric(in), NEW r \in DOMAIN in.racks, NEW d \in Int,
         NEW after, Takes(in, after, r, d)
  PROVE  SiteLoad(after) = SiteLoad(in) + d
<1>1. PICK f, g : f = in.load /\ g = after.load
  OBVIOUS
<1>2. /\ IsFiniteSet(DOMAIN f) /\ \A x \in DOMAIN f : f[x] \in Int
      /\ DOMAIN g = DOMAIN f \cup {r}
  BY <1>1, LoadsTaken DEF Numeric
<1>3. /\ g[r] = LoadOf(in, r) + d /\ g[r] \in Int
      /\ \A x \in DOMAIN f : x # r => g[x] = f[x]
  <2>1. g[r] = LoadOf(after, r) /\ \A x \in DOMAIN f : g[x] = LoadOf(after, x)
    BY <1>1, <1>2 DEF LoadOf
  <2>2. \A x \in DOMAIN f : f[x] = LoadOf(in, x)
    BY <1>1 DEF LoadOf
  <2>3. LoadOf(in, r) + d \in Int
    BY LoadsAreInts
  <2> QED BY <2>1, <2>2, <2>3, LoadsTaken
<1>4. /\ SiteLoad(in) = SumFunctionOnSet(f, DOMAIN f)
      /\ SiteLoad(after) = SumFunctionOnSet(g, DOMAIN g)
  BY <1>1 DEF SiteLoad, SumFunction
<1>5. SumFunctionOnSet(f, DOMAIN f) \in Int
  BY <1>2, SumIsInt
<1>6. CASE r \in DOMAIN f
  <2>1. DOMAIN g = DOMAIN f
    BY <1>2, <1>6
  <2>2. LoadOf(in, r) = f[r]
    BY <1>1, <1>6 DEF LoadOf
  <2>3. \A x \in DOMAIN f : f[x] \in Int /\ g[x] \in Int
    BY <1>2, <1>3
  <2>4. SumFunctionOnSet(g, DOMAIN f) = SumFunctionOnSet(f, DOMAIN f) + (g[r] - f[r])
    BY <1>2, <1>3, <1>6, <2>3, SumChanges
  <2>5. g[r] - f[r] = d
    BY <1>2, <1>3, <1>6, <2>2
  <2> QED BY <1>4, <2>1, <2>4, <2>5
<1>7. CASE r \notin DOMAIN f
  <2>1. LoadOf(in, r) = 0
    BY <1>1, <1>7 DEF LoadOf
  <2>2. g[r] = d
    BY <1>3, <2>1
  <2>3. \A x \in DOMAIN f : g[x] = f[x] /\ g[x] \in Int
    BY <1>2, <1>3, <1>7
  <2>4. SumFunctionOnSet(g, DOMAIN f \cup {r}) = g[r] + SumFunctionOnSet(g, DOMAIN f)
    BY <1>2, <1>3, <1>7, <2>3, SumAddElement
  <2>5. SumFunctionOnSet(f, DOMAIN f) = SumFunctionOnSet(g, DOMAIN f)
    BY <1>2, <2>3, SumAgrees
  <2> QED BY <1>2, <1>4, <1>5, <2>2, <2>4, <2>5
<1> QED BY <1>6, <1>7

LEMMA AssetLoadTaken ==
  ASSUME NEW in, Numeric(in), NEW r \in DOMAIN in.racks, NEW d \in Int,
         NEW after, Takes(in, after, r, d), NEW a \in DOMAIN in.assets
  PROVE  AssetLoad(after, a) =
           AssetLoad(in, a) + (IF Feeds(in, a, r) THEN d ELSE 0)
<1>1. PICK f : f = [x \in DOMAIN in.racks |-> LoadOf(in, x)]
  OBVIOUS
<1>2. PICK g : g = [x \in DOMAIN in.racks |-> LoadOf(after, x)]
  OBVIOUS
<1>3. PICK fed : fed = {x \in DOMAIN in.racks : Feeds(in, a, x)}
  OBVIOUS
<1>4. \A x : Feeds(after, a, x) <=> Feeds(in, a, x)
  BY DEF Takes, Feeds
<1>5. /\ AssetLoad(in, a) = SumFunctionOnSet(f, fed)
      /\ AssetLoad(after, a) = SumFunctionOnSet(g, fed)
  <2>1. after.racks = in.racks
    BY DEF Takes
  <2>2. {x \in DOMAIN after.racks : Feeds(after, a, x)} = fed
    BY <1>3, <1>4, <2>1
  <2> QED BY <1>1, <1>2, <1>3, <2>1, <2>2 DEF AssetLoad
<1>6. IsFiniteSet(fed)
  <2>1. fed \subseteq DOMAIN in.racks /\ IsFiniteSet(DOMAIN in.racks)
    BY <1>3 DEF Numeric
  <2> QED BY <2>1, FS_Subset
<1>7. \A x \in fed : f[x] \in Int /\ g[x] \in Int
  <2>1. \A x : LoadOf(in, x) \in Int /\ LoadOf(after, x) \in Int
    BY LoadsAreInts, LoadsTaken
  <2> QED BY <1>1, <1>2, <1>3, <2>1
<1>8. /\ g[r] = f[r] + d /\ f[r] \in Int
      /\ \A x \in fed : x # r => g[x] = f[x]
  BY <1>1, <1>2, <1>3, LoadsTaken, LoadsAreInts
<1>9. SumFunctionOnSet(f, fed) \in Int
  BY <1>6, <1>7, SumIsInt
<1>10. CASE Feeds(in, a, r)
  <2>1. r \in fed
    BY <1>3, <1>10
  <2>2. SumFunctionOnSet(g, fed) = SumFunctionOnSet(f, fed) + (g[r] - f[r])
    BY <1>6, <1>7, <1>8, <2>1, SumChanges
  <2>3. g[r] - f[r] = d
    BY <1>8
  <2> QED BY <1>5, <1>10, <2>2, <2>3
<1>11. CASE ~ Feeds(in, a, r)
  <2>1. \A x \in fed : f[x] = g[x]
    BY <1>3, <1>8, <1>11
  <2>2. SumFunctionOnSet(f, fed) = SumFunctionOnSet(g, fed)
    BY <1>6, <2>1, SumAgrees
  <2> QED BY <1>5, <1>9, <1>11, <2>2
<1> QED BY <1>10, <1>11

\* Taking what was left of a capacity does not exceed it.
LEMMA WithinLeft ==
  ASSUME NEW load \in Int, NEW safe \in Int, NEW d \in Nat,
         d <= Larger(safe - load, 0)
  PROVE  load + d <= Larger(safe, load)
BY DEF Larger

LEMMA RackLoad ==
  ASSUME NEW in, NEW r, NEW assets, NEW siteAvailable
  PROVE  RackBudget(in, r, assets, siteAvailable).load = LoadOf(in, r)
BY Zenon DEF RackBudget

LEMMA HeadroomIsThere ==
  ASSUME NEW in, Numeric(in), NEW b, b = ComputeSiteBudget(in),
         NEW r \in DOMAIN in.racks, NEW after,
         Takes(in, after, r, b.racks[r].dispatchable),
         NEW c, c = ComputeSiteBudget(after)
  PROVE  /\ c.load <= Larger(b.safe, b.load)
         /\ c.racks[r].load <= Larger(b.racks[r].safe, b.racks[r].load)
         /\ \A a \in DOMAIN b.assets :
              in.assets[a].layer # "transformer" =>
                c.assets[a].load <= Larger(b.assets[a].safe, b.assets[a].load)
<1>1. /\ b.load = SiteLoad(in) /\ b.load \in Int /\ b.safe \in Int
      /\ b.available = Larger(b.safe - b.load, 0) /\ b.available \in Nat
      /\ DOMAIN b.assets = DOMAIN in.assets
      /\ b.racks[r] = RackBudget(in, r, b.assets, b.available)
  <2>1. /\ b.load = SiteLoad(in) /\ b.safe \in Int
        /\ b.available = Larger(b.safe - b.load, 0)
        /\ DOMAIN b.assets = DOMAIN in.assets
        /\ b.racks[r] = RackBudget(in, r, b.assets, b.available)
    BY SiteBudgetFacts
  <2>2. SiteLoad(in) \in Int
    BY LoadsAreInts
  <2> QED BY <2>1, <2>2 DEF Larger
<1>2. ASSUME NEW a \in DOMAIN in.assets
      PROVE  /\ b.assets[a].load = AssetLoad(in, a) /\ AssetLoad(in, a) \in Int
             /\ b.assets[a].safe \in Int
             /\ b.assets[a].available = Larger(b.assets[a].safe - AssetLoad(in, a), 0)
             /\ b.assets[a].available \in Nat
  <2>1. /\ in.ambient \in Int
        /\ {in.assets[a].nominal, in.assets[a].margin, in.assets[a].derateStart,
            in.assets[a].deratePct} \subseteq Int
    BY DEF Numeric
  <2>2. AssetLoad(in, a) \in Int
    BY LoadsAreInts
  <2>3. b.assets[a] = ComputeAssetBudget(in.assets[a], AssetLoad(in, a), in.ambient)
    BY SiteBudgetFacts
  <2>4. /\ b.assets[a].load = AssetLoad(in, a) /\ b.assets[a].safe \in Int
        /\ b.assets[a].available = Larger(b.assets[a].safe - AssetLoad(in, a), 0)
    BY <2>1, <2>2, <2>3, AssetBudgetFacts
  <2> QED BY <2>2, <2>4 DEF Larger
<1>3. PICK d : d = b.racks[r].dispatchable
  OBVIOUS
<1>4. /\ b.racks[r].load = LoadOf(in, r) /\ b.racks[r].safe \in Int /\ d \in Nat
      /\ d <= b.available /\ d <= Larger(b.racks[r].safe - b.racks[r].load, 0)
      /\ \A a \in PathOf(in, r) : d <= b.assets[a].available
  <2>1. \A a \in DOMAIN in.assets : b.assets[a].available \in Nat
    BY <1>2
  <2> QED BY <1>1, <1>3, <2>1, RackBudgetFacts
<1>5. d \in Int /\ Takes(in, after, r, d) /\ Numeric(after)
  BY <1>3, <1>4, LoadsTaken
<1>6. c.load <= Larger(b.safe, b.load)
  <2>1. c.load = SiteLoad(after)
    BY <1>5, SiteBudgetFacts
  <2>2. SiteLoad(after) = b.load + d
    BY <1>1, <1>5, SiteLoadTaken
  <2> QED BY <1>1, <1>4, <2>1, <2>2, WithinLeft
<1>7. c.racks[r].load <= Larger(b.racks[r].safe, b.racks[r].load)
  <2>1. /\ r \in DOMAIN after.racks
        /\ c.racks[r] = RackBudget(after, r, c.assets, c.available)
    <3>1. r \in DOMAIN after.racks
      BY DEF Takes
    <3> QED BY <1>5, <3>1, SiteBudgetFacts
  <2>2. c.racks[r].load = LoadOf(after, r)
    BY <2>1, RackLoad
  <2>3. LoadOf(after, r) = b.racks[r].load + d /\ b.racks[r].load \in Int
    BY <1>4, <1>5, LoadsTaken, LoadsAreInts
  <2> QED BY <1>4, <2>2, <2>3, WithinLeft
<1>8. ASSUME NEW a \in DOMAIN b.assets, in.assets[a].layer # "transformer"
      PROVE  c.assets[a].load <= Larger(b.assets[a].safe, b.assets[a].load)
  <2>1. a \in DOMAIN in.assets /\ a \in DOMAIN after.assets
        /\ in.assets[a].layer \in {"bus", "feeder", "pdu"}
    BY <1>1, <1>8 DEF Takes, Numeric, Layer
  <2>2. c.assets[a].load = AssetLoad(after, a)
    <3>1. c.assets[a] = ComputeAssetBudget(after.assets[a], AssetLoad(after, a),
                                           after.ambient)
      BY <1>5, <2>1, SiteBudgetFacts
    <3> QED BY <3>1 DEF ComputeAssetBudget
  <2>3. AssetLoad(after, a) = AssetLoad(in, a) + (IF Feeds(in, a, r) THEN d ELSE 0)
    BY <1>5, <2>1, AssetLoadTaken
  <2>4. Feeds(in, a, r) => a \in PathOf(in, r)
    BY <2>1 DEF Feeds, PathOf
  <2>5. CASE Feeds(in, a, r)
    <3>1. d <= Larger(b.assets[a].safe - AssetLoad(in, a), 0)
      BY <1>2, <1>4, <2>1, <2>4, <2>5
    <3>2. AssetLoad(in, a) + d <= Larger(b.assets[a].safe, AssetLoad(in, a))
      BY <1>2, <1>4, <2>1, <3>1, WithinLeft
    <3> QED BY <1>2, <2>1, <2>2, <2>3, <2>5, <3>2
  <2>6. CASE ~ Feeds(in, a, r)
    <3>1. c.assets[a].load = AssetLoad(in, a)
      BY <1>2, <2>1, <2>2, <2>3, <2>6
    <3> QED BY <1>2, <2>1, <3>1 DEF Larger
  <2> QED BY <2>5, <2>6
<1> QED BY <1>6, <1>7, <1>8
-----------------------------------------------------------------------------
(* What an answer was computed from.                                       *)
Loads == {reading.load : reading \in Readings}
Ambients == {reading.ambient : reading \in Readings}

\* What the statements of LoadBudgetInput found is what telemetry said.
Read(read) == /\ {"load", "ambient"} \subseteq DOMAIN read
              /\ read.load \in Loads /\ read.ambient \in Ambients

TablesInv ==
  /\ inventory \in Inventories
  /\ \A s \in Sites : /\ {"load", "ambient"} \subseteq DOMAIN telemetry[s]
                      /\ telemetry[s].load \in Loads
                      /\ telemetry[s].ambient \in Ambients

AmbientInv ==
  request.pc \in {"inventory", "loads"} =>
    /\ "ambient" \in DOMAIN request.read
    /\ request.read.ambient \in Ambients

After == Loaded \cup {"respond", "answered"}

\* The answer about one site is that of what was read, by then for good.
BudgetInv ==
  request.pc \in InputStages \cup After /\ request.kind \in OneSite =>
    /\ request.override \in Overrides
    /\ request.pc \in After => request.site \in Sites /\ Read(request.read)
    /\ request.pc = "answered" =>
         /\ request.kind = "budget" => request.answer = BudgetOf(request)
         /\ request.kind = "view" =>
              request.answer = BuildOperationalView(BudgetOf(request))

AInv == TablesInv /\ AmbientInv /\ BudgetInv
-----------------------------------------------------------------------------
(* AInv is an invariant.                                                    *)
LEMMA TablesKept ==
  ASSUME AInv, UNCHANGED <<inventory, telemetry>>
  PROVE  TablesInv' /\ Sites' = Sites
BY DEF AInv, TablesInv, Sites

\* A request that no answer about one site comes of, or none yet.
LEMMA ElsewhereAInv ==
  ASSUME AInv, UNCHANGED <<inventory, telemetry>>,
         request'.pc \notin {"inventory", "loads"},
         request'.pc \in InputStages \cup After => request'.kind \notin OneSite
  PROVE  AInv'
BY TablesKept DEF AInv, AmbientInv, BudgetInv

\* A request that has read everything moves on.
LEMMA OnwardAInv ==
  ASSUME AInv, request.pc \in Loaded, request.kind \in OneSite,
         UNCHANGED <<inventory, telemetry>>,
         request'.pc \in Loaded \cup {"respond"},
         request'.kind = request.kind, request'.site = request.site,
         request'.override = request.override, request'.read = request.read
  PROVE  AInv'
<1>1. request'.pc \notin {"inventory", "loads", "answered"} \cup InputStages
  BY DEF Loaded, Publishing, InputStages
<1>2. /\ request.override \in Overrides /\ request.site \in Sites
      /\ Read(request.read)
  BY DEF AInv, BudgetInv, After
<1>3. AmbientInv' /\ BudgetInv'
  BY <1>1, <1>2, TablesKept DEF AmbientInv, BudgetInv, Read, Loads, Ambients
<1> QED BY <1>3, TablesKept DEF AInv

LEMMA ReadingAInv ==
  ASSUME IInv, AInv, NEW stage \in InputStages, NEW found, Reading(stage, found),
         request.site \in Sites,
         stage \in {"profile", "inventory"} => found = <<>>,
         stage = "ambient" => "ambient" \in DOMAIN found /\ found.ambient \in Ambients,
         stage = "loads" => /\ DOMAIN found = {"load", "version"}
                            /\ found.load \in Loads
  PROVE  AInv'
<1> DEFINE q == WithRead(request, Join(found, request.read))
<1>1. PICK r : r = request'
  OBVIOUS
<1>2. /\ request.pc = stage /\ UNCHANGED <<inventory, telemetry>>
      /\ r = IF StageAfter(stage) = "done" THEN AfterInput(q)
             ELSE [q EXCEPT !.pc = StageAfter(stage)]
  BY <1>1 DEF Reading, At, WithRead, OnlyRequest
<1>3. /\ {"pc", "kind", "site", "read", "pass"} \subseteq DOMAIN request
      /\ request.pass \in {"budget", "risk"}
      /\ request.kind \in OneSite \cup {"replay", "overview"}
      /\ request.kind \in OneSite => "override" \in DOMAIN request
  BY <1>2 DEF IInv, KindInv, InputInv, InputStages, Working, ReadStages
<1>4. request.kind \in OneSite => request.override \in Overrides
  BY <1>2 DEF AInv, BudgetInv
<1>5. PICK read : read = Join(found, request.read)
  OBVIOUS
<1>6. /\ DOMAIN q = DOMAIN request /\ q.read = read
      /\ q.pc = stage /\ q.kind = request.kind /\ q.site = request.site
      /\ q.pass = request.pass /\ q.override = request.override
  BY <1>2, <1>3, <1>5 DEF WithRead
<1> HIDE DEF q
<1>7. stage \in {"ambient", "inventory", "loads"} =>
        "ambient" \in DOMAIN read /\ read.ambient \in Ambients
  <2>1. CASE stage = "ambient"
    BY <1>5, <2>1 DEF Join
  <2>2. CASE stage \in {"inventory", "loads"}
    <3>1. "ambient" \in DOMAIN request.read /\ request.read.ambient \in Ambients
      BY <1>2, <2>2 DEF AInv, AmbientInv
    <3>2. "ambient" \notin DOMAIN found
      BY <2>2
    <3> QED BY <1>5, <3>1, <3>2 DEF Join
  <2> QED BY <2>1, <2>2
<1>8. CASE stage # "loads"
  <2>1. PICK next \in {"ambient", "inventory", "loads"} :
          /\ StageAfter(stage) = next
          /\ next \in {"inventory", "loads"} => stage \in {"ambient", "inventory"}
    BY <1>8 DEF StageAfter, InputStages
  <2>2. r = [q EXCEPT !.pc = next]
    BY <1>2, <2>1
  <2>3. /\ r.pc = next /\ r.read = read /\ r.kind = request.kind
        /\ r.override = request.override
    BY <1>3, <1>6, <2>2
  <2>4. AmbientInv'
    BY <1>1, <1>2, <1>7, <2>1, <2>3 DEF AmbientInv, Ambients
  <2>5. BudgetInv'
    BY <1>1, <1>4, <2>3 DEF BudgetInv, After, Loaded, Publishing
  <2> QED BY <1>2, <2>4, <2>5, TablesKept DEF AInv
<1>9. CASE stage = "loads"
  <2>1. r = AfterInput(q)
    BY <1>2, <1>9 DEF StageAfter
  <2>2. /\ r.kind = request.kind
        /\ request.kind \in OneSite => r.pc = "context" /\ SameButPc(q, r)
        /\ request.kind = "replay" => r.pc = "history"
        /\ request.kind = "overview" => r.pc \in {"profile", "samples"}
    BY <1>3, <1>6, <2>1, AfterInputFacts
  <2>3. CASE request.kind \in OneSite
    <3>1. /\ r.pc = "context" /\ r.read = read /\ r.site = request.site
          /\ r.override = request.override
      BY <1>3, <1>6, <2>2, <2>3, SameField
    <3>2. "load" \in DOMAIN read /\ read.load \in Loads
      BY <1>5, <1>9 DEF Join
    <3>3. Read(read)
      BY <1>7, <1>9, <3>2 DEF Read
    <3>4. AmbientInv'
      BY <1>1, <3>1 DEF AmbientInv
    <3>5. BudgetInv'
      BY <1>1, <1>2, <1>4, <2>3, <3>1, <3>3, TablesKept
         DEF BudgetInv, InputStages, Read, Loads, Ambients
    <3> QED BY <1>2, <3>4, <3>5, TablesKept DEF AInv
  <2>4. CASE request.kind \notin OneSite
    <3>1. request'.pc \in {"history", "profile", "samples"}
      BY <1>1, <1>3, <2>2, <2>4
    <3>2. request'.kind \notin OneSite
      BY <1>1, <2>2, <2>4
    <3> QED BY <1>2, <3>1, <3>2, ElsewhereAInv
  <2> QED BY <2>3, <2>4
<1> QED BY <1>8, <1>9

LEMMA NextSiteAInv ==
  ASSUME AInv, OnlyRequest, NEW q, NEW left, request' = NextSite(q, left),
         "kind" \in DOMAIN q, q.kind = "overview", "pc" \notin DOMAIN q
  PROVE  AInv'
<1>1. PICK r : r = request'
  OBVIOUS
<1>2. PICK more : /\ r = Join(q, more)
                  /\ \/ more = [pc |-> "respond"]
                     \/ more = [pc |-> "profile", site |-> Min(left),
                                left |-> left, read |-> <<>>, pass |-> "budget"]
  BY <1>1 DEF NextSite
<1>3. r.kind = "overview" /\ r.pc \in {"respond", "profile"}
  BY <1>2 DEF Join
<1>4. /\ request'.pc \notin {"inventory", "loads"}
      /\ request'.kind \notin OneSite
  BY <1>1, <1>3 DEF OneSite
<1> QED BY <1>4, ElsewhereAInv DEF OnlyRequest

(* Receiving, and going from site to site. *)
LEMMA ReceiveAInv ==
  ASSUME AInv, NEW kind \in OneSite \cup {"replay"}, NEW key, NEW s, NEW at,
         NEW override, kind \in OneSite => override \in Overrides,
         NEW rack, NEW delta, Receive(kind, key, s, at, override, rack, delta)
  PROVE  AInv'
<1>1. /\ UNCHANGED <<inventory, telemetry>>
      /\ \/ request' = [pc |-> "refused"]
         \/ request' = [pc |-> "profile", kind |-> kind, site |-> s,
                        at |-> at, override |-> override,
                        rack |-> rack, delta |-> delta, read |-> <<>>,
                        pass |-> "budget"]
  BY DEF Receive
<1>2. CASE request' = [pc |-> "refused"]
  BY <1>1, <1>2, ElsewhereAInv DEF InputStages, After, Loaded, Publishing
<1>3. CASE /\ request'.pc = "profile" /\ request'.kind = kind
           /\ request'.override = override
  <2>1. AmbientInv' /\ BudgetInv'
    BY <1>3 DEF AmbientInv, BudgetInv, After, Loaded, Publishing
  <2> QED BY <1>1, <2>1, TablesKept DEF AInv
<1> QED BY <1>1, <1>2, <1>3

LEMMA ReceiveOverviewAInv ==
  ASSUME AInv, NEW key, NEW at, ReceiveOverview(key, at)
  PROVE  AInv'
<1>1. PICK scope :
        /\ UNCHANGED <<inventory, telemetry>>
        /\ \/ request' = [pc |-> "refused"]
           \/ request' = [pc |-> "sites", kind |-> "overview", at |-> at,
                          scope |-> scope, override |-> NoAmbient]
  BY DEF ReceiveOverview
<1>2. request'.pc \in {"refused", "sites"}
  BY <1>1
<1> QED BY <1>1, <1>2, ElsewhereAInv DEF InputStages, After, Loaded, Publishing

LEMMA ListSiteProfilesAInv ==
  ASSUME IInv, AInv, ListSiteProfiles
  PROVE  AInv'
<1>1. PICK q : q = Join([parts |-> <<>>], Kept(request))
  OBVIOUS
<1>2. "kind" \in DOMAIN request /\ request.kind = "overview"
  BY DEF ListSiteProfiles, At, IInv, KindInv, Working, ReadStages
<1>3. "kind" \in DOMAIN q /\ q.kind = "overview" /\ "pc" \notin DOMAIN q
  BY <1>1, <1>2 DEF Kept, Join
<1>4. OnlyRequest /\ \E left : request' = NextSite(q, left)
  BY <1>1 DEF ListSiteProfiles
<1> QED BY <1>3, <1>4, NextSiteAInv

LEMMA LoadRiskSamplesAInv ==
  ASSUME IInv, AInv, NEW hours, NEW expensive, LoadRiskSamples(hours, expensive)
  PROVE  AInv'
<1>1. "kind" \in DOMAIN request /\ request.kind = "overview"
  BY DEF LoadRiskSamples, At, IInv, KindInv, Working, ReadStages
<1>2. PICK parts, left :
        /\ OnlyRequest
        /\ request' = NextSite(Kept([request EXCEPT !.parts = parts]), left)
  BY DEF LoadRiskSamples
<1>3. PICK q : q = Kept([request EXCEPT !.parts = parts])
  OBVIOUS
<1>4. "kind" \in DOMAIN q /\ q.kind = "overview" /\ "pc" \notin DOMAIN q
  BY <1>1, <1>3 DEF Kept
<1> QED BY <1>2, <1>3, <1>4, NextSiteAInv

(* The statements of LoadBudgetInput. *)
LEMMA LoadSiteProfileAInv ==
  ASSUME IInv, AInv, LoadSiteProfile
  PROVE  AInv'
<1>1. CASE request.site \in Sites /\ Reading("profile", <<>>)
  <2>1. "profile" \in InputStages
    BY DEF InputStages
  <2> QED BY <1>1, <2>1, ReadingAInv
<1>2. CASE At("profile") /\ OnlyRequest
           /\ request' = [request EXCEPT !.pc = "not_found"]
  <2>1. request'.pc = "not_found"
    BY <1>2 DEF IInv, KindInv
  <2> QED BY <1>2, <2>1, ElsewhereAInv
          DEF OnlyRequest, InputStages, After, Loaded, Publishing
<1> QED BY <1>1, <1>2 DEF LoadSiteProfile

LEMMA LoadAmbientAInv ==
  ASSUME IInv, AInv, LoadAmbient
  PROVE  AInv'
<1>1. PICK s \in Sites : s = request.site
  BY AtSite DEF LoadAmbient, At
<1>2. PICK found : /\ found = [ambient |-> telemetry[s].ambient,
                               observed |-> telemetry[s].version]
                   /\ Reading("ambient", found)
  BY <1>1 DEF LoadAmbient
<1>3. "ambient" \in DOMAIN found /\ found.ambient \in Ambients
  BY <1>2 DEF AInv, TablesInv
<1>4. "ambient" \in InputStages
  BY DEF InputStages
<1> QED BY <1>1, <1>2, <1>3, <1>4, ReadingAInv

LEMMA LoadInventoryAInv ==
  ASSUME IInv, AInv, LoadInventory
  PROVE  AInv'
<1>1. request.site \in Sites
  BY AtSite DEF LoadInventory, Reading, At
<1>2. "inventory" \in InputStages
  BY DEF InputStages
<1> QED BY <1>1, <1>2, ReadingAInv DEF LoadInventory

LEMMA LoadRackLoadsAInv ==
  ASSUME IInv, AInv, LoadRackLoads
  PROVE  AInv'
<1>1. PICK s \in Sites : s = request.site
  BY AtSite DEF LoadRackLoads, At
<1>2. PICK found : /\ found = [load |-> telemetry[s].load,
                               version |-> telemetry[s].version]
                   /\ Reading("loads", found)
  BY <1>1 DEF LoadRackLoads
<1>3. DOMAIN found = {"load", "version"} /\ found.load \in Loads
  BY <1>2 DEF AInv, TablesInv
<1>4. "loads" \in InputStages
  BY DEF InputStages
<1> QED BY <1>1, <1>2, <1>3, <1>4, ReadingAInv

LEMMA LoadHistoryAInv ==
  ASSUME IInv, AInv, NEW day, LoadHistory(day)
  PROVE  AInv'
<1>1. PICK points :
        /\ request.pc = "history" /\ OnlyRequest
        /\ request' = IF points = <<>> THEN [pc |-> "not_found"]
                      ELSE [pc |-> "respond", kind |-> "replay",
                            site |-> request.site, day |-> points]
  BY DEF LoadHistory, At
<1>2. PICK r : r = request'
  OBVIOUS
<1>3. r.pc = "not_found" \/ (r.pc = "respond" /\ r.kind = "replay")
  <2>1. CASE request' = [pc |-> "not_found"]
    <3>1. request'.pc = "not_found"
      BY <2>1
    <3> QED BY <1>2, <3>1
  <2>2. CASE request' = [pc |-> "respond", kind |-> "replay",
                         site |-> request.site, day |-> points]
    <3>1. request'.pc = "respond" /\ request'.kind = "replay"
      BY <2>2
    <3> QED BY <1>2, <3>1
  <2> QED BY <1>1, <2>1, <2>2
<1>4. /\ request'.pc \notin {"inventory", "loads"}
      /\ request'.pc \in InputStages \cup After => request'.kind \notin OneSite
  BY <1>2, <1>3 DEF OneSite, InputStages, After, Loaded, Publishing
<1> QED BY <1>1, <1>4, ElsewhereAInv DEF OnlyRequest

(* Evidence, answer and environment. *)
LEMMA LoadContextAInv ==
  ASSUME IInv, AInv, LoadContext
  PROVE  AInv'
<1>1. PICK missing :
        /\ request.pc = "context" /\ OnlyRequest
        /\ request' = Join([pc |-> "persist", missing |-> missing], request)
  BY DEF LoadContext, At
<1>2. /\ request.kind \in OneSite
      /\ {"pc", "kind", "site", "override", "read"} \subseteq DOMAIN request
  BY <1>1, AnswerFacts DEF Loaded
<1>3. /\ request'.pc = "persist" /\ request'.kind = request.kind
      /\ request'.site = request.site /\ request'.override = request.override
      /\ request'.read = request.read
  BY <1>1, <1>2 DEF Join
<1> QED BY <1>1, <1>2, <1>3, OnwardAInv DEF OnlyRequest, Loaded

LEMMA PersistBudgetSnapshotAInv ==
  ASSUME IInv, AInv, NEW stored \in BOOLEAN, NEW reported \in BOOLEAN,
         PersistBudgetSnapshot(stored, reported)
  PROVE  AInv'
<1>1. PICK id :
        /\ request.pc = "persist" /\ UNCHANGED <<inventory, telemetry>>
        /\ request' = Join([pc |-> "publish_budget", missing |-> {},
                            snapshot |-> id], request)
  BY DEF PersistBudgetSnapshot, At
<1>2. /\ request.kind \in OneSite
      /\ {"pc", "kind", "site", "override", "read"} \subseteq DOMAIN request
  BY <1>1, AnswerFacts DEF Loaded
<1>3. /\ request'.pc = "publish_budget" /\ request'.kind = request.kind
      /\ request'.site = request.site /\ request'.override = request.override
      /\ request'.read = request.read
  BY <1>1, <1>2 DEF Join
<1> QED BY <1>1, <1>2, <1>3, OnwardAInv DEF Loaded, Publishing

LEMMA PublishAInv ==
  ASSUME IInv, AInv, request.pc \in Publishing,
         NEW next \in (Publishing \cup {"respond"}),
         request' = [request EXCEPT !.pc = next],
         UNCHANGED <<inventory, telemetry>>
  PROVE  AInv'
<1>1. /\ request.kind \in OneSite
      /\ {"pc", "kind", "site", "override", "read"} \subseteq DOMAIN request
  BY AnswerFacts DEF Loaded
<1>2. /\ request'.pc = next /\ request'.kind = request.kind
      /\ request'.site = request.site /\ request'.override = request.override
      /\ request'.read = request.read
  BY <1>1
<1> QED BY <1>1, <1>2, OnwardAInv DEF Loaded

LEMMA PublicationAInv ==
  ASSUME IInv, AInv,
         \/ PublishLoadBudgetUpdated \/ PublishCurtailmentRecommended
         \/ PublishDispatchRejected \/ NoCurtailment \/ NothingRejected
  PROVE  AInv'
BY PublishAInv DEF PublishLoadBudgetUpdated, PublishCurtailmentRecommended,
                   PublishDispatchRejected, NoCurtailment, NothingRejected,
                   Publish, At, Publishing, OnlyRequest

LEMMA RespondAInv ==
  ASSUME IInv, AInv, Respond
  PROVE  AInv'
<1>1. PICK answer :
        /\ request.pc = "respond" /\ OnlyRequest /\ answer = AnswerTo(request)
        /\ request' = Join([pc |-> "answered", answer |-> answer], request)
  BY DEF Respond, At
<1>2. {"pc", "kind"} \subseteq DOMAIN request
  BY <1>1 DEF IInv, KindInv, Working
<1>3. /\ request'.pc = "answered" /\ request'.answer = answer
      /\ \A x \in DOMAIN request \ {"pc", "answer"} : request'[x] = request[x]
  BY <1>1 DEF Join
<1>4. CASE request.kind \notin OneSite
  <2>1. request'.kind \notin OneSite /\ request'.pc \notin {"inventory", "loads"}
    BY <1>2, <1>3, <1>4
  <2> QED BY <1>1, <2>1, ElsewhereAInv DEF OnlyRequest
<1>5. CASE request.kind \in OneSite
  <2>1. {"site", "at", "override", "read"} \subseteq DOMAIN request
    BY <1>1, <1>5 DEF IInv, AnswerInv
  <2>2. /\ request'.kind = request.kind /\ request'.site = request.site
        /\ request'.at = request.at /\ request'.override = request.override
        /\ request'.read = request.read
    BY <1>2, <1>3, <2>1
  <2>3. BudgetOf(request)' = BudgetOf(request)
    BY <1>1, <2>2 DEF BudgetOf, InputOf, OnlyRequest
  <2>4. /\ request.kind = "budget" => answer = BudgetOf(request)
        /\ request.kind = "view" =>
             answer = BuildOperationalView(BudgetOf(request))
    BY <1>1 DEF AnswerTo
  <2>5. /\ request.override \in Overrides /\ request.site \in Sites
        /\ Read(request.read)
    BY <1>1, <1>5 DEF AInv, BudgetInv, After
  <2>6. /\ Sites' = Sites /\ TablesInv'
    BY <1>1, TablesKept DEF OnlyRequest
  <2>7. BudgetInv'
    BY <1>3, <2>2, <2>3, <2>4, <2>5, <2>6
       DEF BudgetInv, Read, Loads, Ambients
  <2>8. AmbientInv'
    BY <1>3 DEF AmbientInv
  <2> QED BY <2>6, <2>7, <2>8 DEF AInv
<1> QED BY <1>4, <1>5

LEMMA TelemetryArrivesAInv ==
  ASSUME IInv, AInv, NEW s \in Sites, NEW reading \in Readings,
         TelemetryArrives(s, reading)
  PROVE  AInv'
<1>1. PICK version :
        /\ UNCHANGED <<inventory, request>> /\ request.pc \in ReadStages
        /\ telemetry' = [telemetry EXCEPT ![s] = Join(reading, version)]
  BY DEF TelemetryArrives
<1>2. PICK row : row = Join(reading, version)
  OBVIOUS
<1>3. /\ {"load", "ambient"} \subseteq DOMAIN row
      /\ row.load \in Loads /\ row.ambient \in Ambients
  BY <1>2, ReadingsAssumption DEF Join, Loads, Ambients
<1>4. /\ DOMAIN telemetry = Sites /\ telemetry'[s] = row
      /\ \A t \in Sites \ {s} : telemetry'[t] = telemetry[t]
  BY <1>1, <1>2 DEF IInv, TelemetryInv
<1>5. TablesInv'
  BY <1>1, <1>3, <1>4 DEF AInv, TablesInv, Sites, Loads, Ambients
<1>6. AmbientInv'
  BY <1>1 DEF AInv, AmbientInv, Ambients
<1>7. BudgetInv'
  <2>1. request.pc \notin After
    BY <1>1 DEF ReadStages, After, Loaded, Publishing
  <2>2. "answered" \in After
    BY DEF After
  <2> QED BY <1>1, <2>1, <2>2 DEF AInv, BudgetInv
<1> QED BY <1>5, <1>6, <1>7 DEF AInv

LEMMA StopsAInv ==
  ASSUME AInv, ReadFails \/ Crash
  PROVE  AInv'
<1>1. OnlyRequest /\ (request' = [pc |-> "failed"] \/ request' = [pc |-> "idle"])
  BY DEF ReadFails, Crash, Idle
<1>2. request'.pc \in {"failed", "idle"}
  BY <1>1
<1> QED BY <1>1, <1>2, ElsewhereAInv
        DEF OnlyRequest, InputStages, After, Loaded, Publishing

LEMMA InitAInv == Init => AInv
<1> SUFFICES ASSUME Init PROVE AInv
  OBVIOUS
<1>1. PICK reading \in Readings :
        telemetry = [s \in Sites |-> Join(reading, [version |-> 1])]
  BY DEF Init
<1>2. PICK row : row = Join(reading, [version |-> 1])
  OBVIOUS
<1>3. /\ {"load", "ambient"} \subseteq DOMAIN row
      /\ row.load \in Loads /\ row.ambient \in Ambients
  BY <1>2, ReadingsAssumption DEF Join, Loads, Ambients
<1>4. TablesInv
  BY <1>1, <1>2, <1>3 DEF Init, TablesInv
<1>5. AmbientInv /\ BudgetInv
  BY DEF Init, Idle, AmbientInv, BudgetInv, InputStages, After, Loaded,
         Publishing
<1> QED BY <1>4, <1>5 DEF AInv

LEMMA NextAInv == IInv /\ AInv /\ [Next]_vars => AInv'
<1> SUFFICES ASSUME IInv, AInv, [Next]_vars PROVE AInv'
  OBVIOUS
<1>1. ASSUME NEW key \in Keys, NEW s \in Sites \cup {0}, NEW at \in Times,
             NEW override \in Overrides,
             \/ \E kind \in {"budget", "view"} :
                  Receive(kind, key, s, at, override, NoId, 0)
             \/ \E rack \in Targets, delta \in Deltas :
                  Receive("dispatch", key, s, at, override, rack, delta)
      PROVE  AInv'
  BY <1>1, ReceiveAInv DEF OneSite
<1>2. ASSUME NEW key \in Keys, NEW s \in Sites \cup {0}, NEW at \in Times,
             Receive("replay", key, s, at, NoAmbient, NoId, 0)
      PROVE  AInv'
  BY <1>2, ReceiveAInv DEF OneSite
<1>3. ASSUME NEW key \in Keys, NEW at \in Times, ReceiveOverview(key, at)
      PROVE  AInv'
  BY <1>3, ReceiveOverviewAInv
<1>4. CASE ListSiteProfiles
  BY <1>4, ListSiteProfilesAInv
<1>5. CASE LoadSiteProfile \/ LoadAmbient \/ LoadInventory \/ LoadRackLoads
  BY <1>5, LoadSiteProfileAInv, LoadAmbientAInv, LoadInventoryAInv,
     LoadRackLoadsAInv
<1>6. ASSUME NEW hours \in Histories, NEW expensive \in BOOLEAN,
             LoadRiskSamples(hours, expensive)
      PROVE  AInv'
  BY <1>6, LoadRiskSamplesAInv
<1>7. ASSUME NEW day \in Days, LoadHistory(day) PROVE AInv'
  BY <1>7, LoadHistoryAInv
<1>8. CASE ReadFails \/ Crash
  BY <1>8, StopsAInv
<1>9. CASE LoadContext
  BY <1>9, LoadContextAInv
<1>10. ASSUME NEW stored \in BOOLEAN, NEW reported \in BOOLEAN,
              PersistBudgetSnapshot(stored, reported)
       PROVE  AInv'
  BY <1>10, PersistBudgetSnapshotAInv
<1>11. CASE \/ PublishLoadBudgetUpdated \/ PublishCurtailmentRecommended
            \/ PublishDispatchRejected
  BY <1>11, PublicationAInv
<1>12. CASE NoCurtailment \/ NothingRejected
  BY <1>12, PublicationAInv
<1>13. CASE Respond
  BY <1>13, RespondAInv
<1>14. ASSUME NEW s \in Sites, NEW reading \in Readings,
              TelemetryArrives(s, reading)
       PROVE  AInv'
  BY <1>14, TelemetryArrivesAInv
<1>15. CASE UNCHANGED vars
  <2>1. BudgetOf(request)' = BudgetOf(request)
    BY <1>15 DEF vars, BudgetOf, InputOf
  <2> QED BY <1>15, <2>1 DEF vars, AInv, TablesInv, AmbientInv, BudgetInv, Read,
                             Loads, Ambients, Sites
<1> QED BY <1>1, <1>2, <1>3, <1>4, <1>5, <1>6, <1>7, <1>8, <1>9, <1>10, <1>11,
           <1>12, <1>13, <1>14, <1>15 DEF Next, RequestArrives

LEMMA AInvHolds == Spec => [](IInv /\ AInv)
<1>1. Init => IInv /\ AInv
  BY InitIInv, InitAInv
<1>2. IInv /\ AInv /\ [Next]_vars => (IInv /\ AInv)'
  BY NextIInv, NextAInv
<1> QED BY <1>1, <1>2, PTL DEF Spec

\* Whatever the tables and telemetry hold, the input made of them is numeric.
LEMMA InputNumeric ==
  ASSUME TablesInv, NEW s \in Sites, NEW at, NEW read, Read(read),
         NEW override, override \in Int \cup {NoAmbient}
  PROVE  Numeric(InputOf(s, at, read, override))
<1>1. PICK here : here = inventory[s]
  OBVIOUS
<1>2. /\ {here.site.target, here.site.reserve, here.site.derateStart,
          here.site.deratePct, here.site.rampUp, here.site.rampDown,
          here.site.reference} \subseteq Int
      /\ IsFiniteSet(DOMAIN here.assets) /\ IsFiniteSet(DOMAIN here.racks)
      /\ \A a \in DOMAIN here.assets :
           /\ "layer" \in DOMAIN here.assets[a] /\ here.assets[a].layer \in Layer
           /\ IntColumns(here.assets[a],
                         {"nominal", "margin", "deratePct", "derateStart"})
      /\ \A r \in DOMAIN here.racks :
           IntColumns(here.racks[r],
                      {"nominal", "margin", "thermal", "rampUp", "rampDown"})
  <2>1. PICK inv \in Inventories : inv = inventory /\ s \in DOMAIN inv
    BY DEF TablesInv, Sites
  <2>2. here = inv[s]
    BY <1>1, <2>1
  <2>3. SiteTables(here.site, here.assets, here.racks)
    BY <2>1, <2>2, InventoriesAssumption
  <2>4. {here.site.target, here.site.reserve, here.site.derateStart,
         here.site.deratePct, here.site.rampUp, here.site.rampDown,
         here.site.reference} \subseteq Int
    BY <2>3 DEF SiteTables, IntColumns
  <2> QED BY <2>3, <2>4 DEF SiteTables
<1>3. /\ IsFiniteSet(DOMAIN read.load)
      /\ \A r \in DOMAIN read.load : read.load[r] \in Int
      /\ read.ambient \in Int \cup {NoAmbient}
  BY ReadingsAssumption DEF Read, Loads, Ambients
<1>4. PICK ambient \in Int :
        ambient = CASE override # NoAmbient -> override
                    [] override = NoAmbient /\ read.ambient # NoAmbient ->
                         read.ambient
                    [] OTHER -> here.site.reference
  <2>1. CASE override # NoAmbient
    BY <2>1
  <2>2. CASE override = NoAmbient /\ read.ambient # NoAmbient
    BY <1>3, <2>2
  <2>3. CASE override = NoAmbient /\ read.ambient = NoAmbient
    BY <1>2, <2>3
  <2> QED BY <2>1, <2>2, <2>3
<1>5. PICK assets : assets = WithMaintenance(here.assets, here.windows[at].assets)
  OBVIOUS
<1>6. PICK racks : racks = WithMaintenance(here.racks, here.windows[at].racks)
  OBVIOUS
<1>7. ASSUME NEW items, NEW under
      PROVE  /\ DOMAIN WithMaintenance(items, under) = DOMAIN items
             /\ \A i \in DOMAIN items : \A x \in DOMAIN items[i] :
                  WithMaintenance(items, under)[i][x] = items[i][x]
  BY DEF WithMaintenance, Join
<1>8. /\ IsFiniteSet(DOMAIN assets) /\ IsFiniteSet(DOMAIN racks)
      /\ \A a \in DOMAIN assets :
           /\ assets[a].layer \in Layer
           /\ {assets[a].nominal, assets[a].margin, assets[a].deratePct,
               assets[a].derateStart} \subseteq Int
      /\ \A r \in DOMAIN racks :
           {racks[r].nominal, racks[r].margin, racks[r].thermal,
            racks[r].rampUp, racks[r].rampDown} \subseteq Int
  <2>1. DOMAIN assets = DOMAIN here.assets /\ DOMAIN racks = DOMAIN here.racks
    BY <1>5, <1>6, <1>7
  <2>2. ASSUME NEW a \in DOMAIN assets
        PROVE  /\ assets[a].layer \in Layer
               /\ {assets[a].nominal, assets[a].margin, assets[a].deratePct,
                   assets[a].derateStart} \subseteq Int
    <3>1. \A x \in DOMAIN here.assets[a] : assets[a][x] = here.assets[a][x]
      BY <1>5, <1>7, <2>1
    <3> QED BY <1>2, <2>1, <3>1 DEF IntColumns
  <2>3. ASSUME NEW r \in DOMAIN racks
        PROVE  {racks[r].nominal, racks[r].margin, racks[r].thermal,
                racks[r].rampUp, racks[r].rampDown} \subseteq Int
    <3>1. \A x \in DOMAIN here.racks[r] : racks[r][x] = here.racks[r][x]
      BY <1>6, <1>7, <2>1
    <3> QED BY <1>2, <2>1, <3>1 DEF IntColumns
  <2> QED BY <1>2, <2>1, <2>2, <2>3
<1>9. PICK in : in = InputOf(s, at, read, override)
  OBVIOUS
<1>10. in = [site |-> here.site, assets |-> assets, racks |-> racks,
             ambient |-> ambient, load |-> read.load]
  BY <1>1, <1>4, <1>5, <1>6, <1>9 DEF InputOf
<1>11. /\ in.site = here.site /\ in.assets = assets /\ in.racks = racks
       /\ in.ambient = ambient /\ in.load = read.load
  BY <1>10
<1>12. Numeric(in)
  BY <1>2, <1>3, <1>8, <1>11 DEF Numeric
<1> QED BY <1>9, <1>12

(* The headroom a budget promises a rack is there: after the rack has taken  *)
(* all of it, neither the site nor the rack nor any bus, feeder or PDU above *)
(* it is over its safe capacity, unless it was before.                       *)
THEOREM HeadroomIsRealHolds == Spec => []HeadroomIsReal
<1>1. ASSUME IInv, AInv PROVE HeadroomIsReal
  <2> SUFFICES ASSUME request.pc = "answered", request.kind = "budget"
               PROVE  HeadroomIsReal
    BY DEF HeadroomIsReal, Answered
  <2>1. PICK in : in = InputOf(request.site, request.at, request.read,
                               request.override)
    OBVIOUS
  <2>2. PICK b : b = request.answer
    OBVIOUS
  <2>3. Numeric(in) /\ b = ComputeSiteBudget(in)
    <3>1. /\ request.override \in Int \cup {NoAmbient} /\ request.site \in Sites
          /\ Read(request.read) /\ b = BudgetOf(request)
      BY <1>1, <2>2, OverridesAssumption DEF AInv, BudgetInv, After, OneSite
    <3>2. Numeric(in)
      BY <1>1, <2>1, <3>1, InputNumeric DEF AInv
    <3> QED BY <2>1, <3>1, <3>2 DEF BudgetOf
  <2>4. DOMAIN in = {"site", "assets", "racks", "ambient", "load"}
    BY <2>1 DEF InputOf
  <2>5. ASSUME NEW r \in DOMAIN b.racks, NEW load, NEW after,
               load = Join([x \in {r} |-> LoadOf(in, r) + b.racks[r].dispatchable],
                           in.load),
               after = ComputeSiteBudget([in EXCEPT !.load = load])
        PROVE  /\ after.load <= Larger(b.safe, b.load)
               /\ after.racks[r].load <= Larger(b.racks[r].safe, b.racks[r].load)
               /\ \A a \in DOMAIN b.assets :
                    in.assets[a].layer # "transformer" =>
                      after.assets[a].load <= Larger(b.assets[a].safe,
                                                     b.assets[a].load)
    <3>1. PICK changed : changed = [in EXCEPT !.load = load]
      OBVIOUS
    <3>2. /\ changed.site = in.site /\ changed.assets = in.assets
          /\ changed.racks = in.racks /\ changed.ambient = in.ambient
          /\ changed.load = load
      BY <2>4, <3>1
    <3>3. Takes(in, changed, r, b.racks[r].dispatchable)
      BY <2>5, <3>2 DEF Takes
    <3>4. r \in DOMAIN in.racks
      BY <2>3, SiteBudgetFacts
    <3> QED BY <2>3, <2>5, <3>1, <3>3, <3>4, HeadroomIsThere
  <2> QED BY <2>1, <2>2, <2>5 DEF HeadroomIsReal
<1> QED BY <1>1, AInvHolds, PTL
-----------------------------------------------------------------------------
(* What an overview was computed from.                                      *)

\* All that the projection of a site is made of.
Projected(part) == /\ {"risk", "hours", "expensive"} \subseteq DOMAIN part
                   /\ Read(part.risk) /\ part.hours \in Histories
                   /\ part.expensive \in BOOLEAN

SamplesInv ==
  request.pc = "samples" => /\ {"site", "read"} \subseteq DOMAIN request
                            /\ request.site \in Sites /\ Read(request.read)

\* Every site of an overview has all its parts but the one under way.
OverviewInv ==
  request.pc \in Working /\ request.kind = "overview" =>
    /\ "at" \in DOMAIN request
    /\ request.pc # "sites" =>
         /\ "parts" \in DOMAIN request /\ DOMAIN request.parts \subseteq Sites
         /\ \A s \in DOMAIN request.parts :
              \/ Projected(request.parts[s])
              \/ /\ request.pc \in InputStages \cup {"samples"}
                 /\ s = request.site
    /\ request.pc = "answered" => request.answer = OverviewsOf(request)

OInv == SamplesInv /\ OverviewInv

LEMMA ElsewhereOInv ==
  ASSUME request'.pc # "samples",
         request'.pc \in Working => request'.kind # "overview"
  PROVE  OInv'
BY DEF OInv, SamplesInv, OverviewInv

LEMMA ReadingOInv ==
  ASSUME IInv, AInv, OInv, NEW stage \in InputStages, NEW found,
         Reading(stage, found), NEW s \in Sites, s = request.site,
         stage = "loads" => /\ DOMAIN found = {"load", "version"}
                            /\ found.load \in Loads
  PROVE  OInv'
<1> DEFINE q == WithRead(request, Join(found, request.read))
<1>1. PICK r : r = request'
  OBVIOUS
<1>2. /\ request.pc = stage /\ UNCHANGED <<inventory, telemetry>>
      /\ r = IF StageAfter(stage) = "done" THEN AfterInput(q)
             ELSE [q EXCEPT !.pc = StageAfter(stage)]
  BY <1>1 DEF Reading, At, WithRead, OnlyRequest
<1>3. /\ {"pc", "kind", "site", "read", "pass"} \subseteq DOMAIN request
      /\ request.pass \in {"budget", "risk"}
      /\ request.kind \in OneSite \cup {"replay", "overview"}
  BY <1>2 DEF IInv, KindInv, InputInv, InputStages, Working, ReadStages
<1>4. PICK read : read = Join(found, request.read)
  OBVIOUS
<1>5. Sites' = Sites
  BY <1>2 DEF Sites
<1>6. CASE request.kind # "overview"
  <2>1. CASE stage = "loads"
    <3>1. /\ DOMAIN q = DOMAIN request /\ q.kind = request.kind
          /\ q.pass = request.pass
      BY <1>3 DEF WithRead
    <3> HIDE DEF q
    <3>2. r = AfterInput(q)
      BY <1>2, <2>1 DEF StageAfter
    <3>3. r.kind = request.kind /\ r.pc \in {"context", "history"}
      BY <1>3, <1>6, <3>1, <3>2, AfterInputFacts
    <3> QED BY <1>1, <1>6, <3>3, ElsewhereOInv
  <2>2. CASE stage # "loads"
    <3>1. PICK next \in {"ambient", "inventory", "loads"} : StageAfter(stage) = next
      BY <2>2 DEF StageAfter, InputStages
    <3>2. r = [q EXCEPT !.pc = next]
      BY <1>2, <3>1
    <3>3. r.pc = next /\ r.kind = request.kind
      BY <1>3, <3>2 DEF WithRead
    <3> QED BY <1>1, <1>6, <3>3, ElsewhereOInv
  <2> QED BY <2>1, <2>2
<1>7. CASE request.kind = "overview"
  <2>1. /\ {"at", "parts"} \subseteq DOMAIN request
        /\ DOMAIN request.parts \subseteq Sites
        /\ \A t \in DOMAIN request.parts :
             Projected(request.parts[t]) \/ t = s
    BY <1>2, <1>7 DEF OInv, OverviewInv, InputStages, Working, ReadStages
  <2>2. /\ DOMAIN q = DOMAIN request /\ q.read = read /\ q.kind = "overview"
        /\ q.site = s /\ q.pass = request.pass /\ q.parts = request.parts
    BY <1>3, <1>4, <1>7, <2>1 DEF WithRead
  <2> HIDE DEF q
  <2>3. PICK parts :
          /\ {"at", "parts", "site", "kind", "read"} \subseteq DOMAIN r
          /\ r.site = s /\ r.kind = "overview" /\ r.parts = parts
          /\ r.pc \in InputStages \cup {"samples"}
          /\ r.pc = "samples" => stage = "loads" /\ r.read = read
          /\ DOMAIN parts \subseteq Sites
          /\ \A t \in DOMAIN parts : Projected(parts[t]) \/ t = s
    <3>1. CASE stage # "loads"
      <4>1. PICK next \in {"ambient", "inventory", "loads"} :
              StageAfter(stage) = next
        BY <3>1 DEF StageAfter, InputStages
      <4>2. r = [q EXCEPT !.pc = next]
        BY <1>2, <4>1
      <4>3. /\ DOMAIN r = DOMAIN request /\ r.pc = next /\ r.site = s
            /\ r.kind = "overview" /\ r.parts = request.parts
        BY <1>3, <2>1, <2>2, <4>2
      <4> QED BY <1>3, <2>1, <4>3 DEF InputStages
    <3>2. CASE stage = "loads" /\ request.pass = "risk"
      <4>1. r = [q EXCEPT !.pc = "samples"]
        BY <1>2, <2>2, <3>2 DEF StageAfter, AfterInput, OneSite
      <4>2. /\ DOMAIN r = DOMAIN request /\ r.pc = "samples" /\ r.site = s
            /\ r.kind = "overview" /\ r.parts = request.parts /\ r.read = read
        BY <1>3, <2>1, <2>2, <4>1
      <4> QED BY <1>3, <2>1, <3>2, <4>2
    <3>3. CASE stage = "loads" /\ request.pass = "budget"
      <4>1. PICK new : new = [t \in {s} |-> [budget |-> q.read]]
        OBVIOUS
      <4>2. PICK joined : joined = Join(new, request.parts)
        OBVIOUS
      <4>3. r = [q EXCEPT !.pc = "profile", !.pass = "risk", !.read = <<>>,
                          !.parts = joined]
        BY <1>2, <2>2, <3>3, <4>1, <4>2 DEF StageAfter, AfterInput, OneSite
      <4>4. /\ DOMAIN r = DOMAIN request /\ r.pc = "profile" /\ r.site = s
            /\ r.kind = "overview" /\ r.parts = joined
        BY <1>3, <2>1, <2>2, <4>3
      <4>5. /\ DOMAIN joined = DOMAIN request.parts \cup {s}
            /\ \A t \in DOMAIN request.parts : t # s => joined[t] = request.parts[t]
        BY <4>1, <4>2 DEF Join
      <4> QED BY <1>3, <2>1, <4>4, <4>5 DEF InputStages
    <3> QED BY <1>3, <3>1, <3>2, <3>3
  <2>4. r.pc = "samples" => Read(read)
    <3> SUFFICES ASSUME stage = "loads" PROVE Read(read)
      BY <2>3
    <3>1. "ambient" \in DOMAIN request.read /\ request.read.ambient \in Ambients
      BY <1>2 DEF AInv, AmbientInv
    <3> QED BY <1>4, <3>1 DEF Read, Join
  <2>5. SamplesInv'
    BY <1>1, <1>5, <2>3, <2>4 DEF SamplesInv, Read, Loads, Ambients
  <2>6. OverviewInv'
    <3>1. request'.pc \notin {"sites", "answered"}
      BY <1>1, <2>3 DEF InputStages
    <3> QED BY <1>1, <1>5, <2>3, <3>1
            DEF OverviewInv, Projected, Read, Loads, Ambients
  <2> QED BY <2>5, <2>6 DEF OInv
<1> QED BY <1>6, <1>7

LEMMA NextSiteOInv ==
  ASSUME OnlyRequest, NEW q, NEW left, request' = NextSite(q, left),
         {"kind", "at", "parts"} \subseteq DOMAIN q, "pc" \notin DOMAIN q,
         DOMAIN q.parts \subseteq Sites,
         \A s \in DOMAIN q.parts : Projected(q.parts[s])
  PROVE  OInv'
<1>1. PICK r : r = request'
  OBVIOUS
<1>2. PICK more : /\ r = Join(q, more)
                  /\ \/ more = [pc |-> "respond"]
                     \/ more = [pc |-> "profile", site |-> Min(left),
                                left |-> left, read |-> <<>>, pass |-> "budget"]
  BY <1>1 DEF NextSite
<1>3. /\ r.pc \in {"respond", "profile"} /\ r.parts = q.parts
      /\ {"at", "parts"} \subseteq DOMAIN r
  BY <1>2 DEF Join
<1>4. Sites' = Sites
  BY DEF Sites, OnlyRequest
<1>5. SamplesInv'
  BY <1>1, <1>3 DEF SamplesInv
<1>6. OverviewInv'
  BY <1>1, <1>3, <1>4 DEF OverviewInv, Projected, Read, Loads, Ambients
<1> QED BY <1>5, <1>6 DEF OInv

LEMMA ReceivesOInv ==
  ASSUME NEW kind \in OneSite \cup {"replay"}, NEW key, NEW s, NEW at,
         NEW override, NEW rack, NEW delta,
         Receive(kind, key, s, at, override, rack, delta)
  PROVE  OInv'
<1>1. \/ request' = [pc |-> "refused"]
      \/ request' = [pc |-> "profile", kind |-> kind, site |-> s,
                     at |-> at, override |-> override,
                     rack |-> rack, delta |-> delta, read |-> <<>>,
                     pass |-> "budget"]
  BY DEF Receive
<1>2. CASE request' = [pc |-> "refused"]
  BY <1>2, ElsewhereOInv DEF Working, ReadStages, Loaded, Publishing
<1>3. CASE request'.pc = "profile" /\ request'.kind = kind
  BY <1>3, ElsewhereOInv DEF OneSite
<1> QED BY <1>1, <1>2, <1>3

LEMMA ReceiveOverviewOInv ==
  ASSUME NEW key, NEW at, ReceiveOverview(key, at)
  PROVE  OInv'
<1>1. PICK scope :
        \/ request' = [pc |-> "refused"]
        \/ request' = [pc |-> "sites", kind |-> "overview", at |-> at,
                       scope |-> scope, override |-> NoAmbient]
  BY DEF ReceiveOverview
<1>2. CASE request' = [pc |-> "refused"]
  BY <1>2, ElsewhereOInv DEF Working, ReadStages, Loaded, Publishing
<1>3. CASE request'.pc = "sites" /\ "at" \in DOMAIN request'
  BY <1>3 DEF OInv, SamplesInv, OverviewInv
<1> QED BY <1>1, <1>2, <1>3

\* What is kept from site to site.
LEMMA KeptFacts ==
  ASSUME NEW q, {"kind", "at", "parts"} \subseteq DOMAIN q
  PROVE  /\ {"kind", "at", "parts"} \subseteq DOMAIN Kept(q)
         /\ "pc" \notin DOMAIN Kept(q)
         /\ Kept(q).parts = q.parts
BY DEF Kept

LEMMA ListSiteProfilesOInv ==
  ASSUME IInv, OInv, ListSiteProfiles
  PROVE  OInv'
<1>1. PICK q : q = Join([parts |-> <<>>], Kept(request))
  OBVIOUS
<1>2. {"kind", "at"} \subseteq DOMAIN request
  BY DEF ListSiteProfiles, At, IInv, KindInv, OInv, OverviewInv, Working,
         ReadStages
<1>3. /\ {"kind", "at", "parts"} \subseteq DOMAIN q /\ "pc" \notin DOMAIN q
      /\ q.parts = <<>>
  BY <1>1, <1>2 DEF Kept, Join
<1>4. OnlyRequest /\ \E left : request' = NextSite(q, left)
  BY <1>1 DEF ListSiteProfiles
<1>5. DOMAIN q.parts = {}
  BY <1>3
<1> QED BY <1>3, <1>4, <1>5, NextSiteOInv

LEMMA LoadRiskSamplesOInv ==
  ASSUME IInv, OInv, NEW hours \in Histories, NEW expensive \in BOOLEAN,
         LoadRiskSamples(hours, expensive)
  PROVE  OInv'
<1>1. PICK s : s = request.site
  OBVIOUS
<1>2. PICK part : part = Join([risk |-> request.read, hours |-> hours,
                               expensive |-> expensive], request.parts[s])
  OBVIOUS
<1>3. PICK new : new = [t \in {s} |-> part]
  OBVIOUS
<1>4. PICK parts : parts = Join(new, request.parts)
  OBVIOUS
<1>5. PICK left : /\ request.pc = "samples" /\ OnlyRequest
                  /\ request' = NextSite(Kept([request EXCEPT !.parts = parts]),
                                         left)
  BY <1>1, <1>2, <1>3, <1>4 DEF LoadRiskSamples, At
<1>6. /\ {"kind", "at", "parts"} \subseteq DOMAIN request
      /\ DOMAIN request.parts \subseteq Sites
      /\ \A t \in DOMAIN request.parts : Projected(request.parts[t]) \/ t = s
  BY <1>1, <1>5 DEF IInv, KindInv, OInv, OverviewInv, Working, ReadStages
<1>7. s \in Sites /\ Read(request.read)
  BY <1>1, <1>5 DEF OInv, SamplesInv
<1>8. Projected(part)
  <2>1. /\ {"risk", "hours", "expensive"} \subseteq DOMAIN part
        /\ part.risk = request.read /\ part.hours = hours
        /\ part.expensive = expensive
    BY <1>2 DEF Join
  <2> QED BY <1>7, <2>1 DEF Projected
<1>9. /\ DOMAIN parts \subseteq Sites
      /\ \A t \in DOMAIN parts : Projected(parts[t])
  <2>1. /\ DOMAIN parts = DOMAIN request.parts \cup {s} /\ parts[s] = part
        /\ \A t \in DOMAIN request.parts : t # s => parts[t] = request.parts[t]
    BY <1>3, <1>4 DEF Join
  <2> QED BY <1>6, <1>7, <1>8, <2>1
<1>10. PICK q : q = [request EXCEPT !.parts = parts]
  OBVIOUS
<1>11. {"kind", "at", "parts"} \subseteq DOMAIN q /\ q.parts = parts
  BY <1>6, <1>10
<1>12. PICK kept : kept = Kept(q)
  OBVIOUS
<1>13. /\ {"kind", "at", "parts"} \subseteq DOMAIN kept /\ "pc" \notin DOMAIN kept
       /\ kept.parts = parts
  BY <1>11, <1>12, KeptFacts
<1>14. OnlyRequest /\ request' = NextSite(kept, left)
  BY <1>5, <1>10, <1>12
<1> QED BY <1>9, <1>13, <1>14, NextSiteOInv

\* The statements of LoadBudgetInput, and what is for one site only.
LEMMA StatementOInv ==
  ASSUME IInv, AInv, OInv,
         LoadSiteProfile \/ LoadAmbient \/ LoadInventory \/ LoadRackLoads
  PROVE  OInv'
<1>1. CASE LoadSiteProfile
  <2>1. CASE request.site \in Sites /\ Reading("profile", <<>>)
    BY <2>1, ReadingOInv DEF InputStages
  <2>2. CASE At("profile") /\ request' = [request EXCEPT !.pc = "not_found"]
    <3>1. request'.pc = "not_found"
      BY <2>2 DEF IInv, KindInv
    <3> QED BY <3>1, ElsewhereOInv DEF Working, ReadStages, Loaded, Publishing
  <2> QED BY <1>1, <2>1, <2>2 DEF LoadSiteProfile
<1>2. CASE LoadAmbient
  <2>1. request.site \in Sites /\ \E found : Reading("ambient", found)
    BY <1>2, AtSite DEF LoadAmbient, At
  <2> QED BY <2>1, ReadingOInv DEF InputStages
<1>3. CASE LoadInventory
  <2>1. request.site \in Sites /\ Reading("inventory", <<>>)
    BY <1>3, AtSite DEF LoadInventory, Reading, At
  <2> QED BY <2>1, ReadingOInv DEF InputStages
<1>4. CASE LoadRackLoads
  <2>1. PICK s \in Sites : s = request.site
    BY <1>4, AtSite DEF LoadRackLoads, At
  <2>2. PICK found : /\ found = [load |-> telemetry[s].load,
                                 version |-> telemetry[s].version]
                     /\ Reading("loads", found)
    BY <1>4, <2>1 DEF LoadRackLoads
  <2>3. DOMAIN found = {"load", "version"} /\ found.load \in Loads
    BY <2>2 DEF AInv, TablesInv
  <2> QED BY <2>1, <2>2, <2>3, ReadingOInv DEF InputStages
<1> QED BY <1>1, <1>2, <1>3, <1>4

LEMMA LoadHistoryOInv ==
  ASSUME IInv, NEW day, LoadHistory(day)
  PROVE  OInv'
<1>1. PICK points :
        /\ request.pc = "history"
        /\ request' = IF points = <<>> THEN [pc |-> "not_found"]
                      ELSE [pc |-> "respond", kind |-> "replay",
                            site |-> request.site, day |-> points]
  BY DEF LoadHistory, At
<1>2. CASE request' = [pc |-> "not_found"]
  BY <1>2, ElsewhereOInv DEF Working, ReadStages, Loaded, Publishing
<1>3. CASE request' = [pc |-> "respond", kind |-> "replay",
                       site |-> request.site, day |-> points]
  <2>1. request'.pc = "respond" /\ request'.kind = "replay"
    BY <1>3
  <2> QED BY <2>1, ElsewhereOInv
<1> QED BY <1>1, <1>2, <1>3

LEMMA OnwardOInv ==
  ASSUME IInv, request.pc \in Loaded,
         request'.pc \in Loaded \cup {"respond"}, request'.kind = request.kind
  PROVE  OInv'
<1>1. request'.pc # "samples" /\ request'.kind # "overview"
  BY AnswerFacts DEF OneSite, Loaded, Publishing
<1> QED BY <1>1, ElsewhereOInv

LEMMA EvidenceOInv ==
  ASSUME IInv,
         \/ LoadContext
         \/ \E stored, reported \in BOOLEAN :
              PersistBudgetSnapshot(stored, reported)
         \/ PublishLoadBudgetUpdated \/ PublishCurtailmentRecommended
         \/ PublishDispatchRejected \/ NoCurtailment \/ NothingRejected
  PROVE  OInv'
<1>1. request.pc \in Loaded
  BY DEF LoadContext, PersistBudgetSnapshot, PublishLoadBudgetUpdated,
         PublishCurtailmentRecommended, PublishDispatchRejected, NoCurtailment,
         NothingRejected, Publish, At, Loaded, Publishing
<1>2. {"pc", "kind"} \subseteq DOMAIN request
  BY <1>1, AnswerFacts
<1>3. CASE LoadContext
  <2>1. PICK missing :
          request' = Join([pc |-> "persist", missing |-> missing], request)
    BY <1>3 DEF LoadContext
  <2>2. request'.pc = "persist" /\ request'.kind = request.kind
    BY <1>2, <2>1 DEF Join
  <2> QED BY <1>1, <2>2, OnwardOInv DEF Loaded
<1>4. ASSUME NEW stored \in BOOLEAN, NEW reported \in BOOLEAN,
             PersistBudgetSnapshot(stored, reported)
      PROVE  OInv'
  <2>1. PICK id : request' = Join([pc |-> "publish_budget", missing |-> {},
                                   snapshot |-> id], request)
    BY <1>4 DEF PersistBudgetSnapshot
  <2>2. request'.pc = "publish_budget" /\ request'.kind = request.kind
    BY <1>2, <2>1 DEF Join
  <2> QED BY <1>1, <2>2, OnwardOInv DEF Loaded, Publishing
<1>5. CASE \/ PublishLoadBudgetUpdated \/ PublishCurtailmentRecommended
           \/ PublishDispatchRejected \/ NoCurtailment \/ NothingRejected
  <2>1. PICK next \in Publishing \cup {"respond"} :
          request' = [request EXCEPT !.pc = next]
    BY <1>5 DEF PublishLoadBudgetUpdated, PublishCurtailmentRecommended,
                PublishDispatchRejected, NoCurtailment, NothingRejected,
                Publish, Publishing
  <2>2. request'.pc = next /\ request'.kind = request.kind
    BY <1>2, <2>1
  <2> QED BY <1>1, <2>2, OnwardOInv DEF Loaded
<1> QED BY <1>3, <1>4, <1>5

LEMMA RespondOInv ==
  ASSUME IInv, OInv, Respond
  PROVE  OInv'
<1>1. PICK answer :
        /\ request.pc = "respond" /\ OnlyRequest /\ answer = AnswerTo(request)
        /\ request' = Join([pc |-> "answered", answer |-> answer], request)
  BY DEF Respond, At
<1>2. /\ {"pc", "kind"} \subseteq DOMAIN request
      /\ request.kind \in OneSite \cup {"replay", "overview"}
  BY <1>1 DEF IInv, KindInv, Working
<1>3. /\ request'.pc = "answered" /\ request'.answer = answer
      /\ DOMAIN request \subseteq DOMAIN request'
      /\ \A x \in DOMAIN request \ {"pc", "answer"} : request'[x] = request[x]
  BY <1>1 DEF Join
<1>4. SamplesInv'
  BY <1>3 DEF SamplesInv
<1>5. CASE request.kind # "overview"
  BY <1>2, <1>3, <1>5, ElsewhereOInv
<1>6. CASE request.kind = "overview"
  <2>1. /\ {"at", "parts"} \subseteq DOMAIN request
        /\ DOMAIN request.parts \subseteq Sites
        /\ \A s \in DOMAIN request.parts : Projected(request.parts[s])
    BY <1>1, <1>6 DEF OInv, OverviewInv, Working, InputStages
  <2>2. /\ request'.at = request.at /\ request'.parts = request.parts
        /\ {"at", "parts"} \subseteq DOMAIN request'
    BY <1>3, <2>1
  <2>3. OverviewsOf(request)' = OverviewsOf(request)
    BY <1>1, <2>2 DEF OverviewsOf, OverviewOf, ProjectionOf, InputOf, OnlyRequest
  <2>4. answer = OverviewsOf(request)
    BY <1>1, <1>6 DEF AnswerTo
  <2>5. Sites' = Sites
    BY <1>1 DEF Sites, OnlyRequest
  <2>6. OverviewInv'
    BY <1>3, <2>1, <2>2, <2>3, <2>4, <2>5
       DEF OverviewInv, Projected, Read, Loads, Ambients
  <2> QED BY <1>4, <2>6 DEF OInv
<1> QED BY <1>5, <1>6

LEMMA UnchangedOInv ==
  ASSUME OInv, UNCHANGED <<inventory, request>>
  PROVE  OInv'
<1>1. OverviewsOf(request)' = OverviewsOf(request) /\ Sites' = Sites
  BY DEF OverviewsOf, OverviewOf, ProjectionOf, InputOf, Sites
<1>2. SamplesInv'
  BY <1>1 DEF OInv, SamplesInv, Read, Loads, Ambients
<1>3. OverviewInv'
  BY <1>1 DEF OInv, OverviewInv, Projected, Read, Loads, Ambients
<1> QED BY <1>2, <1>3 DEF OInv

LEMMA NextOInv == IInv /\ AInv /\ OInv /\ [Next]_vars => OInv'
<1> SUFFICES ASSUME IInv, AInv, OInv, [Next]_vars PROVE OInv'
  OBVIOUS
<1>1. ASSUME NEW key \in Keys, NEW s \in Sites \cup {0}, NEW at \in Times,
             NEW override \in Overrides,
             \/ \E kind \in {"budget", "view"} :
                  Receive(kind, key, s, at, override, NoId, 0)
             \/ \E rack \in Targets, delta \in Deltas :
                  Receive("dispatch", key, s, at, override, rack, delta)
      PROVE  OInv'
  BY <1>1, ReceivesOInv DEF OneSite
<1>2. ASSUME NEW key \in Keys, NEW s \in Sites \cup {0}, NEW at \in Times,
             Receive("replay", key, s, at, NoAmbient, NoId, 0)
      PROVE  OInv'
  BY <1>2, ReceivesOInv
<1>3. ASSUME NEW key \in Keys, NEW at \in Times, ReceiveOverview(key, at)
      PROVE  OInv'
  BY <1>3, ReceiveOverviewOInv
<1>4. CASE ListSiteProfiles
  BY <1>4, ListSiteProfilesOInv
<1>5. CASE LoadSiteProfile \/ LoadAmbient \/ LoadInventory \/ LoadRackLoads
  BY <1>5, StatementOInv
<1>6. ASSUME NEW hours \in Histories, NEW expensive \in BOOLEAN,
             LoadRiskSamples(hours, expensive)
      PROVE  OInv'
  BY <1>6, LoadRiskSamplesOInv
<1>7. ASSUME NEW day \in Days, LoadHistory(day) PROVE OInv'
  BY <1>7, LoadHistoryOInv
<1>8. CASE ReadFails \/ Crash
  <2>1. request'.pc \in {"failed", "idle"}
    BY <1>8 DEF ReadFails, Crash, Idle
  <2> QED BY <2>1, ElsewhereOInv DEF Working, ReadStages, Loaded, Publishing
<1>9. CASE \/ LoadContext
           \/ \E stored, reported \in BOOLEAN :
                PersistBudgetSnapshot(stored, reported)
           \/ PublishLoadBudgetUpdated \/ PublishCurtailmentRecommended
           \/ PublishDispatchRejected \/ NoCurtailment \/ NothingRejected
  BY <1>9, EvidenceOInv
<1>10. CASE Respond
  BY <1>10, RespondOInv
<1>11. CASE UNCHANGED vars \/ \E s \in Sites, reading \in Readings :
                                TelemetryArrives(s, reading)
  BY <1>11, UnchangedOInv DEF vars, TelemetryArrives
<1> QED BY <1>1, <1>2, <1>3, <1>4, <1>5, <1>6, <1>7, <1>8, <1>9, <1>10, <1>11
        DEF Next, RequestArrives

LEMMA OInvHolds == Spec => [](IInv /\ AInv /\ OInv)
<1>1. Init => OInv
  BY DEF Init, Idle, OInv, SamplesInv, OverviewInv, Working, ReadStages, Loaded,
         Publishing
<1>2. Init => IInv /\ AInv
  BY InitIInv, InitAInv
<1>3. IInv /\ AInv /\ OInv /\ [Next]_vars => (IInv /\ AInv /\ OInv)'
  BY NextIInv, NextAInv, NextOInv
<1> QED BY <1>1, <1>2, <1>3, PTL DEF Spec
-----------------------------------------------------------------------------
(* Lists in the order of a relation.                                        *)

\* A strict total order of S, as a set of pairs.
StrictOrder(S, before) ==
  /\ \A x \in S : <<x, x>> \notin before
  /\ \A x, y \in S : x # y => <<x, y>> \in before \/ <<y, x>> \in before
  /\ \A x, y, z \in S :
       <<x, y>> \in before /\ <<y, z>> \in before => <<x, z>> \in before

RankIn(S, before) == [x \in S |-> Cardinality({y \in S : <<y, x>> \in before})]

\* The elements of a finite set have the ranks 0, 1, ... in such an order.
LEMMA RanksInOrder ==
  ASSUME NEW S, IsFiniteSet(S), NEW before, StrictOrder(S, before)
  PROVE  LET rank == RankIn(S, before)
             n == Cardinality(S)
         IN  /\ n \in Nat
             /\ \A x \in S : rank[x] \in 0 .. n - 1
             /\ \A x, y \in S : <<x, y>> \in before => rank[x] < rank[y]
             /\ \A i \in 0 .. n - 1 : \E x \in S : rank[x] = i
<1> DEFINE Below(x) == {y \in S : <<y, x>> \in before}
           rank == [x \in S |-> Cardinality(Below(x))]
           n == Cardinality(S)
           R == 0 .. n - 1
<1>1. n \in Nat
  BY FS_CardinalityType
<1>2. ASSUME NEW x \in S, NEW T, Below(x) \subseteq T, x \in T, T \subseteq S
      PROVE  rank[x] \in Nat /\ Cardinality(T) \in Nat /\ rank[x] < Cardinality(T)
  <2>1. IsFiniteSet(T) /\ Below(x) \in SUBSET T /\ x \notin Below(x)
    <3>1. x \notin Below(x)
      BY DEF StrictOrder
    <3>2. IsFiniteSet(T)
      BY <1>2, FS_Subset
    <3> QED BY <1>2, <3>1, <3>2
  <2>2. IsFiniteSet(Below(x))
    BY <2>1, FS_Subset
  <2>3. /\ Cardinality(T) \in Nat /\ Cardinality(Below(x)) \in Nat
        /\ Cardinality(Below(x)) <= Cardinality(T)
        /\ Cardinality(Below(x)) # Cardinality(T)
    <3> HIDE DEF Below
    <3> QED BY <1>2, <2>1, <2>2, FS_Subset, FS_CardinalityType
  <2>4. rank[x] = Cardinality(Below(x))
    OBVIOUS
  <2> HIDE DEF Below, rank
  <2> QED BY <2>3, <2>4
<1>3. \A x \in S : rank[x] \in R
  <2> SUFFICES ASSUME NEW x \in S PROVE rank[x] \in R
    OBVIOUS
  <2>1. rank[x] \in Nat /\ rank[x] < n
    BY <1>2
  <2> HIDE DEF rank, n
  <2> QED BY <1>1, <2>1
<1>4. \A x, y \in S : <<x, y>> \in before => rank[x] < rank[y]
  <2> SUFFICES ASSUME NEW x \in S, NEW y \in S, <<x, y>> \in before
               PROVE  rank[x] < rank[y]
    OBVIOUS
  <2>1. Below(x) \subseteq Below(y) /\ x \in Below(y) /\ Below(y) \subseteq S
    BY DEF StrictOrder
  <2>2. rank[y] = Cardinality(Below(y))
    OBVIOUS
  <2> HIDE DEF Below, rank
  <2> QED BY <1>2, <2>1, <2>2
<1>5. \A x, y \in S : rank[x] = rank[y] => x = y
  <2> HIDE DEF rank, R, n
  <2> SUFFICES ASSUME NEW x \in S, NEW y \in S, rank[x] = rank[y], x # y
               PROVE  FALSE
    OBVIOUS
  <2>1. rank[x] \in Int /\ rank[y] \in Int
    BY <1>1, <1>3 DEF R
  <2>2. <<x, y>> \in before \/ <<y, x>> \in before
    BY DEF StrictOrder
  <2>3. rank[x] < rank[y] \/ rank[y] < rank[x]
    BY <1>4, <2>2
  <2> QED BY <2>1, <2>3
<1>6. \A i \in R : \E x \in S : rank[x] = i
  <2>1. rank \in [S -> R]
    BY <1>3
  <2>2. IsFiniteSet(R) /\ Cardinality(R) = n
    <3> HIDE DEF n
    <3>1. 0 \in Int /\ n - 1 \in Int
      BY <1>1
    <3> QED BY <1>1, <3>1, FS_Interval
  <2> HIDE DEF rank, R
  <2>3. rank \in Injection(S, R)
    BY <1>5, <2>1 DEF Injection, IsInjective
  <2>4. rank \in Surjection(S, R)
    BY <2>2, <2>3, FS_Injection
  <2> QED BY <2>4 DEF Surjection
<1>7. rank = RankIn(S, before)
  BY DEF RankIn
<1> HIDE DEF rank
<1> QED BY <1>1, <1>3, <1>4, <1>6, <1>7

LEMMA InOrderFacts ==
  ASSUME NEW S, IsFiniteSet(S), NEW before, StrictOrder(S, before)
  PROVE  LET order == InOrder(S, before)
         IN  /\ DOMAIN order = 1 .. Cardinality(S)
             /\ \A i \in DOMAIN order : order[i] \in S
             /\ \A i, j \in DOMAIN order :
                  <<order[i], order[j]>> \in before => i < j
<1>1. PICK order : order = InOrder(S, before)
  OBVIOUS
<1>2. PICK rank, n :
        /\ rank = RankIn(S, before) /\ n = Cardinality(S) /\ n \in Nat
        /\ \A x, y \in S : <<x, y>> \in before => rank[x] < rank[y]
        /\ \A i \in 0 .. n - 1 : \E x \in S : rank[x] = i
  BY RanksInOrder
<1>3. order = [i \in 1 .. n |->
                 CHOOSE x \in S :
                   Cardinality({y \in S : <<y, x>> \in before}) = i - 1]
  BY <1>1, <1>2 DEF InOrder
<1>4. \A i \in 1 .. n : order[i] \in S /\ rank[order[i]] = i - 1
  <2> SUFFICES ASSUME NEW i \in 1 .. n
               PROVE  order[i] \in S /\ rank[order[i]] = i - 1
    OBVIOUS
  <2> DEFINE Below(x) == Cardinality({y \in S : <<y, x>> \in before})
  <2>1. i - 1 \in 0 .. n - 1
    BY <1>2
  <2>2. \A x \in S : rank[x] = Below(x)
    BY <1>2 DEF RankIn
  <2>3. order[i] = CHOOSE x \in S : Below(x) = i - 1
    BY <1>3
  <2> HIDE DEF Below
  <2>4. \E x \in S : Below(x) = i - 1
    BY <1>2, <2>1, <2>2
  <2>5. order[i] \in S /\ Below(order[i]) = i - 1
    BY <2>3, <2>4
  <2> QED BY <2>2, <2>5
<1>5. DOMAIN order = 1 .. n
  BY <1>3
<1>6. ASSUME NEW i \in 1 .. n, NEW j \in 1 .. n, <<order[i], order[j]>> \in before
      PROVE  i < j
  <2>1. /\ rank[order[i]] = i - 1 /\ rank[order[j]] = j - 1
        /\ rank[order[i]] < rank[order[j]]
    BY <1>2, <1>4, <1>6
  <2> QED BY <1>2, <2>1
<1> QED BY <1>1, <1>2, <1>4, <1>5, <1>6

\* The risks listed are a sequence, not empty when the site is overloaded.
LEMMA TopRisksFacts ==
  ASSUME NEW view, NEW expensive, NEW top, top = TopRisks(view, expensive)
  PROVE  /\ Len(top) \in Nat
         /\ top = <<>> => Len(top) = 0
         /\ (\E c \in view.constraints :
               /\ c.severity = "critical"
               /\ c.code = "site_current_load_above_safe_capacity")
              => Len(top) > 0
<1>1. PICK codes : codes = {c.code : c \in {x \in view.constraints :
                                     x.severity \in {"critical", "warning"}}}
                             \cup {x \in {"expensive_tariff_active"} : expensive}
  OBVIOUS
<1>2. PICK places : places = {i \in DOMAIN RiskCodes : RiskCodes[i] \in codes}
  OBVIOUS
<1>3. PICK before : before = {x \in places \X places : x[1] < x[2]}
  OBVIOUS
<1>4. PICK sorted : sorted = InOrder(places, before)
  OBVIOUS
<1>5. top = [n \in {i \in DOMAIN sorted : i <= MaxTopRisks} |-> RiskCodes[sorted[n]]]
  BY <1>1, <1>2, <1>3, <1>4 DEF TopRisks
<1>6. places \in SUBSET (1 .. 6) /\ DOMAIN RiskCodes = 1 .. 6
  BY <1>2 DEF RiskCodes
<1>7. IsFiniteSet(places) /\ Cardinality(places) \in Nat
  <2>1. IsFiniteSet(1 .. 6)
    <3>1. 1 \in Int /\ 6 \in Int
      OBVIOUS
    <3> QED BY <3>1, FS_Interval
  <2>2. IsFiniteSet(places)
    BY <1>6, <2>1, FS_Subset
  <2> QED BY <2>2, FS_CardinalityType
<1>8. DOMAIN sorted = 1 .. Cardinality(places)
  BY <1>4 DEF InOrder
<1>9. PICK m \in Nat : /\ {i \in DOMAIN sorted : i <= MaxTopRisks} = 1 .. m
                       /\ Cardinality(places) > 0 => m > 0
  <2>1. CASE Cardinality(places) <= 4
    <3>1. {i \in DOMAIN sorted : i <= MaxTopRisks} = 1 .. Cardinality(places)
      BY <1>7, <1>8, <2>1 DEF MaxTopRisks
    <3> QED BY <1>7, <3>1
  <2>2. CASE Cardinality(places) > 4
    <3>1. {i \in DOMAIN sorted : i <= MaxTopRisks} = 1 .. 4
      BY <1>7, <1>8, <2>2 DEF MaxTopRisks
    <3> QED BY <3>1
  <2> QED BY <1>7, <2>1, <2>2
<1>10. Len(top) = m
  <2>1. top = [n \in 1 .. m |-> RiskCodes[sorted[n]]]
    BY <1>5, <1>9
  <2>2. DOMAIN top = 1 .. m
    BY <2>1
  <2> HIDE DEF RiskCodes
  <2>3. top \in Seq({RiskCodes[sorted[n]] : n \in 1 .. m})
    BY <2>1
  <2>4. Len(top) \in Nat /\ DOMAIN top = 1 .. Len(top)
    BY <2>3, LenProperties
  <2> QED BY <1>9, <2>2, <2>4
<1>11. ASSUME NEW c \in view.constraints, c.severity = "critical",
              c.code = "site_current_load_above_safe_capacity"
       PROVE  m > 0
  <2>1. c.code \in codes
    BY <1>1, <1>11
  <2>2. 5 \in places
    BY <1>2, <1>6, <1>11, <2>1 DEF RiskCodes
  <2>3. Cardinality(places) # 0
    BY <1>7, <2>2, FS_EmptySet
  <2> QED BY <1>7, <1>9, <2>3
<1> QED BY <1>9, <1>10, <1>11

\* An overview of a site whose load is above its safe capacity has a risk.
LEMMA OverviewFacts ==
  ASSUME NEW s, NEW at, NEW part, NEW overview, overview = OverviewOf(s, at, part)
  PROVE  /\ Len(overview.topRisks) \in Nat
         /\ overview.topRisks = <<>> => Len(overview.topRisks) = 0
         /\ overview.load > overview.allowed => Len(overview.topRisks) > 0
         /\ overview.expensive = part.expensive
         /\ overview.projection = ProjectionOf(s, at, part)
<1>1. PICK b : b = ComputeSiteBudget(InputOf(s, at, part.budget, NoAmbient))
  OBVIOUS
<1>2. PICK view : view = BuildOperationalView(b)
  OBVIOUS
<1>3. PICK projection : projection = ProjectionOf(s, at, part)
  OBVIOUS
<1>4. PICK top : top = TopRisks(view, part.expensive)
  OBVIOUS
<1>5. overview = BuildSiteOverview(view, projection, part.expensive)
  BY <1>1, <1>2, <1>3 DEF OverviewOf
<1>6. /\ overview.load = view.budget.load /\ overview.allowed = view.budget.safe
      /\ overview.topRisks = top /\ overview.expensive = part.expensive
      /\ overview.projection = projection
  BY <1>4, <1>5 DEF BuildSiteOverview
<1>7. view.budget = b /\ view.constraints = ActiveConstraints(b)
  BY <1>2 DEF BuildOperationalView
<1>8. PICK c : c = [scope |-> Site, severity |-> "critical",
                    code |-> "site_current_load_above_safe_capacity"]
  OBVIOUS
<1>9. b.load > b.safe => c \in ActiveConstraints(b)
  BY <1>8 DEF ActiveConstraints, Constraint
<1>10. /\ c.severity = "critical"
       /\ c.code = "site_current_load_above_safe_capacity"
  BY <1>8
<1>11. /\ Len(top) \in Nat
       /\ top = <<>> => Len(top) = 0
       /\ b.load > b.safe => Len(top) > 0
  BY <1>4, <1>7, <1>9, <1>10, TopRisksFacts
<1> QED BY <1>3, <1>6, <1>7, <1>11

\* The overviews of a campus are listed in a strict order.
LEMMA ListedInOrder ==
  ASSUME NEW overviews, IsFiniteSet(DOMAIN overviews),
         DOMAIN overviews \subseteq Nat,
         \A s \in DOMAIN overviews : /\ Len(overviews[s].topRisks) \in Nat
                                     /\ overviews[s].expensive \in BOOLEAN
  PROVE  LET order == BuildCampusOverview(overviews)
         IN  /\ \A i \in DOMAIN order : order[i] \in DOMAIN overviews
             /\ \A i, j \in DOMAIN order :
                  ListedBefore(overviews, order[i], order[j]) => i < j
<1> DEFINE sites == DOMAIN overviews
           before == {x \in sites \X sites : ListedBefore(overviews, x[1], x[2])}
           risks(s) == Len(overviews[s].topRisks)
           expensive(s) == overviews[s].expensive
<1>1. \A x, y \in sites :
        <<x, y>> \in before <=>
          \/ expensive(x) /\ ~expensive(y)
          \/ /\ expensive(x) = expensive(y)
             /\ risks(x) > risks(y) \/ (risks(x) = risks(y) /\ x < y)
  BY DEF ListedBefore
<1>2. \A s \in sites : risks(s) \in Nat /\ expensive(s) \in BOOLEAN /\ s \in Nat
  OBVIOUS
<1> HIDE DEF risks, expensive
<1>3. StrictOrder(sites, before)
  <2> HIDE DEF before, sites
  <2>1. \A x \in sites : <<x, x>> \notin before
    BY <1>1, <1>2
  <2>2. \A x, y \in sites : x # y => <<x, y>> \in before \/ <<y, x>> \in before
    BY <1>1, <1>2
  <2>3. \A x, y, z \in sites :
          <<x, y>> \in before /\ <<y, z>> \in before => <<x, z>> \in before
    BY <1>1, <1>2
  <2> QED BY <2>1, <2>2, <2>3 DEF StrictOrder
<1>4. PICK order : order = InOrder(sites, before)
  OBVIOUS
<1>5. order = BuildCampusOverview(overviews)
  BY <1>4 DEF BuildCampusOverview
<1>6. /\ \A i \in DOMAIN order : order[i] \in sites
      /\ \A i, j \in DOMAIN order : <<order[i], order[j]>> \in before => i < j
  <2> HIDE DEF before
  <2> QED BY <1>3, <1>4, InOrderFacts
<1> QED BY <1>5, <1>6
-----------------------------------------------------------------------------
(* The projection of a site.                                                *)

\* What is projected on a site of whole kilowatts is exact.
LEMMA SiteCapacity ==
  ASSUME NEW site, NEW k \in Nat, site.target = k * KW,
         site.reserve \in 0 .. 60, NEW ambient,
         NEW d \in Nat,
         d = AmbientDerateFactor(ambient, site.derateStart, site.deratePct)
  PROVE  SiteSafeCapacityForAmbient(site, ambient)
           = k * (100 * (d * (100 - site.reserve)))
<1>1. PICK reserve \in 0 .. 60 : reserve = site.reserve
  OBVIOUS
<1>2. Percent(site.target, d) = k * (10000 * d)
  <2>1. (k * 1000000) \div 100 = k * 10000
    OBVIOUS
  <2> QED BY <2>1 DEF Percent, KW
<1>3. Percent(k * (10000 * d), reserve) = k * (100 * (d * reserve))
  <2>1. PICK n \in Nat : n = k * d
    OBVIOUS
  <2>2. k * (10000 * d) = n * 10000
    BY <2>1
  <2>3. (n * 10000) \div 100 = n * 100
    OBVIOUS
  <2>4. (n * 100) * reserve = k * (100 * (d * reserve))
    BY <2>1
  <2> QED BY <2>2, <2>3, <2>4 DEF Percent
<1>4. k * (10000 * d) - k * (100 * (d * reserve)) = k * (100 * (d * (100 - reserve)))
  OBVIOUS
<1>5. k * (100 * (d * (100 - reserve))) \in Nat
  OBVIOUS
<1> QED BY <1>1, <1>2, <1>3, <1>4, <1>5 DEF SiteSafeCapacityForAmbient, Larger

LEMMA DerateFalls ==
  ASSUME NEW ambient \in Int, NEW warmer \in Int, ambient <= warmer,
         NEW start \in Int, NEW pct \in Nat
  PROVE  /\ AmbientDerateFactor(ambient, start, pct) \in Nat
         /\ AmbientDerateFactor(warmer, start, pct) \in Nat
         /\ AmbientDerateFactor(warmer, start, pct)
              <= AmbientDerateFactor(ambient, start, pct)
<1>1. PICK lost \in Int : lost = (ambient - start) * pct
  OBVIOUS
<1>2. PICK more \in Int : more = (warmer - start) * pct
  OBVIOUS
<1>3. lost <= more
  <2>1. (warmer - start) * pct = lost + (warmer - ambient) * pct
    BY <1>1
  <2>2. (warmer - ambient) * pct \in Nat
    <3>1. warmer - ambient \in Nat
      OBVIOUS
    <3> QED BY <3>1
  <2> QED BY <1>1, <1>2, <2>1, <2>2
<1>4. ambient > start => lost \in Nat
  <2>1. ambient > start => ambient - start \in Nat
    OBVIOUS
  <2> QED BY <1>1, <2>1
<1>5. /\ AmbientDerateFactor(ambient, start, pct)
           = IF pct <= 0 \/ ambient <= start THEN 100 ELSE Larger(100 - lost, 0)
      /\ AmbientDerateFactor(warmer, start, pct)
           = IF pct <= 0 \/ warmer <= start THEN 100 ELSE Larger(100 - more, 0)
  BY <1>1, <1>2 DEF AmbientDerateFactor
<1>6. /\ Larger(100 - lost, 0) \in Nat /\ Larger(100 - more, 0) \in Nat
      /\ Larger(100 - more, 0) <= Larger(100 - lost, 0)
      /\ ambient > start => Larger(100 - lost, 0) <= 100
      /\ warmer > start => Larger(100 - more, 0) <= 100
  <2>1. warmer > start => more \in Nat
    <3>1. warmer > start => warmer - start \in Nat
      OBVIOUS
    <3> QED BY <1>2, <3>1
  <2> QED BY <1>3, <1>4, <2>1 DEF Larger
<1> QED BY <1>5, <1>6

LEMMA ProductGrows ==
  ASSUME NEW k \in Nat, NEW r \in Nat, NEW c \in Nat, NEW d \in Nat, c <= d
  PROVE  k * (100 * (c * r)) <= k * (100 * (d * r))
<1>1. PICK more \in Nat : d = c + more
  <2>1. d - c \in Nat /\ d = c + (d - c)
    OBVIOUS
  <2> QED BY <2>1
<1>2. PICK extra \in Nat : extra = more * r
  OBVIOUS
<1>3. d * r = c * r + extra
  BY <1>1, <1>2
<1>4. k * (100 * (d * r)) = k * (100 * (c * r)) + k * (100 * extra)
  <2>1. PICK cr \in Nat : cr = c * r
    OBVIOUS
  <2>2. k * (100 * (cr + extra)) = k * (100 * cr) + k * (100 * extra)
    OBVIOUS
  <2> QED BY <1>3, <2>1, <2>2
<1>5. k * (100 * extra) \in Nat /\ k * (100 * (c * r)) \in Int
  OBVIOUS
<1> QED BY <1>4, <1>5

\* A warmer site can draw less.
LEMMA CapacityFalls ==
  ASSUME NEW site, site.target \in Nat, site.target % KW = 0,
         site.reserve \in 0 .. 60, site.derateStart \in Int,
         site.deratePct \in Nat,
         NEW ambient \in Int, NEW warmer \in Int, ambient <= warmer
  PROVE  /\ SiteSafeCapacityForAmbient(site, ambient) \in Nat
         /\ SiteSafeCapacityForAmbient(site, warmer) \in Nat
         /\ SiteSafeCapacityForAmbient(site, warmer)
              <= SiteSafeCapacityForAmbient(site, ambient)
<1>1. PICK target \in Nat : target = site.target
  OBVIOUS
<1>2. PICK k \in Nat : target = k * KW
  <2>1. target % 1000000 = 0
    BY <1>1 DEF KW
  <2>2. target \div 1000000 \in Nat /\ target = (target \div 1000000) * 1000000
    BY <2>1
  <2> QED BY <2>2 DEF KW
<1>3. PICK start \in Int, pct \in Nat :
        start = site.derateStart /\ pct = site.deratePct
  OBVIOUS
<1>4. PICK c \in Nat, d \in Nat :
        /\ d = AmbientDerateFactor(ambient, start, pct)
        /\ c = AmbientDerateFactor(warmer, start, pct)
        /\ c <= d
  <2>1. /\ AmbientDerateFactor(ambient, start, pct) \in Nat
        /\ AmbientDerateFactor(warmer, start, pct) \in Nat
        /\ AmbientDerateFactor(warmer, start, pct)
             <= AmbientDerateFactor(ambient, start, pct)
    BY DerateFalls
  <2> QED BY <2>1
<1>5. PICK r \in Nat : r = 100 - site.reserve
  <2>1. 100 - site.reserve \in Nat
    OBVIOUS
  <2> QED BY <2>1
<1>6. SiteSafeCapacityForAmbient(site, ambient) = k * (100 * (d * r))
  <2>1. site.target = k * KW
    BY <1>1, <1>2
  <2>2. d = AmbientDerateFactor(ambient, site.derateStart, site.deratePct)
    BY <1>3, <1>4
  <2>3. SiteSafeCapacityForAmbient(site, ambient)
          = k * (100 * (d * (100 - site.reserve)))
    BY <2>1, <2>2, SiteCapacity
  <2> QED BY <1>5, <2>3
<1>7. SiteSafeCapacityForAmbient(site, warmer) = k * (100 * (c * r))
  <2>1. site.target = k * KW
    BY <1>1, <1>2
  <2>2. c = AmbientDerateFactor(warmer, site.derateStart, site.deratePct)
    BY <1>3, <1>4
  <2>3. SiteSafeCapacityForAmbient(site, warmer)
          = k * (100 * (c * (100 - site.reserve)))
    BY <2>1, <2>2, SiteCapacity
  <2> QED BY <1>5, <2>3
<1>8. k * (100 * (d * r)) \in Nat /\ k * (100 * (c * r)) \in Nat
  OBVIOUS
<1>9. k * (100 * (c * r)) <= k * (100 * (d * r))
  BY <1>4, ProductGrows
<1> QED BY <1>6, <1>7, <1>8, <1>9

\* The site's own capacity in a budget is that of the projection.
LEMMA OwnCapacity ==
  ASSUME NEW site, site.target \in Nat, site.target % KW = 0,
         NEW load, NEW ambient,
         NEW own, own = ComputeAssetBudget(
                          [nominal |-> site.target, margin |-> site.reserve,
                           derateStart |-> site.derateStart,
                           deratePct |-> site.deratePct, status |-> "active",
                           maintenance |-> FALSE], load, ambient)
  PROVE  own.safe = SiteSafeCapacityForAmbient(site, ambient)
<1>1. PICK asset : asset = [nominal |-> site.target, margin |-> site.reserve,
                            derateStart |-> site.derateStart,
                            deratePct |-> site.deratePct, status |-> "active",
                            maintenance |-> FALSE]
  OBVIOUS
<1>2. /\ asset.nominal = site.target /\ asset.margin = site.reserve
      /\ asset.derateStart = site.derateStart
      /\ asset.deratePct = site.deratePct /\ asset.status = "active"
      /\ asset.maintenance = FALSE
  BY <1>1
<1>3. Percent(site.target, 100) = site.target
  <2>1. PICK target \in Nat : target = site.target
    OBVIOUS
  <2>2. target % 1000000 = 0
    BY <2>1 DEF KW
  <2>3. (target \div 100) * 100 = target
    BY <2>2
  <2> QED BY <2>1, <2>3 DEF Percent
<1>4. PICK derate : derate = AmbientDerateFactor(ambient, site.derateStart,
                                                 site.deratePct)
  OBVIOUS
<1>5. PICK effective : effective = Percent(site.target, derate)
  OBVIOUS
<1>6. PICK safe : safe = Larger(effective - Percent(effective, site.reserve), 0)
  OBVIOUS
<1>7. SiteSafeCapacityForAmbient(site, ambient) = safe
  BY <1>4, <1>5, <1>6 DEF SiteSafeCapacityForAmbient
<1>8. own = [load |-> load, safe |-> safe, available |-> Larger(safe - load, 0)]
  <2>1. own = ComputeAssetBudget(asset, load, ambient)
    BY <1>1
  <2>2. (IF asset.maintenance THEN 0 ELSE StatusFactor(asset.status)) = 100
    BY <1>2 DEF StatusFactor
  <2> QED BY <1>2, <1>3, <1>4, <1>5, <1>6, <2>1, <2>2 DEF ComputeAssetBudget
<1> QED BY <1>7, <1>8

\* An hour over the capacity alone makes the risk high.
LEMMA ScoreOfOverload ==
  ASSUME NEW load \in Int, NEW safe \in Nat, safe > 0, load >= safe,
         NEW ambientScore \in Nat, NEW eventScore \in Nat
  PROVE  RiskLevel(LoadScore(load, safe) + ambientScore + eventScore)
           \in {"high", "critical"}
<1>1. LoadScore(load, safe) = 65
  <2>1. PICK hundredth \in Nat : hundredth = safe \div 100 /\ 100 * hundredth <= safe
    <3>1. safe \div 100 \in Nat /\ 100 * (safe \div 100) <= safe
      OBVIOUS
    <3> QED BY <3>1
  <2>2. ~(load < Percent(safe, 92))
    BY <2>1 DEF Percent
  <2> QED BY <2>2 DEF LoadScore
<1>2. PICK score \in Nat : /\ score = LoadScore(load, safe) + ambientScore + eventScore
                           /\ score >= 65
  BY <1>1
<1> QED BY <1>2 DEF RiskLevel

LEMMA ScoresAreNats ==
  ASSUME NEW site, site.derateStart \in Int, NEW ambient \in Int,
         NEW base, base.critical \in Int, base.errorPct \in Int, NEW expensive
  PROVE  AmbientScore(site, ambient) \in Nat /\ EventScore(base, expensive) \in Nat
<1>1. AmbientScore(site, ambient) \in Nat
  BY DEF AmbientScore
<1>2. PICK n \in Nat : n = MinPositive({base.critical * 6, 18})
  <2>1. {base.critical * 6, 18} \subseteq Int
    OBVIOUS
  <2> QED BY <2>1, MinPositiveFacts
<1>3. EventScore(base, expensive) \in Nat
  BY <1>2 DEF EventScore
<1> QED BY <1>1, <1>3

\* The samples of some hours are integers.
LEMMA SampleFacts ==
  ASSUME NEW hours \in Histories, NEW samples,
         samples = [i \in DOMAIN hours |-> HourlySample(hours[i])]
  PROVE  /\ Len(samples) \in Nat
         /\ DOMAIN samples = 1 .. Len(samples)
         /\ \A i \in 1 .. Len(samples) :
              /\ samples[i].load \in Int /\ samples[i].ambient \in Int
              /\ samples[i].critical \in Int /\ samples[i].errorPct \in Int
<1> DEFINE H == [perMiner : Nat, load : Int, ambient : Int, critical : Nat,
                 errorPct : Int]
<1>1. hours \in Seq(H)
  BY HistoriesAssumption
<1> HIDE DEF H
<1>2. PICK n \in Nat : n = Len(hours) /\ DOMAIN hours = 1 .. n
  BY <1>1, LenProperties
<1>3. ASSUME NEW i \in 1 .. n
      PROVE  /\ samples[i].load \in Int /\ samples[i].ambient \in Int
             /\ samples[i].critical \in Int /\ samples[i].errorPct \in Int
  <2>1. PICK hour \in H : hour = hours[i]
    BY <1>1, <1>2, <1>3, ElementOfSeq
  <2>2. /\ hour.perMiner \in Nat /\ hour.load \in Int /\ hour.ambient \in Int
        /\ hour.critical \in Nat /\ hour.errorPct \in Int
    BY <2>1 DEF H
  <2>3. PICK load \in Int : load = hour.perMiner * hour.load
    BY <2>2
  <2>4. samples[i] = [load |-> load, ambient |-> hour.ambient,
                      critical |-> hour.critical, errorPct |-> hour.errorPct]
    BY <1>2, <2>1, <2>3 DEF HourlySample
  <2> QED BY <2>2, <2>4
<1>4. Len(samples) = n /\ DOMAIN samples = 1 .. n
  <2>1. DOMAIN samples = 1 .. n
    BY <1>2
  <2>2. samples \in Seq({samples[i] : i \in 1 .. n})
    BY <1>2
  <2>3. Len(samples) \in Nat /\ DOMAIN samples = 1 .. Len(samples)
    BY <2>2, LenProperties
  <2> QED BY <1>2, <2>1, <2>3
<1> QED BY <1>3, <1>4

\* The fields of the hour a projection starts from are integers.
LEMMA BaseFacts ==
  ASSUME NEW hours \in Histories, NEW samples,
         samples = [i \in DOMAIN hours |-> HourlySample(hours[i])],
         NEW b, b.load \in Int, b.ambient \in Int, NEW base,
         base = BaseOf(b, samples)
  PROVE  /\ base.load \in Int /\ base.ambient \in Int
         /\ base.critical \in Int /\ base.errorPct \in Int
<1>1. PICK n \in Nat : n = Len(samples)
  BY SampleFacts
<1>2. DOMAIN samples = 1 .. n
  BY <1>1, SampleFacts
<1>3. ASSUME NEW i \in 1 .. n
      PROVE  /\ samples[i].load \in Int /\ samples[i].ambient \in Int
             /\ samples[i].critical \in Int /\ samples[i].errorPct \in Int
  BY <1>1, SampleFacts
<1>4. Len(samples) = n
  BY <1>1
<1>5. CASE n = 0
  <2>1. samples = <<>>
    BY <1>2, <1>5
  <2>2. base = [load |-> b.load, ambient |-> b.ambient, critical |-> 0,
                errorPct |-> 0]
    BY <2>1 DEF BaseOf
  <2> QED BY <2>2
<1>6. CASE n # 0
  <2>1. samples # <<>>
    <3>1. 1 \in DOMAIN samples
      BY <1>2, <1>6
    <3>2. DOMAIN <<>> = {}
      OBVIOUS
    <3> QED BY <3>1, <3>2
  <2>2. PICK last : last = samples[n]
    OBVIOUS
  <2>3. base = [load |-> IF last.load > 0 THEN last.load ELSE b.load,
                ambient |-> IF last.ambient > 0 THEN last.ambient ELSE b.ambient,
                critical |-> last.critical, errorPct |-> last.errorPct]
    BY <1>4, <2>1, <2>2 DEF BaseOf
  <2>4. /\ last.load \in Int /\ last.ambient \in Int
        /\ last.critical \in Int /\ last.errorPct \in Int
    BY <1>3, <1>6, <2>2
  <2> QED BY <2>3, <2>4
<1> QED BY <1>5, <1>6

\* So is the trend.
LEMMA TrendFacts ==
  ASSUME NEW hours \in Histories, NEW samples,
         samples = [i \in DOMAIN hours |-> HourlySample(hours[i])]
  PROVE  TrendOf(samples).load \in Int /\ TrendOf(samples).ambient \in Int
<1>1. PICK n \in Nat : n = Len(samples)
  BY SampleFacts
<1>2. CASE n - 1 < 1
  <2>1. TrendOf(samples) = [load |-> 0, ambient |-> 0]
    BY <1>1, <1>2 DEF TrendOf
  <2> QED BY <2>1
<1>3. CASE ~(n - 1 < 1)
  <2>1. PICK m \in Nat \ {0} : m = n - 1
    BY <1>3
  <2>2. PICK first, last : first = samples[1] /\ last = samples[n]
    OBVIOUS
  <2>3. /\ first.load \in Int /\ first.ambient \in Int
        /\ last.load \in Int /\ last.ambient \in Int
    <3>1. 1 \in 1 .. n /\ n \in 1 .. n
      BY <1>3
    <3> QED BY <1>1, <2>2, <3>1, SampleFacts
  <2>4. PICK load \in Int, ambient \in Int :
          /\ load = (last.load - first.load) \div m
          /\ ambient = (last.ambient - first.ambient) \div m
    <3>1. /\ (last.load - first.load) \div m \in Int
          /\ (last.ambient - first.ambient) \div m \in Int
      BY <2>3
    <3> QED BY <3>1
  <2>5. TrendOf(samples) = [load |-> Within(load, -60 * KW, 60 * KW),
                            ambient |-> Within(ambient, -4, 4)]
    BY <1>1, <1>3, <2>1, <2>2, <2>4 DEF TrendOf
  <2>6. Within(load, -60 * KW, 60 * KW) \in Int /\ Within(ambient, -4, 4) \in Int
    BY DEF Within, KW
  <2> QED BY <2>5, <2>6
<1> QED BY <1>2, <1>3

\* Where neither load nor ambient fall, an overload now is a risk in each hour.
LEMMA ProjectionOfOverload ==
  ASSUME NEW site, site.target \in Nat, site.target % KW = 0,
         site.reserve \in 0 .. 60, site.derateStart \in Int,
         site.deratePct \in Nat,
         NEW b, NEW samples, NEW expensive,
         NEW base, base = BaseOf(b, samples),
         base.load \in Int, base.ambient \in Int,
         base.critical \in Int, base.errorPct \in Int,
         NEW trend, trend = TrendOf(samples),
         trend.load \in Nat, trend.ambient \in Nat,
         base.load >= SiteSafeCapacityForAmbient(site, base.ambient),
         NEW h \in 1 .. Horizon,
         NEW point, point = ProjectSiteRisk(site, b, samples, expensive)[h],
         point.safe > 0
  PROVE  point.level \in {"high", "critical"}
<1>1. h \in Nat
  BY DEF Horizon
<1>2. PICK ambient \in Int : /\ ambient = Larger(base.ambient + h * trend.ambient, -40)
                             /\ base.ambient <= ambient
  <2>1. h * trend.ambient \in Nat
    BY <1>1
  <2>2. PICK rise \in Nat : rise = h * trend.ambient
    BY <2>1
  <2> QED BY <2>2 DEF Larger
<1>3. PICK load \in Int : /\ load = Larger(base.load + h * trend.load, 0)
                          /\ base.load <= load
  <2>1. h * trend.load \in Nat
    BY <1>1
  <2>2. PICK rise \in Nat : rise = h * trend.load
    BY <2>1
  <2> QED BY <2>2 DEF Larger
<1>4. PICK safe \in Nat : /\ safe = SiteSafeCapacityForAmbient(site, ambient)
                          /\ safe <= SiteSafeCapacityForAmbient(site, base.ambient)
                          /\ SiteSafeCapacityForAmbient(site, base.ambient) \in Nat
  <2>1. /\ SiteSafeCapacityForAmbient(site, base.ambient) \in Nat
        /\ SiteSafeCapacityForAmbient(site, ambient) \in Nat
        /\ SiteSafeCapacityForAmbient(site, ambient)
             <= SiteSafeCapacityForAmbient(site, base.ambient)
    BY <1>2, CapacityFalls
  <2> QED BY <2>1
<1>5. PICK ofAmbient \in Nat, ofEvents \in Nat :
        /\ ofAmbient = AmbientScore(site, ambient)
        /\ ofEvents = EventScore(base, expensive)
  <2>1. AmbientScore(site, ambient) \in Nat /\ EventScore(base, expensive) \in Nat
    BY ScoresAreNats
  <2> QED BY <2>1
<1>6. PICK score : score = LoadScore(load, safe) + ofAmbient + ofEvents
  OBVIOUS
<1>7. point = [load |-> load, safe |-> safe, margin |-> safe - load,
               ambient |-> ambient, score |-> score, level |-> RiskLevel(score)]
  BY <1>2, <1>3, <1>4, <1>5, <1>6 DEF ProjectSiteRisk
<1>8. point.safe = safe /\ point.level = RiskLevel(score)
  BY <1>7
<1>9. safe > 0 /\ load >= safe
  BY <1>3, <1>4, <1>8
<1> QED BY <1>6, <1>8, <1>9, ScoreOfOverload

(* A site whose last hour was over its own capacity, and whose load and      *)
(* ambient temperature are not projected to fall, is at high risk in every   *)
(* projected hour in which it can draw anything; and the campus overview     *)
(* never lists a site whose budget is overloaded after one of the same       *)
(* tariff that has no risk at all.                                           *)
THEOREM RiskSeesOverloadHolds == Spec => []RiskSeesOverload
<1>1. ASSUME AInv, OInv, request.pc = "answered", request.kind = "overview"
      PROVE  RiskSeesOverload
  <2>1. PICK overviews, parts :
          overviews = request.answer /\ parts = request.parts
    OBVIOUS
  <2>2. /\ overviews = OverviewsOf(request) /\ DOMAIN parts \subseteq Sites
        /\ \A s \in DOMAIN parts : Projected(parts[s])
    BY <1>1, <2>1 DEF OInv, OverviewInv, Working, InputStages
  <2>3. /\ DOMAIN overviews = DOMAIN parts
        /\ \A s \in DOMAIN parts : overviews[s] = OverviewOf(s, request.at, parts[s])
    BY <2>1, <2>2 DEF OverviewsOf
  <2>4. IsFiniteSet(DOMAIN parts) /\ DOMAIN parts \subseteq Nat
    <3>1. IsFiniteSet(Sites) /\ Sites \subseteq Nat
      BY <1>1, InventoriesAssumption DEF AInv, TablesInv, Sites
    <3>2. DOMAIN parts \in SUBSET Sites
      BY <2>2
    <3>3. IsFiniteSet(DOMAIN parts)
      BY <3>1, <3>2, FS_Subset
    <3> QED BY <2>2, <3>1, <3>3
  <2>5. ASSUME NEW s \in DOMAIN overviews
        PROVE  /\ Len(overviews[s].topRisks) \in Nat
               /\ overviews[s].topRisks = <<>> => Len(overviews[s].topRisks) = 0
               /\ overviews[s].load > overviews[s].allowed =>
                    Len(overviews[s].topRisks) > 0
               /\ overviews[s].expensive \in BOOLEAN
               /\ overviews[s].projection = ProjectionOf(s, request.at, parts[s])
    BY <2>2, <2>3, OverviewFacts DEF Projected
  <2>6. PICK order : order = BuildCampusOverview(overviews)
    OBVIOUS
  <2>7. /\ \A i \in DOMAIN order : order[i] \in DOMAIN overviews
        /\ \A i, j \in DOMAIN order :
             ListedBefore(overviews, order[i], order[j]) => i < j
    <3>1. /\ IsFiniteSet(DOMAIN overviews) /\ DOMAIN overviews \subseteq Nat
          /\ \A s \in DOMAIN overviews :
               /\ Len(overviews[s].topRisks) \in Nat
               /\ overviews[s].expensive \in BOOLEAN
      BY <2>3, <2>4, <2>5
    <3> QED BY <2>6, <3>1, ListedInOrder
  <2>8. ASSUME NEW i \in DOMAIN order, NEW j \in DOMAIN order,
               overviews[order[i]].topRisks = <<>>,
               overviews[order[j]].load > overviews[order[j]].allowed,
               overviews[order[i]].expensive = overviews[order[j]].expensive
        PROVE  j < i
    <3>1. order[i] \in DOMAIN overviews /\ order[j] \in DOMAIN overviews
      BY <2>7
    <3>2. PICK m, n : /\ m = Len(overviews[order[i]].topRisks)
                      /\ n = Len(overviews[order[j]].topRisks)
      OBVIOUS
    <3>3. m = 0 /\ n > 0
      BY <2>5, <2>8, <3>1, <3>2
    <3>4. ListedBefore(overviews, order[j], order[i])
      BY <2>8, <3>2, <3>3 DEF ListedBefore
    <3> QED BY <2>7, <3>4
  <2>9. ASSUME NEW s \in DOMAIN parts, NEW site, site = inventory[s].site,
               NEW samples,
               samples = [i \in DOMAIN parts[s].hours |->
                            HourlySample(parts[s].hours[i])],
               NEW b, b = ComputeSiteBudget(InputOf(s, request.at, parts[s].risk,
                                                    NoAmbient)),
               NEW base, base = BaseOf(b, samples),
               NEW own, own = ComputeAssetBudget(
                                [nominal |-> site.target, margin |-> site.reserve,
                                 derateStart |-> site.derateStart,
                                 deratePct |-> site.deratePct,
                                 status |-> "active", maintenance |-> FALSE],
                                base.load, base.ambient),
               base.load >= own.safe, TrendOf(samples).load >= 0,
               TrendOf(samples).ambient >= 0,
               NEW h \in 1 .. Horizon, NEW point,
               point = overviews[s].projection[h], point.safe > 0
        PROVE  point.level \in {"high", "critical"}
    <3>1. parts[s].hours \in Histories /\ Read(parts[s].risk) /\ s \in Sites
      BY <2>2 DEF Projected
    <3>2. /\ site.target \in Nat /\ site.target % KW = 0
          /\ site.reserve \in 0 .. 60 /\ site.derateStart \in Int
          /\ site.deratePct \in Nat
      <4>1. SiteTables(site, inventory[s].assets, inventory[s].racks)
        BY <1>1, <2>9, <3>1, InventoriesAssumption DEF AInv, TablesInv, Sites
      <4> QED BY <4>1 DEF SiteTables, IntColumns
    <3>3. b.load \in Int /\ b.ambient \in Int
      <4>1. PICK in : in = InputOf(s, request.at, parts[s].risk, NoAmbient)
        OBVIOUS
      <4>2. Numeric(in)
        BY <1>1, <3>1, <4>1, InputNumeric DEF AInv
      <4>3. b.load = SiteLoad(in) /\ SiteLoad(in) \in Int
        BY <2>9, <4>1, <4>2, SiteBudgetFacts, LoadsAreInts
      <4>4. b.ambient = in.ambient
        BY <2>9, <4>1 DEF ComputeSiteBudget
      <4>5. in.ambient \in Int
        BY <4>2 DEF Numeric
      <4> QED BY <4>3, <4>4, <4>5
    <3>4. /\ base.load \in Int /\ base.ambient \in Int
          /\ base.critical \in Int /\ base.errorPct \in Int
      BY <2>9, <3>1, <3>3, BaseFacts
    <3>5. PICK trend : trend = TrendOf(samples)
      OBVIOUS
    <3>6. trend.load \in Nat /\ trend.ambient \in Nat
      <4>1. trend.load \in Int /\ trend.ambient \in Int
        BY <2>9, <3>1, <3>5, TrendFacts
      <4>2. trend.load >= 0 /\ trend.ambient >= 0
        BY <2>9, <3>5
      <4> QED BY <4>1, <4>2
    <3>7. own.safe = SiteSafeCapacityForAmbient(site, base.ambient)
      <4>1. site.target \in Nat /\ site.target % KW = 0
        BY <3>2
      <4>2. own = ComputeAssetBudget(
                    [nominal |-> site.target, margin |-> site.reserve,
                     derateStart |-> site.derateStart,
                     deratePct |-> site.deratePct, status |-> "active",
                     maintenance |-> FALSE], base.load, base.ambient)
        BY <2>9
      <4> QED BY <4>1, <4>2, OwnCapacity
    <3>8. point = ProjectSiteRisk(site, b, samples, parts[s].expensive)[h]
      BY <2>3, <2>5, <2>9 DEF ProjectionOf
    <3>9. base.load >= SiteSafeCapacityForAmbient(site, base.ambient)
      <4>1. base.load >= own.safe
        BY <2>9
      <4> QED BY <3>7, <4>1
    <3>10. base = BaseOf(b, samples) /\ point.safe > 0
      BY <2>9
    <3> QED BY <3>2, <3>4, <3>5, <3>6, <3>8, <3>9, <3>10, ProjectionOfOverload
  <2> QED BY <2>1, <2>6, <2>8, <2>9 DEF RiskSeesOverload
<1>2. IInv /\ AInv /\ OInv => RiskSeesOverload
  BY <1>1 DEF RiskSeesOverload, Answered
<1> QED BY <1>2, OInvHolds, PTL
-----------------------------------------------------------------------------
(* What the policy advises, round by round.                                 *)

\* What holds of 0, and of k + 1 when it holds of k, holds up to n.
LEMMA CountingUp ==
  ASSUME NEW n \in Nat, NEW P, 0 \in P,
         \A k \in 0 .. n - 1 : k \in P => k + 1 \in P
  PROVE  \A k \in 0 .. n : k \in P
<1> SUFFICES ASSUME NEW k \in 0 .. n, k \notin P PROVE FALSE
  OBVIOUS
<1> DEFINE Bad == {i \in Nat : i <= n /\ i \notin P}
<1>1. PICK m \in Bad : \A i \in Bad : m <= i
  <2>1. Bad \subseteq Nat /\ Bad # {}
    OBVIOUS
  <2> HIDE DEF Bad
  <2> QED BY <2>1, LeastNat
<1>2. m # 0 /\ m \in Nat /\ m <= n /\ m \notin P
  OBVIOUS
<1>3. m - 1 \in 0 .. n - 1 /\ m - 1 \in Nat /\ m - 1 <= n
  BY <1>2
<1>4. m - 1 \in P
  <2>1. ~(m <= m - 1)
    BY <1>2
  <2>2. m - 1 \notin Bad
    BY <1>1, <2>1
  <2> QED BY <1>3, <2>2
<1> QED BY <1>2, <1>3, <1>4

\* An order lists every element, each at one place.
LEMMA InOrderListsAll ==
  ASSUME NEW S, IsFiniteSet(S), NEW before, StrictOrder(S, before)
  PROVE  LET order == InOrder(S, before)
         IN  /\ Cardinality(S) \in Nat
             /\ \A x \in S : \E i \in DOMAIN order : order[i] = x
             /\ \A i, j \in DOMAIN order : order[i] = order[j] => i = j
<1>1. PICK order : order = InOrder(S, before)
  OBVIOUS
<1>2. PICK rank, n :
        /\ rank = RankIn(S, before) /\ n = Cardinality(S) /\ n \in Nat
        /\ \A x \in S : rank[x] \in 0 .. n - 1
        /\ \A x, y \in S : <<x, y>> \in before => rank[x] < rank[y]
        /\ \A i \in 0 .. n - 1 : \E x \in S : rank[x] = i
  BY RanksInOrder
<1>3. order = [i \in 1 .. n |->
                 CHOOSE x \in S :
                   Cardinality({y \in S : <<y, x>> \in before}) = i - 1]
  BY <1>1, <1>2 DEF InOrder
<1>4. ASSUME NEW i \in 1 .. n
      PROVE  order[i] \in S /\ rank[order[i]] = i - 1
  <2> DEFINE Below(x) == Cardinality({y \in S : <<y, x>> \in before})
  <2>1. i - 1 \in 0 .. n - 1
    BY <1>2
  <2>2. \A x \in S : rank[x] = Below(x)
    BY <1>2 DEF RankIn
  <2>3. order[i] = CHOOSE x \in S : Below(x) = i - 1
    BY <1>3
  <2> HIDE DEF Below
  <2>4. \E x \in S : Below(x) = i - 1
    BY <1>2, <2>1, <2>2
  <2>5. order[i] \in S /\ Below(order[i]) = i - 1
    BY <2>3, <2>4
  <2> QED BY <2>2, <2>5
<1>5. DOMAIN order = 1 .. n
  BY <1>3
<1>6. ASSUME NEW x \in S PROVE \E i \in 1 .. n : order[i] = x
  <2>1. PICK i \in 1 .. n : i = rank[x] + 1
    <3>1. rank[x] \in 0 .. n - 1
      BY <1>2
    <3>2. rank[x] + 1 \in 1 .. n
      BY <1>2, <3>1
    <3> QED BY <3>2
  <2>2. order[i] \in S /\ rank[order[i]] = rank[x] /\ rank[x] \in Int
    <3>1. rank[x] \in 0 .. n - 1
      BY <1>2
    <3>2. rank[order[i]] = i - 1 /\ order[i] \in S
      BY <1>4
    <3> QED BY <1>2, <2>1, <3>1, <3>2
  <2>3. order[i] = x
    <3> SUFFICES ASSUME order[i] # x PROVE FALSE
      OBVIOUS
    <3>1. <<order[i], x>> \in before \/ <<x, order[i]>> \in before
      BY <2>2 DEF StrictOrder
    <3>2. rank[order[i]] < rank[x] \/ rank[x] < rank[order[i]]
      BY <1>2, <2>2, <3>1
    <3> QED BY <2>2, <3>2
  <2> QED BY <2>3
<1>7. ASSUME NEW i \in 1 .. n, NEW j \in 1 .. n, order[i] = order[j] PROVE i = j
  <2>1. i - 1 = j - 1
    BY <1>4, <1>7
  <2> QED BY <1>2, <2>1
<1> QED BY <1>1, <1>2, <1>5, <1>6, <1>7

\* The rounds of the loop follow each other.
LEMMA RoundsFollow ==
  ASSUME NEW b, NEW order, Len(order) \in Nat
  PROVE  LET acc == Considered(b, order)
         IN  /\ acc[0] = [left |-> Larger(b.load - b.safe, 0), items |-> <<>>]
             /\ \A n \in 0 .. Len(order) - 1 :
                  acc[n + 1] = Consider(b, acc[n], order[n + 1])
<1>1. PICK n \in Nat : n = Len(order)
  OBVIOUS
<1>2. PICK start : start = [left |-> Larger(b.load - b.safe, 0), items |-> <<>>]
  OBVIOUS
<1> DEFINE Rounds(f, m) ==
             f = [k \in 0 .. m |-> IF k = 0 THEN start
                                   ELSE Consider(b, f[k - 1], order[k])]
           P == {m \in 0 .. n : \E f : Rounds(f, m)}
<1>3. 0 \in P
  <2>1. PICK f : f = [k \in 0 .. 0 |-> start]
    OBVIOUS
  <2>2. Rounds(f, 0)
    BY <2>1
  <2> QED BY <1>1, <2>2
<1>4. ASSUME NEW m \in 0 .. n - 1, m \in P PROVE m + 1 \in P
  <2>1. PICK f : Rounds(f, m)
    BY <1>4
  <2>2. PICK g : g = [k \in 0 .. m + 1 |->
                        IF k <= m THEN f[k] ELSE Consider(b, f[m], order[m + 1])]
    OBVIOUS
  <2>3. ASSUME NEW k \in 0 .. m + 1
        PROVE  g[k] = IF k = 0 THEN start ELSE Consider(b, g[k - 1], order[k])
    <3>1. CASE k = 0
      <4>1. f[0] = start /\ 0 <= m
        BY <2>1
      <4> QED BY <2>2, <3>1, <4>1
    <3>2. CASE k # 0 /\ k <= m
      <4>1. k - 1 \in 0 .. m + 1 /\ k - 1 <= m /\ k \in 0 .. m
        BY <3>2
      <4>2. f[k] = Consider(b, f[k - 1], order[k])
        BY <2>1, <3>2, <4>1
      <4> QED BY <2>2, <3>2, <4>1, <4>2
    <3>3. CASE k = m + 1
      <4>1. m \in 0 .. m + 1 /\ m <= m /\ ~(k <= m) /\ k # 0 /\ k - 1 = m
        BY <3>3
      <4>2. g[m] = f[m] /\ g[k] = Consider(b, f[m], order[m + 1])
        BY <2>2, <4>1
      <4> QED BY <3>3, <4>1, <4>2
    <3> QED BY <3>1, <3>2, <3>3
  <2>4. Rounds(g, m + 1)
    BY <2>2, <2>3
  <2> QED BY <1>1, <2>4
<1>5. n \in P
  <2> HIDE DEF P
  <2>1. \A k \in 0 .. n : k \in P
    BY <1>3, <1>4, CountingUp
  <2> QED BY <1>1, <2>1
<1>6. PICK acc : acc = Considered(b, order)
  OBVIOUS
<1>7. Rounds(acc, n)
  <2>1. acc = CHOOSE f : Rounds(f, n)
    BY <1>1, <1>2, <1>6 DEF Considered
  <2>2. \E f : Rounds(f, n)
    BY <1>5
  <2> HIDE DEF Rounds
  <2> QED BY <2>1, <2>2
<1>8. acc[0] = start
  BY <1>1, <1>7
<1>9. ASSUME NEW k \in 0 .. n - 1
      PROVE  acc[k + 1] = Consider(b, acc[k], order[k + 1])
  <2>1. k + 1 \in 0 .. n /\ k + 1 # 0 /\ (k + 1) - 1 = k
    BY <1>1
  <2> QED BY <1>7, <2>1
<1> QED BY <1>1, <1>2, <1>6, <1>8, <1>9

LEMMA MinPositiveMember ==
  ASSUME NEW S, S \subseteq Int, NEW y \in S, y >= 0
  PROVE  MinPositive(S) \in S
<1> DEFINE P == {x \in S : x >= 0}
<1>1. P \subseteq Nat /\ y \in P
  <2>1. \A x \in Int : x >= 0 => x \in Nat
    OBVIOUS
  <2> QED BY <2>1
<1>2. \E x \in P : \A z \in P : x <= z
  <2> HIDE DEF P
  <2> QED BY <1>1, LeastNat
<1>3. Min(P) \in P
  BY <1>2 DEF Min
<1>4. MinPositive(S) = Min(P)
  BY <1>1 DEF MinPositive
<1> QED BY <1>3, <1>4

\* A rack that draws power can give some of it, within its load and its ramp.
LEMMA CapFacts ==
  ASSUME NEW rack, rack.load \in Int, rack.load > 0,
         rack.downLeft \in Int, rack.downLeft > 0
  PROVE  /\ ReductionCap(rack) \in Nat /\ ReductionCap(rack) > 0
         /\ ReductionCap(rack) <= rack.load
         /\ ReductionCap(rack) <= rack.downLeft
<1>1. PICK S : S = {rack.load, rack.downLeft}
  OBVIOUS
<1>2. PICK cap : cap = MinPositive(S)
  OBVIOUS
<1>3. S \subseteq Int /\ rack.load \in S /\ rack.load >= 0
  BY <1>1
<1>4. cap \in Nat /\ \A x \in S : x >= 0 => cap <= x
  BY <1>2, <1>3, MinPositiveFacts
<1>5. cap \in S
  BY <1>2, <1>3, MinPositiveMember
<1>6. ReductionCap(rack) = cap
  BY <1>1, <1>2 DEF ReductionCap
<1> QED BY <1>1, <1>4, <1>5, <1>6

Item == [rack : Nat, action : {"isolate", "curtail", "escalate"},
         requested : Int, recommended : Int]

\* One more recommendation adds what it asks for to the sum of its action.
LEMMA ReductionsGrow ==
  ASSUME NEW items \in Seq(Item), NEW x \in Item, NEW action
  PROVE  LET more == Append(items, x)
         IN  /\ more \in Seq(Item) /\ DOMAIN more = DOMAIN items \cup {Len(items) + 1}
             /\ Len(items) + 1 \notin DOMAIN items
             /\ \A i \in DOMAIN items : more[i] = items[i]
             /\ more[Len(items) + 1] = x
             /\ ReductionsOf(items, action) \in Int
             /\ ReductionsOf(more, action) = ReductionsOf(items, action)
                  + (IF x.action = action THEN -x.recommended ELSE 0)
<1>1. PICK more : more = Append(items, x)
  OBVIOUS
<1>2. PICK n \in Nat : n = Len(items) /\ DOMAIN items = 1 .. n
  BY LenProperties
<1>3. /\ more \in Seq(Item) /\ Len(more) = n + 1 /\ DOMAIN more = 1 .. n + 1
      /\ \A i \in 1 .. n : more[i] = items[i]
      /\ more[n + 1] = x
  BY <1>1, <1>2, AppendProperties
<1>4. 1 .. n + 1 = (1 .. n) \cup {n + 1} /\ n + 1 \notin 1 .. n
  BY <1>2
<1>5. IsFiniteSet(1 .. n)
  <2>1. 1 \in Int /\ n \in Int
    BY <1>2
  <2> QED BY <2>1, FS_Interval
<1>6. PICK f : f = [i \in DOMAIN items |->
                      IF items[i].action = action THEN -items[i].recommended ELSE 0]
  OBVIOUS
<1>7. PICK g : g = [i \in DOMAIN more |->
                      IF more[i].action = action THEN -more[i].recommended ELSE 0]
  OBVIOUS
<1>8. \A i \in 1 .. n + 1 : more[i] \in Item
  BY <1>3, ElementOfSeq
<1>9. \A i \in 1 .. n + 1 : g[i] \in Int
  <2> SUFFICES ASSUME NEW i \in 1 .. n + 1 PROVE g[i] \in Int
    OBVIOUS
  <2>1. PICK y \in Item : y = more[i]
    BY <1>8
  <2>2. -y.recommended \in Int
    BY <2>1 DEF Item
  <2>3. g[i] = IF y.action = action THEN -y.recommended ELSE 0
    BY <1>3, <1>7, <2>1
  <2> QED BY <2>2, <2>3
<1>10. \A i \in 1 .. n : g[i] = f[i] /\ g[i] \in Int
  BY <1>2, <1>3, <1>4, <1>6, <1>7, <1>9
<1>11. g[n + 1] = (IF x.action = action THEN -x.recommended ELSE 0) /\ g[n + 1] \in Int
  BY <1>3, <1>4, <1>7, <1>9
<1>12. SumFunctionOnSet(g, (1 .. n) \cup {n + 1}) = g[n + 1] + SumFunctionOnSet(g, 1 .. n)
  BY <1>4, <1>5, <1>10, <1>11, SumAddElement
<1>13. SumFunctionOnSet(g, 1 .. n) = SumFunctionOnSet(f, 1 .. n)
  BY <1>5, <1>10, SumAgrees
<1>14. SumFunctionOnSet(g, 1 .. n) \in Int
  BY <1>5, <1>10, SumIsInt
<1>15. DOMAIN f = 1 .. n /\ DOMAIN g = 1 .. n + 1
  BY <1>2, <1>3, <1>6, <1>7
<1>16. ReductionsOf(items, action) = SumFunctionOnSet(f, 1 .. n)
  BY <1>6, <1>15 DEF ReductionsOf, SumFunction
<1>17. ReductionsOf(more, action) = SumFunctionOnSet(g, (1 .. n) \cup {n + 1})
  BY <1>4, <1>7, <1>15 DEF ReductionsOf, SumFunction
<1>18. ReductionsOf(more, action) = ReductionsOf(items, action) + g[n + 1]
  BY <1>11, <1>12, <1>13, <1>14, <1>16, <1>17
<1> QED BY <1>1, <1>2, <1>3, <1>4, <1>11, <1>13, <1>14, <1>16, <1>18

LEMMA NothingReduced ==
  ASSUME NEW action
  PROVE  ReductionsOf(<<>>, action) = 0 /\ <<>> \in Seq(Item) /\ DOMAIN <<>> = {}
<1>1. IsFiniteSet({})
  BY FS_EmptySet
<1>2. PICK f : f = [i \in DOMAIN <<>> |->
                      IF <<>>[i].action = action THEN -<<>>[i].recommended ELSE 0]
  OBVIOUS
<1>3. DOMAIN f = {} /\ DOMAIN <<>> = {}
  BY <1>2
<1>4. SumFunctionOnSet(f, {}) = 0
  BY <1>1, SumRecursion
<1>5. ReductionsOf(<<>>, action) = SumFunctionOnSet(f, {})
  BY <1>2, <1>3 DEF ReductionsOf, SumFunction
<1> QED BY <1>3, <1>4, <1>5

\* What the rounds need of a budget and of the order of its racks.
Orderly(b, order) ==
  /\ b.load \in Int /\ b.safe \in Int
  /\ DOMAIN b.racks \subseteq Nat \ {Site}
  /\ \A r \in DOMAIN b.racks :
       /\ {b.racks[r].load, b.racks[r].downLeft} \subseteq Int
       /\ b.racks[r].load > 0 => b.racks[r].downLeft > 0
  /\ \A k \in 1 .. Len(order) : order[k] \in DOMAIN b.racks
  /\ \A j, k \in 1 .. Len(order) : order[j] = order[k] => j = k

Overload(b) == Larger(b.load - b.safe, 0)

\* What rack r can give, and what item x makes it give: all, or something.
GivesAll(b, x, r) == /\ x.rack = r /\ x.action = "curtail"
                     /\ -x.recommended = ReductionCap(b.racks[r])
GivesSome(b, x, r) == /\ x.rack = r /\ ~b.racks[r].blocked /\ b.racks[r].load > 0
                      /\ -x.recommended \in 1 .. ReductionCap(b.racks[r])

\* Nothing more is to be had from a rack.
Spent(b, items, r) == \/ b.racks[r].blocked
                      \/ b.racks[r].load <= 0
                      \/ \E i \in DOMAIN items : GivesAll(b, items[i], r)

\* After n rounds: the sums of what is recommended and what is left to reduce;
\* what the items say of the racks considered; and, as long as something is
\* left, that all of them are spent.
SumsInv(b, left, items) ==
  /\ left \in Nat /\ items \in Seq(Item)
  /\ ReductionsOf(items, "curtail") + left <= Overload(b)
  /\ Overload(b) <= ReductionsOf(items, "curtail")
                      + ReductionsOf(items, "isolate") + left
  /\ ReductionsOf(items, "escalate") = 0

ItemsInv(b, order, n, items) ==
  /\ \A i \in DOMAIN items :
       /\ items[i].action \in {"isolate", "curtail"}
       /\ \E k \in 1 .. n : items[i].rack = order[k]
       /\ items[i].action = "curtail" =>
            /\ GivesSome(b, items[i], items[i].rack)
            /\ \A k \in 1 .. n : items[i].rack = order[k] =>
                 \A j \in 1 .. k - 1 : Spent(b, items, order[j])
  /\ \A i, j \in DOMAIN items : items[i].rack = items[j].rack => i = j

SpentInv(b, order, n, left, items) ==
  \A j \in 1 .. n : left = 0 \/ Spent(b, items, order[j])

RoundInv(b, order, n, acc) ==
  /\ SumsInv(b, acc.left, acc.items)
  /\ ItemsInv(b, order, n, acc.items)
  /\ SpentInv(b, order, n, acc.left, acc.items)

LEMMA FirstRound ==
  ASSUME NEW b, NEW order, Orderly(b, order)
  PROVE  RoundInv(b, order, 0, [left |-> Larger(b.load - b.safe, 0), items |-> <<>>])
<1>1. PICK left \in Nat : left = Overload(b)
  <2>1. b.load - b.safe \in Int
    BY DEF Orderly
  <2> QED BY <2>1 DEF Overload, Larger
<1>2. PICK acc : acc = [left |-> left, items |-> <<>>]
  OBVIOUS
<1>3. \A action : ReductionsOf(<<>>, action) = 0
  BY NothingReduced
<1>4. SumsInv(b, left, <<>>)
  <2>1. <<>> \in Seq(Item)
    BY NothingReduced
  <2> QED BY <1>1, <1>3, <2>1 DEF SumsInv
<1>5. ItemsInv(b, order, 0, <<>>) /\ SpentInv(b, order, 0, left, <<>>)
  BY DEF ItemsInv, SpentInv
<1>6. acc.left = left /\ acc.items = <<>>
  BY <1>2
<1>7. RoundInv(b, order, 0, acc)
  BY <1>4, <1>5, <1>6 DEF RoundInv
<1> QED BY <1>1, <1>2, <1>7 DEF Overload

\* One more item leaves a rack spent that was.
LEMMA StaysSpent ==
  ASSUME NEW b, NEW items \in Seq(Item), NEW x \in Item, NEW r, Spent(b, items, r)
  PROVE  Spent(b, Append(items, x), r)
<1>1. PICK more : more = Append(items, x)
  OBVIOUS
<1>2. /\ DOMAIN items \subseteq DOMAIN more
      /\ \A i \in DOMAIN items : more[i] = items[i]
  BY <1>1, ReductionsGrow
<1>3. Spent(b, more, r)
  BY <1>2 DEF Spent
<1> QED BY <1>1, <1>3

\* The items after a round that recommends something of the next rack.
LEMMA ItemsGrow ==
  ASSUME NEW b, NEW order, Orderly(b, order), NEW n \in 0 .. Len(order) - 1,
         NEW items \in Seq(Item), ItemsInv(b, order, n, items),
         NEW x \in Item, x.rack = order[n + 1], x.action \in {"isolate", "curtail"},
         x.action = "curtail" =>
           /\ GivesSome(b, x, x.rack)
           /\ \A j \in 1 .. n : Spent(b, items, order[j])
  PROVE  ItemsInv(b, order, n + 1, Append(items, x))
<1>1. PICK more : more = Append(items, x)
  OBVIOUS
<1>2. PICK last : last = Len(items) + 1
  OBVIOUS
<1>3. /\ DOMAIN more = DOMAIN items \cup {last} /\ last \notin DOMAIN items
      /\ \A i \in DOMAIN items : more[i] = items[i]
      /\ more[last] = x
  BY <1>1, <1>2, ReductionsGrow
<1>4. /\ n \in Nat /\ n + 1 \in 1 .. Len(order) /\ 1 .. n \subseteq 1 .. n + 1
      /\ 1 .. n \subseteq 1 .. Len(order) /\ n + 1 \notin 1 .. n
      /\ 1 .. n + 1 = (1 .. n) \cup {n + 1}
      /\ 1 .. (n + 1) - 1 = 1 .. n
  OBVIOUS
<1>5. \A k \in 1 .. n + 1 : order[k] = order[n + 1] => k = n + 1
  BY <1>4 DEF Orderly
<1>6. \A r : Spent(b, items, r) => Spent(b, more, r)
  BY <1>1, StaysSpent
<1>7. ASSUME NEW i \in DOMAIN items
      PROVE  /\ more[i].action \in {"isolate", "curtail"}
             /\ \E k \in 1 .. n + 1 : more[i].rack = order[k]
             /\ more[i].rack # order[n + 1]
             /\ more[i].action = "curtail" =>
                  /\ GivesSome(b, more[i], more[i].rack)
                  /\ \A k \in 1 .. n + 1 : more[i].rack = order[k] =>
                       \A j \in 1 .. k - 1 : Spent(b, more, order[j])
  <2>1. PICK k \in 1 .. n : items[i].rack = order[k]
    BY DEF ItemsInv
  <2>2. items[i].rack # order[n + 1]
    BY <1>4, <1>5, <2>1
  <2>3. items[i].action \in {"isolate", "curtail"}
    BY DEF ItemsInv
  <2>4. ASSUME items[i].action = "curtail", NEW l \in 1 .. n + 1,
               items[i].rack = order[l], NEW j \in 1 .. l - 1
        PROVE  Spent(b, more, order[j])
    <3>1. l \in 1 .. n
      BY <1>4, <2>2, <2>4
    <3>2. Spent(b, items, order[j])
      BY <2>4, <3>1 DEF ItemsInv
    <3> QED BY <1>6, <3>2
  <2>5. items[i].action = "curtail" => GivesSome(b, items[i], items[i].rack)
    BY DEF ItemsInv
  <2>6. more[i] = items[i]
    BY <1>3
  <2> QED BY <1>4, <2>1, <2>2, <2>3, <2>4, <2>5, <2>6
<1>8. /\ more[last].action \in {"isolate", "curtail"}
      /\ \E k \in 1 .. n + 1 : more[last].rack = order[k]
      /\ more[last].action = "curtail" =>
           /\ GivesSome(b, more[last], more[last].rack)
           /\ \A k \in 1 .. n + 1 : more[last].rack = order[k] =>
                \A j \in 1 .. k - 1 : Spent(b, more, order[j])
  <2>1. ASSUME x.action = "curtail", NEW k \in 1 .. n + 1, x.rack = order[k],
               NEW j \in 1 .. k - 1
        PROVE  Spent(b, more, order[j])
    <3>1. k = n + 1
      BY <1>5, <2>1
    <3>2. j \in 1 .. n
      BY <1>4, <2>1, <3>1
    <3> QED BY <1>6, <2>1, <3>2
  <2> QED BY <1>3, <1>4, <2>1
<1>9. ASSUME NEW i \in DOMAIN more, NEW j \in DOMAIN more,
             more[i].rack = more[j].rack
      PROVE  i = j
  <2>1. CASE i \in DOMAIN items /\ j \in DOMAIN items
    <3>1. items[i].rack = items[j].rack
      BY <1>3, <1>9, <2>1
    <3> QED BY <2>1, <3>1 DEF ItemsInv
  <2>2. CASE i = last /\ j = last
    BY <2>2
  <2>3. CASE i = last /\ j \in DOMAIN items
    BY <1>3, <1>7, <1>9, <2>3
  <2>4. CASE i \in DOMAIN items /\ j = last
    BY <1>3, <1>7, <1>9, <2>4
  <2> QED BY <1>3, <2>1, <2>2, <2>3, <2>4
<1>10. ASSUME NEW i \in DOMAIN more
       PROVE  /\ more[i].action \in {"isolate", "curtail"}
              /\ \E k \in 1 .. n + 1 : more[i].rack = order[k]
              /\ more[i].action = "curtail" =>
                   /\ GivesSome(b, more[i], more[i].rack)
                   /\ \A k \in 1 .. n + 1 : more[i].rack = order[k] =>
                        \A j \in 1 .. k - 1 : Spent(b, more, order[j])
  BY <1>3, <1>7, <1>8
<1>11. ItemsInv(b, order, n + 1, more)
  BY <1>9, <1>10 DEF ItemsInv
<1> QED BY <1>1, <1>11

\* What a curtailment takes from the overload it adds to the reductions.
LEMMA ReductionMoves ==
  ASSUME NEW over \in Int, NEW curtail \in Int, NEW isolate \in Int,
         NEW left \in Int, NEW reduction \in Int, NEW rest \in Int,
         rest = left - reduction, curtail + left <= over,
         over <= curtail + isolate + left
  PROVE  /\ (curtail + reduction) + rest <= over
         /\ over <= (curtail + reduction) + isolate + rest
OBVIOUS

\* A round keeps the invariant.
LEMMA NextRound ==
  ASSUME NEW b, NEW order, Orderly(b, order), NEW n \in 0 .. Len(order) - 1,
         NEW acc, RoundInv(b, order, n, acc)
  PROVE  RoundInv(b, order, n + 1, Consider(b, acc, order[n + 1]))
<1>1. PICK r : r = order[n + 1]
  OBVIOUS
<1>2. PICK rack : rack = b.racks[r]
  OBVIOUS
<1>3. PICK left \in Nat, items \in Seq(Item) : left = acc.left /\ items = acc.items
  BY DEF RoundInv, SumsInv
<1>4. /\ SumsInv(b, left, items) /\ ItemsInv(b, order, n, items)
      /\ SpentInv(b, order, n, left, items)
  BY <1>3 DEF RoundInv
<1>5. /\ n \in Nat /\ n + 1 \in 1 .. Len(order)
      /\ 1 .. n + 1 = (1 .. n) \cup {n + 1} /\ n + 1 \notin 1 .. n
      /\ 1 .. n \subseteq 1 .. Len(order)
  OBVIOUS
<1>6. /\ r \in Nat /\ r # Site /\ {rack.load, rack.downLeft} \subseteq Int
      /\ rack.load > 0 => rack.downLeft > 0
  BY <1>1, <1>2, <1>5 DEF Orderly
<1>7. PICK cap : cap = ReductionCap(rack)
  OBVIOUS
<1>8. rack.load > 0 => /\ cap \in Nat /\ cap > 0 /\ cap <= rack.load
  BY <1>6, <1>7, CapFacts
<1>9. PICK reduction : reduction = MinPositive({left, cap})
  OBVIOUS
<1>10. rack.load > 0 => /\ reduction \in Nat /\ reduction <= left /\ reduction <= cap
                        /\ (reduction = left \/ reduction = cap)
  <2> SUFFICES ASSUME rack.load > 0
               PROVE  /\ reduction \in Nat /\ reduction <= left /\ reduction <= cap
                      /\ (reduction = left \/ reduction = cap)
    OBVIOUS
  <2>1. PICK S : S = {left, cap}
    OBVIOUS
  <2>2. S \subseteq Int /\ cap \in S /\ left \in S /\ cap >= 0 /\ left >= 0
    BY <1>3, <1>8, <2>1
  <2>3. MinPositive(S) \in Nat /\ \A x \in S : x >= 0 => MinPositive(S) <= x
    BY <2>2, MinPositiveFacts
  <2>4. MinPositive(S) \in S
    BY <2>2, MinPositiveMember
  <2> QED BY <1>9, <2>1, <2>2, <2>3, <2>4
<1>11. PICK over \in Int, curtail \in Int, isolate \in Int, escalate \in Int :
         /\ over = Overload(b) /\ curtail = ReductionsOf(items, "curtail")
         /\ isolate = ReductionsOf(items, "isolate")
         /\ escalate = ReductionsOf(items, "escalate")
  <2>1. Overload(b) \in Int
    BY DEF Orderly, Overload, Larger
  <2>2. PICK x : x = [rack |-> 0, action |-> "curtail", requested |-> 0,
                      recommended |-> 0]
    OBVIOUS
  <2>3. x \in Item
    BY <2>2 DEF Item
  <2>4. \A action : ReductionsOf(items, action) \in Int
    BY <2>3, ReductionsGrow
  <2> QED BY <2>1, <2>4
<1>12. curtail + left <= over /\ over <= curtail + isolate + left /\ escalate = 0
  BY <1>4, <1>11 DEF SumsInv
<1>13. PICK next : next = Consider(b, acc, r)
  OBVIOUS
<1>14. CASE rack.blocked /\ rack.load > 0
  <2>0. /\ rack.load > 0 /\ cap \in Nat /\ cap > 0
        /\ rack.blocked
    <3>1. rack.load > 0 /\ rack.blocked
      BY <1>14
    <3> QED BY <1>8, <3>1
  <2>1. PICK x : x = [rack |-> r, action |-> "isolate", requested |-> -rack.load,
                      recommended |-> -cap]
    OBVIOUS
  <2>2. x \in Item
    <3>1. r \in Nat /\ -rack.load \in Int /\ -cap \in Int
      BY <1>6, <2>0
    <3> QED BY <2>1, <3>1 DEF Item
  <2>3. PICK more : more = Append(items, x)
    OBVIOUS
  <2>4. PICK rest \in Nat : rest = Larger(left - cap, 0)
    <3>1. left - cap \in Int
      BY <2>0
    <3> QED BY <3>1 DEF Larger
  <2>5. next = Recommend(acc, r, "isolate", rack.load, cap)
    BY <1>2, <1>7, <1>13, <1>14 DEF Consider
  <2>6. next = [left |-> rest, items |-> more]
    BY <1>3, <2>1, <2>3, <2>4, <2>5 DEF Recommend
  <2>7. next.left = rest /\ next.items = more
    BY <2>6
  <2>8. /\ rest <= left /\ left <= rest + cap
        /\ (left = 0 => rest = 0)
    BY <2>0, <2>4 DEF Larger
  <2>9. x.action = "isolate" /\ x.rack = r /\ -x.recommended = cap
    BY <2>0, <2>1
  <2>10. /\ more \in Seq(Item) /\ ReductionsOf(more, "curtail") = curtail
         /\ ReductionsOf(more, "isolate") = isolate + cap
         /\ ReductionsOf(more, "escalate") = escalate
    <3>1. \A action : /\ more \in Seq(Item)
                      /\ ReductionsOf(more, action) = ReductionsOf(items, action)
                           + (IF x.action = action THEN -x.recommended ELSE 0)
      BY <2>2, <2>3, ReductionsGrow
    <3>2. ReductionsOf(more, "curtail") = curtail
            + (IF x.action = "curtail" THEN -x.recommended ELSE 0)
      BY <1>11, <3>1
    <3>3. ReductionsOf(more, "isolate") = isolate
            + (IF x.action = "isolate" THEN -x.recommended ELSE 0)
      BY <1>11, <3>1
    <3>4. ReductionsOf(more, "escalate") = escalate
            + (IF x.action = "escalate" THEN -x.recommended ELSE 0)
      BY <1>11, <3>1
    <3> QED BY <2>0, <2>9, <3>1, <3>2, <3>3, <3>4
  <2>11. SumsInv(b, rest, more)
    <3>1. cap \in Nat
      BY <2>0
    <3>2. curtail + rest <= over /\ over <= curtail + (isolate + cap) + rest
      BY <1>12, <2>8, <3>1
    <3> QED BY <1>11, <1>12, <2>10, <3>2 DEF SumsInv
  <2>12. ItemsInv(b, order, n + 1, more)
    BY <1>1, <1>4, <2>2, <2>3, <2>9, ItemsGrow
  <2>13. SpentInv(b, order, n + 1, rest, more)
    <3> SUFFICES ASSUME NEW j \in 1 .. n + 1, rest # 0 PROVE Spent(b, more, order[j])
      BY DEF SpentInv
    <3>1. CASE j = n + 1
      BY <1>1, <1>2, <2>0, <3>1 DEF Spent
    <3>2. CASE j \in 1 .. n
      <4>1. left # 0
        BY <2>8
      <4>2. Spent(b, items, order[j])
        BY <1>4, <3>2, <4>1 DEF SpentInv
      <4> QED BY <2>2, <2>3, <4>2, StaysSpent
    <3> QED BY <1>5, <3>1, <3>2
  <2>14. RoundInv(b, order, n + 1, next)
    BY <2>7, <2>11, <2>12, <2>13 DEF RoundInv
  <2> QED BY <1>1, <1>13, <2>14
<1>15. CASE ~(rack.blocked /\ rack.load > 0) /\ left > 0 /\ rack.load > 0 /\ reduction > 0
  <2>0. /\ rack.load > 0 /\ reduction \in Nat /\ reduction > 0 /\ left > 0
        /\ reduction <= left /\ reduction <= cap /\ cap \in Nat
        /\ (reduction = left \/ reduction = cap)
    <3>1. rack.load > 0 /\ reduction > 0 /\ left > 0
      BY <1>15
    <3> QED BY <1>8, <1>10, <3>1
  <2>1. PICK x : x = [rack |-> r, action |-> "curtail", requested |-> -left,
                      recommended |-> -reduction]
    OBVIOUS
  <2>2. x \in Item
    BY <1>6, <2>0, <2>1 DEF Item
  <2>3. PICK more : more = Append(items, x)
    OBVIOUS
  <2>4. PICK rest \in Nat : rest = Larger(left - reduction, 0) /\ rest = left - reduction
    <3>1. left - reduction \in Nat
      BY <2>0
    <3> QED BY <3>1 DEF Larger
  <2>5. next = Recommend(acc, r, "curtail", left, reduction)
    BY <1>2, <1>3, <1>7, <1>9, <1>13, <1>15 DEF Consider
  <2>6. next = [left |-> rest, items |-> more]
    BY <1>3, <2>1, <2>3, <2>4, <2>5 DEF Recommend
  <2>7. next.left = rest /\ next.items = more
    BY <2>6
  <2>8. x.action = "curtail" /\ x.rack = r /\ -x.recommended = reduction
    BY <2>0, <2>1
  <2>9. /\ more \in Seq(Item) /\ ReductionsOf(more, "curtail") = curtail + reduction
        /\ ReductionsOf(more, "isolate") = isolate
        /\ ReductionsOf(more, "escalate") = escalate
    <3>1. \A action : /\ more \in Seq(Item)
                      /\ ReductionsOf(more, action) = ReductionsOf(items, action)
                           + (IF x.action = action THEN -x.recommended ELSE 0)
      BY <2>2, <2>3, ReductionsGrow
    <3>2. ReductionsOf(more, "curtail") = curtail
            + (IF x.action = "curtail" THEN -x.recommended ELSE 0)
      BY <1>11, <3>1
    <3>3. ReductionsOf(more, "isolate") = isolate
            + (IF x.action = "isolate" THEN -x.recommended ELSE 0)
      BY <1>11, <3>1
    <3>4. ReductionsOf(more, "escalate") = escalate
            + (IF x.action = "escalate" THEN -x.recommended ELSE 0)
      BY <1>11, <3>1
    <3> QED BY <2>0, <2>8, <3>1, <3>2, <3>3, <3>4
  <2>10. SumsInv(b, rest, more)
    <3>1. reduction \in Nat
      BY <2>0
    <3>2. /\ (curtail + reduction) + rest <= over
          /\ over <= (curtail + reduction) + isolate + rest
      <4>1. left \in Int /\ reduction \in Int /\ rest \in Int
        BY <3>1
      <4>2. /\ rest = left - reduction /\ curtail + left <= over
            /\ over <= curtail + isolate + left
        BY <1>12, <2>4
      <4> QED BY <4>1, <4>2, ReductionMoves, Zenon
    <3> QED BY <1>11, <1>12, <2>9, <3>2 DEF SumsInv
  <2>11. \A j \in 1 .. n : Spent(b, items, order[j])
    BY <1>4, <2>0 DEF SpentInv
  <2>12. GivesSome(b, x, x.rack)
    BY <1>2, <1>7, <1>8, <1>10, <1>15, <2>8 DEF GivesSome
  <2>13. ItemsInv(b, order, n + 1, more)
    BY <1>1, <1>4, <2>2, <2>3, <2>8, <2>11, <2>12, ItemsGrow
  <2>14. SpentInv(b, order, n + 1, rest, more)
    <3> SUFFICES ASSUME NEW j \in 1 .. n + 1, rest # 0 PROVE Spent(b, more, order[j])
      BY DEF SpentInv
    <3>1. CASE j = n + 1
      <4>0. reduction # left
        <5>1. left - reduction # 0
          BY <2>4
        <5> QED BY <2>0, <5>1
      <4>1. reduction = cap
        BY <2>0, <4>0
      <4>2. GivesAll(b, x, r)
        BY <1>2, <1>7, <2>8, <4>1 DEF GivesAll
      <4>3. more[Len(items) + 1] = x /\ Len(items) + 1 \in DOMAIN more
        BY <2>2, <2>3, ReductionsGrow
      <4> QED BY <1>1, <3>1, <4>2, <4>3 DEF Spent
    <3>2. CASE j \in 1 .. n
      BY <2>2, <2>3, <2>11, <3>2, StaysSpent
    <3> QED BY <1>5, <3>1, <3>2
  <2>15. RoundInv(b, order, n + 1, next)
    BY <2>7, <2>10, <2>13, <2>14 DEF RoundInv
  <2> QED BY <1>1, <1>13, <2>15
<1>16. CASE /\ ~(rack.blocked /\ rack.load > 0)
            /\ ~(left > 0 /\ rack.load > 0 /\ reduction > 0)
  <2>1. next = acc
    BY <1>2, <1>3, <1>7, <1>9, <1>13, <1>16 DEF Consider
  <2>2. ItemsInv(b, order, n + 1, items)
    <3>1. ASSUME NEW i \in DOMAIN items
          PROVE  /\ \E k \in 1 .. n + 1 : items[i].rack = order[k]
                 /\ items[i].rack # order[n + 1]
      <4>1. PICK k \in 1 .. n : items[i].rack = order[k]
        BY <1>4 DEF ItemsInv
      <4>2. order[k] # order[n + 1]
        BY <1>5, <4>1 DEF Orderly
      <4> QED BY <1>5, <4>1, <4>2
    <3>2. ASSUME NEW i \in DOMAIN items, NEW k \in 1 .. n + 1,
                 items[i].action = "curtail", items[i].rack = order[k],
                 NEW j \in 1 .. k - 1
          PROVE  Spent(b, items, order[j])
      <4>1. k \in 1 .. n
        BY <1>5, <3>1, <3>2
      <4> QED BY <1>4, <3>2, <4>1 DEF ItemsInv
    <3> QED BY <1>4, <3>1, <3>2 DEF ItemsInv
  <2>3. left = 0 \/ Spent(b, items, r)
    <3> SUFFICES ASSUME left # 0, ~rack.blocked, ~(rack.load <= 0) PROVE FALSE
      BY <1>2 DEF Spent
    <3>1. left > 0 /\ rack.load > 0
      BY <1>6
    <3>2. reduction > 0
      BY <1>8, <1>10, <3>1
    <3> QED BY <1>16, <3>1, <3>2
  <2>4. SpentInv(b, order, n + 1, left, items)
    BY <1>1, <1>4, <1>5, <2>3 DEF SpentInv
  <2>5. RoundInv(b, order, n + 1, next)
    BY <1>3, <1>4, <2>1, <2>2, <2>4 DEF RoundInv
  <2> QED BY <1>1, <1>13, <2>5
<1> QED BY <1>14, <1>15, <1>16

\* A budget with integers for loads and a class for each of its racks.
Ranked(b) ==
  /\ b.load \in Int /\ b.safe \in Int
  /\ IsFiniteSet(DOMAIN b.racks) /\ DOMAIN b.racks \subseteq Nat \ {Site}
  /\ \A r \in DOMAIN b.racks :
       /\ {b.racks[r].load, b.racks[r].downLeft} \subseteq Int
       /\ b.racks[r].load > 0 => b.racks[r].downLeft > 0
       /\ b.racks[r].class \in {"normal_production", "preferred_production",
                                "sacrificable_load", "safety_blocked"}

Priorities(b) == {x \in (DOMAIN b.racks) \X (DOMAIN b.racks) :
                    CurtailBefore(b, x[1], x[2])}

LEMMA PrioritiesOrder ==
  ASSUME NEW b, Ranked(b)
  PROVE  StrictOrder(DOMAIN b.racks, Priorities(b))
<1>1. PICK racks : racks = DOMAIN b.racks
  OBVIOUS
<1>2. PICK rank : rank = [r \in racks |-> CurtailmentPriority(b.racks[r].class)]
  OBVIOUS
<1>3. PICK load : load = [r \in racks |-> b.racks[r].load]
  OBVIOUS
<1>4. \A r \in racks : rank[r] \in Nat /\ load[r] \in Int /\ r \in Nat
  BY <1>1, <1>2, <1>3 DEF Ranked, CurtailmentPriority
<1>5. PICK before : before = Priorities(b)
  OBVIOUS
<1>6. ASSUME NEW r \in racks, NEW s \in racks
      PROVE  <<r, s>> \in before <=>
               \/ rank[r] < rank[s]
               \/ rank[r] = rank[s] /\ load[r] > load[s]
               \/ rank[r] = rank[s] /\ load[r] = load[s] /\ r < s
  <2>1. <<r, s>> \in before <=> CurtailBefore(b, r, s)
    BY <1>1, <1>5 DEF Priorities
  <2>2. /\ rank[r] = CurtailmentPriority(b.racks[r].class)
        /\ rank[s] = CurtailmentPriority(b.racks[s].class)
        /\ load[r] = b.racks[r].load /\ load[s] = b.racks[s].load
    BY <1>2, <1>3
  <2> QED BY <2>1, <2>2 DEF CurtailBefore
<1>7. \A x \in racks : <<x, x>> \notin before
  BY <1>4, <1>6
<1>8. \A x, y \in racks : x # y => <<x, y>> \in before \/ <<y, x>> \in before
  BY <1>4, <1>6
<1>9. \A x, y, z \in racks :
        <<x, y>> \in before /\ <<y, z>> \in before => <<x, z>> \in before
  BY <1>4, <1>6
<1> QED BY <1>1, <1>5, <1>7, <1>8, <1>9 DEF StrictOrder

\* What is recommended adds up to the overload; a rack is asked for what it can
\* give, and only when those before it in the order of curtailment are spent.
LEMMA AdviceFacts ==
  ASSUME NEW b, Ranked(b)
  PROVE  LET recs == PendingRecommendations(b)
         IN  /\ ReductionsOf(recs, "curtail") + ReductionsOf(recs, "escalate")
                  <= Overload(b)
             /\ ReductionsOf(recs, "curtail") + ReductionsOf(recs, "escalate")
                  + ReductionsOf(recs, "isolate") >= Overload(b)
             /\ \A i \in DOMAIN recs : recs[i].action = "curtail" =>
                  /\ recs[i].rack \in DOMAIN b.racks
                  /\ GivesSome(b, recs[i], recs[i].rack)
                  /\ \A s \in DOMAIN b.racks :
                       CurtailBefore(b, s, recs[i].rack) => Spent(b, recs, s)
             /\ \A i, j \in DOMAIN recs : recs[i].rack = recs[j].rack => i = j
<1>1. PICK racks, before : racks = DOMAIN b.racks /\ before = Priorities(b)
  OBVIOUS
<1>2. IsFiniteSet(racks) /\ StrictOrder(racks, before)
  BY <1>1, PrioritiesOrder DEF Ranked
<1>3. PICK order : order = InOrder(racks, before)
  OBVIOUS
<1>4. PICK n \in Nat : n = Cardinality(racks)
  BY <1>2, FS_CardinalityType
<1>5. /\ DOMAIN order = 1 .. n
      /\ \A i \in 1 .. n : order[i] \in racks
      /\ \A i, j \in 1 .. n : <<order[i], order[j]>> \in before => i < j
      /\ \A x \in racks : \E i \in 1 .. n : order[i] = x
      /\ \A i, j \in 1 .. n : order[i] = order[j] => i = j
  <2>1. /\ DOMAIN order = 1 .. n
        /\ \A i \in DOMAIN order : order[i] \in racks
        /\ \A i, j \in DOMAIN order : <<order[i], order[j]>> \in before => i < j
    BY <1>2, <1>3, <1>4, InOrderFacts
  <2>2. /\ \A x \in racks : \E i \in DOMAIN order : order[i] = x
        /\ \A i, j \in DOMAIN order : order[i] = order[j] => i = j
    BY <1>2, <1>3, InOrderListsAll
  <2> QED BY <2>1, <2>2
<1>6. Len(order) = n
  <2> DEFINE Nth(i) == CHOOSE x \in racks :
                         Cardinality({y \in racks : <<y, x>> \in before}) = i - 1
  <2>1. order = [i \in 1 .. n |-> Nth(i)]
    BY <1>3, <1>4 DEF InOrder
  <2> HIDE DEF Nth
  <2>2. order \in Seq(racks)
    BY <1>4, <1>5, <2>1
  <2>3. Len(order) \in Nat /\ DOMAIN order = 1 .. Len(order)
    BY <2>2, LenProperties
  <2> QED BY <1>4, <1>5, <2>3
<1>7. Orderly(b, order)
  BY <1>1, <1>5, <1>6 DEF Ranked, Orderly
<1>8. PICK acc : acc = Considered(b, order)
  OBVIOUS
<1>9. \A k \in 0 .. n : RoundInv(b, order, k, acc[k])
  <2> DEFINE P == {k \in 0 .. n : RoundInv(b, order, k, acc[k])}
  <2>1. /\ acc[0] = [left |-> Larger(b.load - b.safe, 0), items |-> <<>>]
        /\ \A k \in 0 .. n - 1 : acc[k + 1] = Consider(b, acc[k], order[k + 1])
    BY <1>6, <1>8, RoundsFollow
  <2>2. 0 \in P
    BY <1>4, <1>7, <2>1, FirstRound
  <2>3. ASSUME NEW k \in 0 .. n - 1, k \in P PROVE k + 1 \in P
    <3>1. RoundInv(b, order, k, acc[k])
      BY <2>3
    <3>2. RoundInv(b, order, k + 1, Consider(b, acc[k], order[k + 1]))
      BY <1>6, <1>7, <3>1, NextRound
    <3>3. k + 1 \in 0 .. n
      BY <1>4
    <3> QED BY <2>1, <3>2, <3>3
  <2> HIDE DEF P
  <2>4. \A k \in 0 .. n : k \in P
    BY <1>4, <2>2, <2>3, CountingUp
  <2> QED BY <2>4 DEF P
<1>10. PICK last : last = acc[n]
  OBVIOUS
<1>11. RoundInv(b, order, n, last)
  BY <1>4, <1>9, <1>10
<1>12. PICK left \in Nat, items \in Seq(Item) : left = last.left /\ items = last.items
  BY <1>11 DEF RoundInv, SumsInv
<1>13. SumsInv(b, left, items) /\ ItemsInv(b, order, n, items)
  BY <1>11, <1>12 DEF RoundInv
<1>14. PICK recs : recs = PendingRecommendations(b)
  OBVIOUS
<1>15. recs = IF left > 0 THEN Recommend(last, Site, "escalate", left, left).items
              ELSE items
  BY <1>1, <1>3, <1>6, <1>8, <1>10, <1>12, <1>14 DEF PendingRecommendations, Priorities
<1>16. PICK x : x = [rack |-> Site, action |-> "escalate", requested |-> -left,
                     recommended |-> -left]
  OBVIOUS
<1>17. x \in Item /\ x.rack = Site /\ x.action = "escalate" /\ -x.recommended = left
  <2>1. -left \in Int /\ -(-left) = left /\ Site \in Nat
    BY DEF Site
  <2> QED BY <1>16, <2>1 DEF Item
<1>18. recs = IF left > 0 THEN Append(items, x) ELSE items
  BY <1>12, <1>15, <1>16 DEF Recommend
<1>19. PICK over \in Int, curtail \in Int, isolate \in Int :
         /\ over = Overload(b) /\ curtail = ReductionsOf(items, "curtail")
         /\ isolate = ReductionsOf(items, "isolate")
  <2>1. Overload(b) \in Int
    BY DEF Ranked, Overload, Larger
  <2>2. \A action : ReductionsOf(items, action) \in Int
    BY <1>17, ReductionsGrow
  <2> QED BY <2>1, <2>2
<1>20. /\ curtail + left <= over /\ over <= curtail + isolate + left
       /\ ReductionsOf(items, "escalate") = 0
  BY <1>13, <1>19 DEF SumsInv
<1>21. /\ ReductionsOf(recs, "curtail") = curtail
       /\ ReductionsOf(recs, "isolate") = isolate
       /\ ReductionsOf(recs, "escalate") = left
       /\ DOMAIN items \subseteq DOMAIN recs
       /\ \A i \in DOMAIN items : recs[i] = items[i]
       /\ \A i \in DOMAIN recs \ DOMAIN items :
            i = Len(items) + 1 /\ recs[i] = x
  <2>1. CASE left > 0
    <3>1. PICK more : more = Append(items, x)
      OBVIOUS
    <3>2. \A action : /\ DOMAIN more = DOMAIN items \cup {Len(items) + 1}
                      /\ \A i \in DOMAIN items : more[i] = items[i]
                      /\ more[Len(items) + 1] = x
                      /\ ReductionsOf(more, action) = ReductionsOf(items, action)
                           + (IF x.action = action THEN -x.recommended ELSE 0)
      BY <1>17, <3>1, ReductionsGrow
    <3>3. ReductionsOf(more, "curtail") = curtail
            + (IF x.action = "curtail" THEN -x.recommended ELSE 0)
      BY <1>19, <3>2
    <3>4. ReductionsOf(more, "isolate") = isolate
            + (IF x.action = "isolate" THEN -x.recommended ELSE 0)
      BY <1>19, <3>2
    <3>5. ReductionsOf(more, "escalate") = 0
            + (IF x.action = "escalate" THEN -x.recommended ELSE 0)
      BY <1>20, <3>2
    <3>6. recs = more
      BY <1>18, <2>1, <3>1
    <3> QED BY <1>17, <3>2, <3>3, <3>4, <3>5, <3>6
  <2>2. CASE ~(left > 0)
    <3>1. recs = items /\ left = 0
      BY <1>18, <2>2
    <3> QED BY <1>19, <1>20, <3>1
  <2> QED BY <2>1, <2>2
<1>22. ASSUME NEW i \in DOMAIN items
       PROVE  /\ items[i].rack \in racks
              /\ items[i].action = "curtail" =>
                   /\ GivesSome(b, items[i], items[i].rack)
                   /\ \A s \in racks :
                        CurtailBefore(b, s, items[i].rack) => Spent(b, recs, s)
  <2>1. PICK k \in 1 .. n : items[i].rack = order[k]
    BY <1>13 DEF ItemsInv
  <2>2. items[i].rack \in racks
    BY <1>5, <2>1
  <2>3. ASSUME items[i].action = "curtail", NEW s \in racks,
               CurtailBefore(b, s, items[i].rack)
        PROVE  Spent(b, recs, s)
    <3>1. PICK j \in 1 .. n : order[j] = s
      BY <1>5
    <3>2. <<s, items[i].rack>> \in before
      BY <1>1, <2>2, <2>3 DEF Priorities
    <3>3. j < k
      BY <1>5, <2>1, <3>1, <3>2
    <3>4. j \in 1 .. k - 1
      BY <3>3
    <3>5. Spent(b, items, s)
      BY <1>13, <2>1, <2>3, <3>1, <3>4 DEF ItemsInv
    <3> QED BY <1>21, <3>5 DEF Spent
  <2>4. items[i].action = "curtail" => GivesSome(b, items[i], items[i].rack)
    BY <1>13 DEF ItemsInv
  <2> QED BY <2>2, <2>3, <2>4
<1>23. ASSUME NEW i \in DOMAIN recs, recs[i].action = "curtail"
       PROVE  /\ recs[i].rack \in DOMAIN b.racks
              /\ GivesSome(b, recs[i], recs[i].rack)
              /\ \A s \in DOMAIN b.racks :
                   CurtailBefore(b, s, recs[i].rack) => Spent(b, recs, s)
  <2>1. i \in DOMAIN items
    BY <1>17, <1>21, <1>23
  <2>2. recs[i] = items[i]
    BY <1>21, <2>1
  <2> QED BY <1>1, <1>22, <1>23, <2>1, <2>2
<1>24. ASSUME NEW i \in DOMAIN recs, NEW j \in DOMAIN recs,
              recs[i].rack = recs[j].rack
       PROVE  i = j
  <2>1. \A l \in DOMAIN items : recs[l] = items[l] /\ recs[l].rack # Site
    BY <1>1, <1>21, <1>22 DEF Ranked
  <2>2. CASE i \in DOMAIN items /\ j \in DOMAIN items
    <3>1. items[i].rack = items[j].rack
      BY <1>24, <2>1, <2>2
    <3> QED BY <1>13, <2>2, <3>1 DEF ItemsInv
  <2>3. CASE i \notin DOMAIN items /\ j \notin DOMAIN items
    BY <1>21, <2>3
  <2>4. CASE i \in DOMAIN items /\ j \notin DOMAIN items
    BY <1>17, <1>21, <1>24, <2>1, <2>4
  <2>5. CASE i \notin DOMAIN items /\ j \in DOMAIN items
    BY <1>17, <1>21, <1>24, <2>1, <2>5
  <2> QED BY <2>2, <2>3, <2>4, <2>5
<1>25. curtail + left <= over /\ curtail + left + isolate >= over
  BY <1>20
<1> QED BY <1>14, <1>19, <1>21, <1>23, <1>24, <1>25

\* What the policy and the validator look at in the budget of a rack.
LEMMA RackAdviceFacts ==
  ASSUME NEW in, Numeric(in), NEW r \in DOMAIN in.racks, NEW assets,
         \A a \in DOMAIN in.assets : assets[a].available \in Nat,
         NEW siteAvailable \in Nat
  PROVE  LET rack == RackBudget(in, r, assets, siteAvailable)
         IN  /\ {rack.load, rack.downLeft, rack.upLeft} \subseteq Int
             /\ {rack.available, rack.thermalHeadroom} \subseteq Nat
             /\ rack.load > 0 => rack.downLeft > 0
             /\ rack.class = in.racks[r].class
             /\ rack.dispatchable <= rack.available
             /\ rack.dispatchable <= rack.thermalHeadroom
<1>1. PICK profile : profile = in.racks[r]
  OBVIOUS
<1>2. /\ {profile.nominal, profile.margin, profile.thermal, profile.rampUp,
          profile.rampDown, in.site.rampUp, in.site.rampDown, in.ambient}
           \subseteq Int
  BY <1>1 DEF Numeric
<1>3. PICK load \in Int : load = LoadOf(in, r)
  BY LoadsAreInts
<1>4. PICK asset : asset = [nominal |-> profile.nominal, margin |-> profile.margin,
                            derateStart |-> 0, deratePct |-> 0,
                            status |-> profile.status,
                            maintenance |-> profile.maintenance]
  OBVIOUS
<1>5. PICK own : own = ComputeAssetBudget(asset, load, in.ambient)
  OBVIOUS
<1>10. own.safe \in Int /\ own.available = Larger(own.safe - load, 0)
  <2>1. {asset.nominal, asset.margin, asset.derateStart, asset.deratePct}
          \subseteq Int
    BY <1>2, <1>4
  <2> QED BY <1>2, <1>5, <2>1, AssetBudgetFacts
<1>6. own.available \in Nat
  BY <1>10 DEF Larger
<1>7. PICK headroom \in Nat : headroom = Larger(profile.thermal - load, 0)
  <2>1. profile.thermal - load \in Int
    BY <1>2
  <2>2. Larger(profile.thermal - load, 0) \in Nat
    BY <2>1 DEF Larger
  <2> QED BY <2>2
<1>8. PICK up \in Int : up = RampUpLimit(in.site, profile)
  <2>1. RampUpLimit(in.site, profile) \in Int
    BY <1>2 DEF RampUpLimit, Larger
  <2> QED BY <2>1
<1>9. PICK down \in Nat : down = RampDownLimit(in.site, profile)
  <2>1. RampDownLimit(in.site, profile) \in Nat
    BY <1>2 DEF RampDownLimit, Larger
  <2> QED BY <2>1
<1>14. PICK upLeft \in Int :
         upLeft = IF SafetyBlocked(profile) THEN 0
                  ELSE IF up > 0 THEN up ELSE own.available
  BY <1>6
<1>15. PICK downLeft \in Int :
         /\ downLeft = IF SafetyBlocked(profile) \/ down = 0 THEN load
                       ELSE MinPositive({load, down})
         /\ load > 0 => downLeft > 0
  <2>1. PICK S : S = {load, down}
    OBVIOUS
  <2>2. S \subseteq Int /\ down \in S /\ down >= 0
    BY <2>1
  <2>3. MinPositive(S) \in S
    BY <2>2, MinPositiveMember
  <2>4. CASE SafetyBlocked(profile) \/ down = 0
    BY <2>4
  <2>5. CASE ~(SafetyBlocked(profile) \/ down = 0)
    <3>1. down > 0 /\ MinPositive(S) \in Int /\ (load > 0 => MinPositive(S) > 0)
      BY <2>1, <2>3, <2>5
    <3> QED BY <2>1, <2>5, <3>1
  <2> QED BY <2>4, <2>5
<1>16. PICK rack : rack = RackBudget(in, r, assets, siteAvailable)
  OBVIOUS
<1>17. /\ rack.load = load /\ rack.available = own.available
       /\ rack.thermalHeadroom = headroom
       /\ rack.upLeft = upLeft /\ rack.downLeft = downLeft
       /\ rack.class = profile.class
  <2>1. rack.load = load /\ rack.class = profile.class
    BY <1>1, <1>3, <1>16 DEF RackBudget
  <2>2. rack.available = own.available
    BY <1>1, <1>3, <1>4, <1>5, <1>16 DEF RackBudget
  <2>3. rack.thermalHeadroom = headroom
    BY <1>1, <1>3, <1>7, <1>16 DEF RackBudget
  <2>5. rack.upLeft = upLeft
    BY <1>1, <1>3, <1>4, <1>5, <1>8, <1>14, <1>16 DEF RackBudget
  <2>6. rack.downLeft = downLeft
    BY <1>1, <1>3, <1>9, <1>15, <1>16 DEF RackBudget
  <2> QED BY <2>1, <2>2, <2>3, <2>5, <2>6
<1>18. rack.dispatchable <= rack.available /\ rack.dispatchable <= headroom
  <2>2. rack.safe = own.safe
    BY <1>1, <1>3, <1>4, <1>5, <1>16 DEF RackBudget
  <2>3. /\ rack.dispatchable <= Larger(rack.safe - rack.load, 0)
        /\ rack.dispatchable <= Larger(profile.thermal - rack.load, 0)
    BY <1>1, <1>16, RackBudgetFacts
  <2> QED BY <1>7, <1>10, <1>17, <2>2, <2>3
<1> QED BY <1>1, <1>6, <1>14, <1>15, <1>16, <1>17, <1>18

LEMMA InputRanked ==
  ASSUME TablesInv, NEW s \in Sites, NEW at, NEW read, NEW override
  PROVE  LET in == InputOf(s, at, read, override)
         IN  /\ DOMAIN in.racks \subseteq Nat \ {Site}
             /\ \A r \in DOMAIN in.racks :
                  in.racks[r].class \in {"normal_production", "preferred_production",
                                         "sacrificable_load", "safety_blocked"}
<1>1. PICK here : here = inventory[s]
  OBVIOUS
<1>2. SiteTables(here.site, here.assets, here.racks)
  <2>1. PICK inv \in Inventories : inv = inventory /\ s \in DOMAIN inv
    BY DEF TablesInv, Sites
  <2> QED BY <1>1, <2>1, InventoriesAssumption
<1>3. PICK in : in = InputOf(s, at, read, override)
  OBVIOUS
<1>4. in.racks = WithMaintenance(here.racks, here.windows[at].racks)
  BY <1>1, <1>3 DEF InputOf
<1>5. /\ DOMAIN in.racks = DOMAIN here.racks
      /\ \A r \in DOMAIN here.racks : \A x \in DOMAIN here.racks[r] :
           in.racks[r][x] = here.racks[r][x]
  BY <1>4 DEF WithMaintenance, Join
<1>6. ASSUME NEW r \in DOMAIN in.racks
      PROVE  in.racks[r].class \in {"normal_production", "preferred_production",
                                    "sacrificable_load", "safety_blocked"}
  <2>1. /\ "class" \in DOMAIN here.racks[r]
        /\ here.racks[r].class \in {"normal_production", "preferred_production",
                                    "sacrificable_load", "safety_blocked"}
    BY <1>2, <1>5 DEF SiteTables
  <2> QED BY <1>5, <2>1
<1>7. DOMAIN in.racks \subseteq Nat \ {Site}
  BY <1>2, <1>5 DEF SiteTables
<1> QED BY <1>3, <1>6, <1>7

\* The budgets of a site are ones the policy can rank.
LEMMA BudgetRanked ==
  ASSUME NEW in, Numeric(in), DOMAIN in.racks \subseteq Nat \ {Site},
         \A r \in DOMAIN in.racks :
           in.racks[r].class \in {"normal_production", "preferred_production",
                                  "sacrificable_load", "safety_blocked"}
  PROVE  LET b == ComputeSiteBudget(in)
         IN  /\ Ranked(b) /\ b.available \in Nat /\ DOMAIN b.racks = DOMAIN in.racks
             /\ \A a \in DOMAIN in.assets : b.assets[a].available \in Nat
             /\ \A r \in DOMAIN in.racks :
                  /\ {b.racks[r].load, b.racks[r].upLeft} \subseteq Int
                  /\ {b.racks[r].available, b.racks[r].thermalHeadroom,
                      b.racks[r].dispatchable} \subseteq Nat
                  /\ b.racks[r].dispatchable <= b.available
                  /\ b.racks[r].dispatchable <= b.racks[r].available
                  /\ b.racks[r].dispatchable <= b.racks[r].thermalHeadroom
                  /\ \A a \in PathOf(in, r) :
                       b.racks[r].dispatchable <= b.assets[a].available
<1>1. PICK b : b = ComputeSiteBudget(in)
  OBVIOUS
<1>2. /\ b.load = SiteLoad(in) /\ b.safe \in Int
      /\ b.available = Larger(b.safe - b.load, 0)
      /\ \A a \in DOMAIN in.assets :
           b.assets[a] = ComputeAssetBudget(in.assets[a], AssetLoad(in, a), in.ambient)
      /\ DOMAIN b.racks = DOMAIN in.racks
      /\ \A r \in DOMAIN in.racks :
           b.racks[r] = RackBudget(in, r, b.assets, b.available)
  BY <1>1, SiteBudgetFacts
<1>3. b.load \in Int
  BY <1>2, LoadsAreInts
<1>4. b.available \in Nat
  BY <1>2, <1>3 DEF Larger
<1>5. ASSUME NEW a \in DOMAIN in.assets PROVE b.assets[a].available \in Nat
  <2>1. PICK asset : asset = in.assets[a]
    OBVIOUS
  <2>2. {asset.nominal, asset.margin, asset.derateStart, asset.deratePct}
          \subseteq Int /\ in.ambient \in Int
    BY <2>1 DEF Numeric
  <2>3. AssetLoad(in, a) \in Int
    BY LoadsAreInts
  <2>4. PICK own : own = ComputeAssetBudget(asset, AssetLoad(in, a), in.ambient)
    OBVIOUS
  <2>5. own.safe \in Int /\ own.available = Larger(own.safe - AssetLoad(in, a), 0)
    BY <2>2, <2>3, <2>4, AssetBudgetFacts
  <2>6. own.available \in Nat
    BY <2>3, <2>5 DEF Larger
  <2> QED BY <1>2, <2>1, <2>4, <2>6
<1>6. ASSUME NEW r \in DOMAIN in.racks
      PROVE  /\ {b.racks[r].load, b.racks[r].downLeft, b.racks[r].upLeft} \subseteq Int
             /\ {b.racks[r].available, b.racks[r].thermalHeadroom,
                 b.racks[r].dispatchable} \subseteq Nat
             /\ b.racks[r].load > 0 => b.racks[r].downLeft > 0
             /\ b.racks[r].class = in.racks[r].class
             /\ b.racks[r].dispatchable <= b.available
             /\ b.racks[r].dispatchable <= b.racks[r].available
             /\ b.racks[r].dispatchable <= b.racks[r].thermalHeadroom
             /\ \A a \in PathOf(in, r) :
                  b.racks[r].dispatchable <= b.assets[a].available
  <2>1. PICK rack : rack = b.racks[r]
    OBVIOUS
  <2>2. rack = RackBudget(in, r, b.assets, b.available)
    BY <1>2, <2>1
  <2>3. /\ {rack.load, rack.downLeft, rack.upLeft} \subseteq Int
        /\ {rack.available, rack.thermalHeadroom} \subseteq Nat
        /\ rack.load > 0 => rack.downLeft > 0
        /\ rack.class = in.racks[r].class
        /\ rack.dispatchable <= rack.available
        /\ rack.dispatchable <= rack.thermalHeadroom
    BY <1>4, <1>5, <2>2, RackAdviceFacts
  <2>4. /\ rack.dispatchable \in Nat /\ rack.dispatchable <= b.available
        /\ \A a \in PathOf(in, r) : rack.dispatchable <= b.assets[a].available
    BY <1>4, <1>5, <2>2, RackBudgetFacts
  <2> QED BY <2>1, <2>3, <2>4
<1>7. IsFiniteSet(DOMAIN in.racks)
  BY DEF Numeric
<1>8. Ranked(b)
  BY <1>2, <1>3, <1>6, <1>7 DEF Ranked
<1> QED BY <1>1, <1>2, <1>4, <1>5, <1>6, <1>8

\* The validator grants in full what a rack can give, without a ramp of the site.
LEMMA GivesInFull ==
  ASSUME NEW in, NEW b, NEW r, in.site.rampDown \in Int, in.site.rampDown <= 0,
         b.racks[r].load \in Int, b.racks[r].load > 0,
         b.racks[r].downLeft \in Int, b.racks[r].downLeft > 0,
         NEW g \in 1 .. ReductionCap(b.racks[r])
  PROVE  AcceptedReduction(in, b, r, g) = g
<1>1. PICK rack : rack = b.racks[r]
  OBVIOUS
<1>2. PICK load \in Int, down \in Int : load = rack.load /\ down = rack.downLeft
  BY <1>1
<1>3. g \in Nat /\ g <= load /\ g <= down
  <2>1. PICK cap \in Nat : cap = ReductionCap(rack) /\ cap <= load /\ cap <= down
    BY <1>1, <1>2, CapFacts
  <2> QED BY <1>1, <1>2, <2>1
<1>4. PICK limits :
        limits = IF rack.blocked THEN {}
                 ELSE {rack.downLeft : x \in {y \in {rack.rampDown} : y > 0}}
                        \cup {x \in {in.site.rampDown} : x > 0}
  OBVIOUS
<1>5. limits \subseteq {down}
  <2>1. {x \in {in.site.rampDown} : x > 0} = {}
    OBVIOUS
  <2>2. {rack.downLeft : x \in {y \in {rack.rampDown} : y > 0}} \subseteq {down}
    BY <1>2
  <2> QED BY <1>4, <2>1, <2>2
<1>6. PICK S : S = {g, load} \cup limits
  OBVIOUS
<1>7. S \subseteq Int /\ g \in S /\ g >= 0 /\ \A x \in S : g <= x
  <2>1. \A x \in S : x \in {g, load, down}
    BY <1>5, <1>6
  <2>2. \A x \in {g, load, down} : x \in Int /\ g <= x
    BY <1>2, <1>3
  <2>3. g \in S /\ g >= 0
    BY <1>3, <1>6
  <2>4. \A x \in S : x \in Int /\ g <= x
    BY <2>1, <2>2
  <2> QED BY <2>3, <2>4
<1>8. PICK least \in S : least = MinPositive(S) /\ least <= g
  <2>1. MinPositive(S) \in S
    BY <1>7, MinPositiveMember
  <2>2. MinPositive(S) <= g
    BY <1>7, MinPositiveFacts
  <2> QED BY <2>1, <2>2
<1>9. MinPositive(S) = g
  <2>1. least \in Int /\ g <= least /\ least <= g /\ g \in Int
    BY <1>7, <1>8
  <2>2. least = g
    BY <2>1
  <2> QED BY <1>8, <2>2
<1>10. AcceptedReduction(in, b, r, g) = MinPositive(S)
  BY <1>1, <1>2, <1>4, <1>6 DEF AcceptedReduction
<1> QED BY <1>9, <1>10

\* A rack the validator grants no increase at all is among the blocked actions.
LEMMA RefusedIsBlocked ==
  ASSUME NEW in, NEW b, NEW r \in DOMAIN b.racks, b.available \in Nat,
         in.site.rampUp \in Int, b.racks[r].upLeft \in Int,
         {b.racks[r].available, b.racks[r].thermalHeadroom,
          b.racks[r].dispatchable} \subseteq Nat,
         \A a \in PathOf(in, r) : b.assets[a].available \in Nat,
         b.racks[r].dispatchable <= b.available,
         b.racks[r].dispatchable <= b.racks[r].available,
         b.racks[r].dispatchable <= b.racks[r].thermalHeadroom,
         \A a \in PathOf(in, r) : b.racks[r].dispatchable <= b.assets[a].available,
         AcceptedIncrease(in, b, r, 1) = 0
  PROVE  r \in {x.rack : x \in BlockedActions(b)}
<1>1. PICK rack : rack = b.racks[r]
  OBVIOUS
<1>2. rack.blocked \/ rack.upLeft <= 0 \/ rack.dispatchable <= 0
  <2> SUFFICES ASSUME ~rack.blocked PROVE rack.upLeft <= 0 \/ rack.dispatchable <= 0
    OBVIOUS
  <2>1. PICK ramps : ramps = {rack.upLeft : x \in {y \in {rack.rampUp} : y > 0}}
                               \cup {x \in {in.site.rampUp} : x > 0}
    OBVIOUS
  <2>2. PICK room : room = {b.available, rack.available, rack.thermalHeadroom}
                             \cup {b.assets[a].available : a \in PathOf(in, r)}
    OBVIOUS
  <2>3. PICK S : S = {1} \cup room \cup ramps
    OBVIOUS
  <2>4. ramps \subseteq Int /\ room \subseteq Int
    BY <1>1, <2>1, <2>2
  <2>5. S \subseteq Int /\ 1 \in S /\ 1 >= 0
    BY <2>3, <2>4
  <2>6. MinPositive(S) = 0
    <3>1. AcceptedIncrease(in, b, r, 1) = MinPositive(S)
      BY <1>1, <2>1, <2>2, <2>3 DEF AcceptedIncrease
    <3> QED BY <3>1
  <2>7. 0 \in S
    BY <2>5, <2>6, MinPositiveMember
  <2>8. CASE 0 \in room
    BY <1>1, <2>2, <2>8
  <2>9. CASE 0 \in ramps
    <3>1. 0 \in {rack.upLeft : x \in {y \in {rack.rampUp} : y > 0}}
      BY <2>1, <2>9
    <3> QED BY <3>1
  <2> QED BY <2>3, <2>7, <2>8, <2>9
<1>3. \E code : [rack |-> r, code |-> code] \in BlockedActions(b)
  BY <1>1, <1>2 DEF BlockedActions
<1>4. PICK code : [rack |-> r, code |-> code] \in BlockedActions(b)
  BY <1>3
<1>5. [rack |-> r, code |-> code].rack = r
  OBVIOUS
<1> QED BY <1>4, <1>5

\* The order of the priorities is the order of the classes.
LEMMA OrderOfClasses ==
  ASSUME NEW b, NEW s, NEW r, AskedBefore(b, s, r)
  PROVE  CurtailBefore(b, s, r)
<1>1. PICK one, other : one = b.racks[s] /\ other = b.racks[r]
  OBVIOUS
<1>2. CASE one.class = other.class
  <2>1. \/ one.load > other.load
        \/ one.load = other.load /\ s < r
    BY <1>1, <1>2 DEF AskedBefore
  <2> QED BY <1>1, <1>2, <2>1 DEF CurtailBefore
<1>3. CASE one.class # other.class
  <2>1. \/ /\ one.class = "sacrificable_load"
           /\ other.class \in {"normal_production", "preferred_production"}
        \/ /\ one.class = "normal_production"
           /\ other.class = "preferred_production"
    BY <1>1, <1>3 DEF AskedBefore
  <2>2. CurtailmentPriority(one.class) < CurtailmentPriority(other.class)
    BY <2>1 DEF CurtailmentPriority
  <2> QED BY <1>1, <2>2 DEF CurtailBefore
<1> QED BY <1>2, <1>3

(* The advice of an operational view adds up and can be carried out: what is *)
(* curtailed and escalated is the overload that isolations leave, or less,   *)
(* and with them never less than the overload; a rack is asked only if every *)
(* rack before it, by class, by draw and by id, is locked, draws nothing or  *)
(* gives all it can; the validator grants each curtailment in full unless a  *)
(* ramp of the site forbids it; and every rack whose increase it would       *)
(* refuse is among the blocked actions.                                      *)
THEOREM AdviceIsSoundHolds == Spec => []AdviceIsSound
<1>1. ASSUME IInv, AInv PROVE AdviceIsSound
  <2> SUFFICES ASSUME request.pc = "answered", request.kind = "view"
               PROVE  AdviceIsSound
    BY DEF AdviceIsSound, Answered
  <2>1. PICK in : in = InputOf(request.site, request.at, request.read,
                               request.override)
    OBVIOUS
  <2>2. PICK view, b : view = request.answer /\ b = ComputeSiteBudget(in)
    OBVIOUS
  <2>3. /\ request.override \in Overrides /\ request.site \in Sites
        /\ Read(request.read) /\ view = BuildOperationalView(b)
    <3>1. request.pc \in InputStages \cup After /\ request.kind \in OneSite
      BY DEF After, OneSite
    <3>2. request.pc \in After
      BY DEF After
    <3> QED BY <1>1, <2>1, <2>2, <3>1, <3>2 DEF AInv, BudgetInv, BudgetOf
  <2>4. Numeric(in)
    <3>1. request.override \in Int \cup {NoAmbient}
      BY <2>3, OverridesAssumption
    <3> QED BY <1>1, <2>1, <2>3, <3>1, InputNumeric DEF AInv
  <2>5. /\ DOMAIN in.racks \subseteq Nat \ {Site}
        /\ \A r \in DOMAIN in.racks :
             in.racks[r].class \in {"normal_production", "preferred_production",
                                    "sacrificable_load", "safety_blocked"}
    BY <1>1, <2>1, <2>3, InputRanked DEF AInv
  <2>6. /\ Ranked(b) /\ b.available \in Nat /\ DOMAIN b.racks = DOMAIN in.racks
        /\ \A a \in DOMAIN in.assets : b.assets[a].available \in Nat
        /\ \A r \in DOMAIN in.racks :
             /\ {b.racks[r].load, b.racks[r].upLeft} \subseteq Int
             /\ {b.racks[r].available, b.racks[r].thermalHeadroom,
                 b.racks[r].dispatchable} \subseteq Nat
             /\ b.racks[r].dispatchable <= b.available
             /\ b.racks[r].dispatchable <= b.racks[r].available
             /\ b.racks[r].dispatchable <= b.racks[r].thermalHeadroom
             /\ \A a \in PathOf(in, r) :
                  b.racks[r].dispatchable <= b.assets[a].available
    BY <2>2, <2>4, <2>5, BudgetRanked
  <2>7. PICK recs : recs = PendingRecommendations(b)
    OBVIOUS
  <2>8. view.budget = b /\ view.recommendations = recs /\ view.blocked = BlockedActions(b)
    BY <2>3, <2>7 DEF BuildOperationalView
  <2>9. /\ ReductionsOf(recs, "curtail") + ReductionsOf(recs, "escalate")
              <= Overload(b)
        /\ ReductionsOf(recs, "curtail") + ReductionsOf(recs, "escalate")
              + ReductionsOf(recs, "isolate") >= Overload(b)
        /\ \A i \in DOMAIN recs : recs[i].action = "curtail" =>
             /\ recs[i].rack \in DOMAIN b.racks
             /\ GivesSome(b, recs[i], recs[i].rack)
             /\ \A s \in DOMAIN b.racks :
                  CurtailBefore(b, s, recs[i].rack) => Spent(b, recs, s)
        /\ \A i, j \in DOMAIN recs : recs[i].rack = recs[j].rack => i = j
    BY <2>6, <2>7, AdviceFacts
  <2>10. \A r \in Asked(recs) : \E i \in DOMAIN recs :
           recs[i].action = "curtail" /\ r = recs[i].rack
    BY DEF Asked
  <2>11. \A i \in DOMAIN recs : Gives(recs, recs[i].rack) = -recs[i].recommended
    <3> SUFFICES ASSUME NEW i \in DOMAIN recs
                 PROVE  Gives(recs, recs[i].rack) = -recs[i].recommended
      OBVIOUS
    <3>1. \A j \in DOMAIN recs : recs[j].rack = recs[i].rack => j = i
      BY <2>9
    <3> QED BY <3>1 DEF Gives
  <2>12. ASSUME NEW r \in Asked(recs), NEW s \in DOMAIN b.racks,
                AskedBefore(b, s, r), ~b.racks[s].blocked, b.racks[s].load > 0
         PROVE  s \in Asked(recs) /\ Gives(recs, s) = ReductionCap(b.racks[s])
    <3>1. PICK i \in DOMAIN recs : recs[i].action = "curtail" /\ r = recs[i].rack
      BY <2>10
    <3>2. CurtailBefore(b, s, r)
      BY <2>12, OrderOfClasses
    <3>3. Spent(b, recs, s)
      BY <2>9, <3>1, <3>2
    <3>4. ~(b.racks[s].load <= 0)
      <4>1. b.racks[s].load \in Int
        BY <2>6
      <4> QED BY <2>12, <4>1
    <3>5. PICK j \in DOMAIN recs : GivesAll(b, recs[j], s)
      BY <2>12, <3>3, <3>4 DEF Spent
    <3> QED BY <2>11, <3>5 DEF GivesAll, Asked
  <2>13. ASSUME in.site.rampDown <= 0, NEW r \in Asked(recs)
         PROVE  AcceptedReduction(in, b, r, Gives(recs, r)) = Gives(recs, r)
    <3>1. PICK i \in DOMAIN recs : recs[i].action = "curtail" /\ r = recs[i].rack
      BY <2>10
    <3>2. r \in DOMAIN b.racks /\ GivesSome(b, recs[i], r)
      BY <2>9, <3>1
    <3>3. /\ b.racks[r].load \in Int /\ b.racks[r].load > 0
          /\ b.racks[r].downLeft \in Int /\ b.racks[r].downLeft > 0
      BY <2>6, <3>2 DEF Ranked, GivesSome
    <3>4. in.site.rampDown \in Int
      BY <2>4 DEF Numeric
    <3>5. Gives(recs, r) \in 1 .. ReductionCap(b.racks[r])
      BY <2>11, <3>1, <3>2 DEF GivesSome
    <3> QED BY <2>13, <3>3, <3>4, <3>5, GivesInFull
  <2>14. ASSUME NEW r \in DOMAIN b.racks, AcceptedIncrease(in, b, r, 1) = 0
         PROVE  r \in {x.rack : x \in view.blocked}
    <3>1. in.site.rampUp \in Int /\ PathOf(in, r) \subseteq DOMAIN in.assets
      BY <2>4 DEF Numeric, PathOf
    <3>2. r \in {x.rack : x \in BlockedActions(b)}
      BY <2>6, <2>14, <3>1, RefusedIsBlocked
    <3> QED BY <2>8, <3>2
  <2>15. AdviceAddsUp(b, recs)
    BY <2>9 DEF AdviceAddsUp, Overload
  <2>16. AskedInOrder(b, recs)
    BY <2>12 DEF AskedInOrder
  <2>17. AdviceIsGranted(in, b, recs)
    BY <2>13 DEF AdviceIsGranted
  <2>18. RefusalsAreBlocked(in, b, view.blocked)
    BY <2>14 DEF RefusalsAreBlocked
  <2> QED BY <2>1, <2>2, <2>8, <2>15, <2>16, <2>17, <2>18 DEF AdviceIsSound
<1> QED BY <1>1, AInvHolds, PTL
-----------------------------------------------------------------------------
(* What a policy leaves the racks of a bucket.                              *)

Class == {"normal_production", "preferred_production", "sacrificable_load",
          "safety_blocked"}

\* The profile of a site and the points of a bucket, as PointsOf makes them.
Profiled(site) ==
  /\ site.target \in Nat /\ site.target % KW = 0
  /\ site.reserve \in 0 .. 60 /\ site.derateStart \in Int
  /\ site.deratePct \in Nat /\ site.rampUp \in Int /\ site.rampDown \in Int
Plotted(site, points) ==
  /\ IsFiniteSet(DOMAIN points) /\ DOMAIN points # {}
  /\ DOMAIN points \subseteq Nat
  /\ \A r \in DOMAIN points :
       /\ points[r].load \in Nat /\ points[r].class \in Class
       /\ points[r].temp \in Int /\ points[r].ambient \in Int
       /\ points[r].rampUp \in Int /\ points[r].rampDown \in Int
       /\ points[r].rampUp <= 0 => site.rampUp <= 0
       /\ points[r].rampDown <= 0 => site.rampDown <= 0
       /\ Isolated(points[r]) <=> points[r].locked = TRUE

LEMMA OverageFacts ==
  ASSUME NEW site, Profiled(site), NEW points, Plotted(site, points)
  PROVE  LET safe == SiteSafeCapacityForAmbient(site, AverageAmbient(points))
             total == SumFunctionOnSet(LoadsOf(points), DOMAIN points)
         IN  /\ total \in Nat
             /\ \A pct \in {95, 100} :
                  /\ Percent(safe, pct) \in Nat
                  /\ Overage(site, pct, points)
                       = Larger(total - Percent(safe, pct), 0)
                  /\ Overage(site, pct, points) \in Nat
             /\ Overage(site, 100, points) <= Overage(site, 95, points)
<1>1. AverageAmbient(points) \in Int
  <2>1. PICK ambients : ambients = [r \in DOMAIN points |-> points[r].ambient]
    OBVIOUS
  <2>2. SumFunctionOnSet(ambients, DOMAIN points) \in Int
    BY <2>1, SumIsInt DEF Plotted
  <2>3. Sum(ambients) = SumFunctionOnSet(ambients, DOMAIN points)
    BY <2>1 DEF Sum, SumFunction
  <2>4. Cardinality(DOMAIN points) \in Nat /\ Cardinality(DOMAIN points) # 0
    BY FS_CardinalityType, FS_EmptySet DEF Plotted
  <2>5. AverageAmbient(points)
          = SumFunctionOnSet(ambients, DOMAIN points) \div Cardinality(DOMAIN points)
    BY <2>1, <2>3 DEF AverageAmbient
  <2> QED BY <2>2, <2>4, <2>5
<1>2. PICK safe : safe = SiteSafeCapacityForAmbient(site, AverageAmbient(points))
  OBVIOUS
<1>3. safe \in Nat
  <2>1. PICK ambient \in Int : ambient = AverageAmbient(points)
    BY <1>1
  <2>2. ambient <= ambient
    OBVIOUS
  <2>3. SiteSafeCapacityForAmbient(site, ambient) \in Nat
    BY <2>2, CapacityFalls DEF Profiled
  <2> QED BY <1>2, <2>1, <2>3
<1>4. PICK total : total = SumFunctionOnSet(LoadsOf(points), DOMAIN points)
  OBVIOUS
<1>5. total \in Nat
  <2>1. \A r \in DOMAIN points : LoadsOf(points)[r] \in Nat
    BY DEF LoadsOf, Plotted
  <2> QED BY <1>4, <2>1, SumIsNat DEF Plotted
<1>6. Sum(LoadsOf(points)) = total
  BY <1>4 DEF Sum, SumFunction, LoadsOf
<1>7. PICK part \in Nat : part = safe \div 100
  BY <1>3
<1>8. \A pct : Percent(safe, pct) = part * pct
  BY <1>7 DEF Percent
<1>9. \A pct : Overage(site, pct, points) = Larger(total - part * pct, 0)
  BY <1>2, <1>6, <1>8 DEF Overage
<1>10. /\ part * 95 \in Nat /\ part * 100 \in Nat
       /\ Larger(total - part * 95, 0) \in Nat
       /\ Larger(total - part * 100, 0) \in Nat
       /\ Larger(total - part * 100, 0) <= Larger(total - part * 95, 0)
  BY <1>5 DEF Larger
<1> QED BY <1>2, <1>4, <1>5, <1>8, <1>9, <1>10

LEMMA RankingOrder ==
  ASSUME NEW site, NEW points, Plotted(site, points)
  PROVE  StrictOrder(DOMAIN points, Ranking(points))
<1>1. PICK racks : racks = DOMAIN points
  OBVIOUS
<1>2. PICK rank : rank = [r \in racks |-> CurtailmentPriority(points[r].class)]
  OBVIOUS
<1>3. \A r \in racks : rank[r] \in Nat /\ r \in Nat
  BY <1>1, <1>2 DEF Plotted, Class, CurtailmentPriority
<1>4. PICK before : before = Ranking(points)
  OBVIOUS
<1>5. ASSUME NEW r \in racks, NEW s \in racks
      PROVE  <<r, s>> \in before <=> \/ rank[r] < rank[s]
                                     \/ rank[r] = rank[s] /\ r < s
  <2>1. /\ rank[r] = CurtailmentPriority(points[r].class)
        /\ rank[s] = CurtailmentPriority(points[s].class)
    BY <1>2
  <2> QED BY <1>1, <1>4, <2>1 DEF Ranking
<1>6. \A x \in racks : <<x, x>> \notin before
  BY <1>3, <1>5
<1>7. \A x, y \in racks : x # y => <<x, y>> \in before \/ <<y, x>> \in before
  BY <1>3, <1>5
<1>8. \A x, y, z \in racks :
        <<x, y>> \in before /\ <<y, z>> \in before => <<x, z>> \in before
  BY <1>3, <1>5
<1> QED BY <1>1, <1>4, <1>6, <1>7, <1>8 DEF StrictOrder

\* The cuts of the loop follow each other.
LEMMA CutsFollow ==
  ASSUME NEW points, NEW overage, NEW order, Len(order) \in Nat
  PROVE  LET acc == Cuts(points, overage, order)
         IN  /\ acc[0] = [overage |-> overage, load |-> LoadsOf(points)]
             /\ \A n \in 0 .. Len(order) - 1 :
                  acc[n + 1] = Cut(points, acc[n], order[n + 1])
<1>1. PICK n \in Nat : n = Len(order)
  OBVIOUS
<1>2. PICK start : start = [overage |-> overage, load |-> LoadsOf(points)]
  OBVIOUS
<1> DEFINE Follows(f, m) ==
             f = [k \in 0 .. m |-> IF k = 0 THEN start
                                   ELSE Cut(points, f[k - 1], order[k])]
           P == {m \in 0 .. n : \E f : Follows(f, m)}
<1>3. 0 \in P
  <2>1. PICK f : f = [k \in 0 .. 0 |-> start]
    OBVIOUS
  <2>2. Follows(f, 0)
    BY <2>1
  <2> QED BY <1>1, <2>2
<1>4. ASSUME NEW m \in 0 .. n - 1, m \in P PROVE m + 1 \in P
  <2>1. PICK f : Follows(f, m)
    BY <1>4
  <2>2. PICK g : g = [k \in 0 .. m + 1 |->
                        IF k <= m THEN f[k] ELSE Cut(points, f[m], order[m + 1])]
    OBVIOUS
  <2>3. ASSUME NEW k \in 0 .. m + 1
        PROVE  g[k] = IF k = 0 THEN start ELSE Cut(points, g[k - 1], order[k])
    <3>1. CASE k = 0
      <4>1. f[0] = start /\ 0 <= m
        BY <2>1
      <4> QED BY <2>2, <3>1, <4>1
    <3>2. CASE k # 0 /\ k <= m
      <4>1. k - 1 \in 0 .. m + 1 /\ k - 1 <= m /\ k \in 0 .. m
        BY <3>2
      <4>2. f[k] = Cut(points, f[k - 1], order[k])
        BY <2>1, <3>2, <4>1
      <4> QED BY <2>2, <3>2, <4>1, <4>2
    <3>3. CASE k = m + 1
      <4>1. m \in 0 .. m + 1 /\ m <= m /\ ~(k <= m) /\ k # 0 /\ k - 1 = m
        BY <3>3
      <4>2. g[m] = f[m] /\ g[k] = Cut(points, f[m], order[m + 1])
        BY <2>2, <4>1
      <4> QED BY <3>3, <4>1, <4>2
    <3> QED BY <3>1, <3>2, <3>3
  <2>4. Follows(g, m + 1)
    BY <2>2, <2>3
  <2> QED BY <1>1, <2>4
<1>5. n \in P
  <2> HIDE DEF P
  <2>1. \A k \in 0 .. n : k \in P
    BY <1>3, <1>4, CountingUp
  <2> QED BY <1>1, <2>1
<1>6. PICK acc : acc = Cuts(points, overage, order)
  OBVIOUS
<1>7. Follows(acc, n)
  <2>1. acc = CHOOSE f : Follows(f, n)
    BY <1>1, <1>2, <1>6 DEF Cuts
  <2>2. \E f : Follows(f, n)
    BY <1>5
  <2> HIDE DEF Follows
  <2> QED BY <2>1, <2>2
<1>8. acc[0] = start
  BY <1>1, <1>7
<1>9. ASSUME NEW k \in 0 .. n - 1
      PROVE  acc[k + 1] = Cut(points, acc[k], order[k + 1])
  <2>1. k + 1 \in 0 .. n /\ k + 1 # 0 /\ (k + 1) - 1 = k
    BY <1>1
  <2> QED BY <1>7, <2>1
<1> QED BY <1>1, <1>2, <1>6, <1>8, <1>9

\* What isolation does not take, but the cuts.
Gone(points, left) ==
  [r \in DOMAIN points |-> IF Isolated(points[r]) THEN 0
                           ELSE points[r].load - left[r]]

\* The cut of the loads to left, with rest of the overage to go, after the
\* first n racks of the order: the later ones have what they had, an isolated
\* one has nothing, and if there is overage to go, neither has any other; a
\* rack was only cut when all those before it had nothing left.
CutInv(points, overage, order, n, rest, left) ==
  /\ rest \in Nat /\ DOMAIN left = DOMAIN points
  /\ \A r \in DOMAIN points : left[r] \in Nat /\ left[r] <= points[r].load
  /\ \A k \in n + 1 .. Len(order) : left[order[k]] = points[order[k]].load
  /\ \A k \in 1 .. n :
       /\ Isolated(points[order[k]]) => left[order[k]] = 0
       /\ rest > 0 => left[order[k]] = 0
       /\ ~Isolated(points[order[k]]) /\ left[order[k]] < points[order[k]].load
            => \A j \in 1 .. k - 1 : left[order[j]] = 0
  /\ SumFunctionOnSet(Gone(points, left), DOMAIN points) + rest = overage

Lists(order, S) ==
  /\ Len(order) \in Nat /\ \A k \in 1 .. Len(order) : order[k] \in S
  /\ \A x \in S : \E k \in 1 .. Len(order) : order[k] = x
  /\ \A j, k \in 1 .. Len(order) : order[j] = order[k] => j = k

LEMMA FirstCut ==
  ASSUME NEW site, NEW points, Plotted(site, points), NEW overage \in Nat,
         NEW order, Lists(order, DOMAIN points)
  PROVE  CutInv(points, overage, order, 0, overage, LoadsOf(points))
<1>1. PICK left : left = LoadsOf(points)
  OBVIOUS
<1>2. /\ DOMAIN left = DOMAIN points
      /\ \A r \in DOMAIN points : left[r] = points[r].load /\ left[r] \in Nat
  BY <1>1 DEF LoadsOf, Plotted
<1>3. SumFunctionOnSet(Gone(points, left), DOMAIN points) = 0
  <2>1. \A r \in DOMAIN points : Gone(points, left)[r] = 0
    BY <1>2 DEF Gone
  <2> QED BY <2>1, SumOfZeros DEF Plotted
<1>4. \A k \in 0 + 1 .. Len(order) : left[order[k]] = points[order[k]].load
  BY <1>2 DEF Lists
<1>5. \A r \in DOMAIN points : left[r] \in Nat /\ left[r] <= points[r].load
  BY <1>2
<1>6. 0 + overage = overage /\ 1 .. 0 = {}
  OBVIOUS
<1> QED BY <1>1, <1>2, <1>3, <1>4, <1>5, <1>6 DEF CutInv

\* One more rack, by the arithmetic of its cut.
LEMMA CutArithmetic ==
  ASSUME NEW rest \in Nat, NEW load \in Nat
  PROVE  LET cut == Lesser(rest, load)
         IN  /\ cut \in Nat /\ rest - cut \in Nat
             /\ load - cut \in Nat /\ load - cut <= load
             /\ rest - cut > 0 => load - cut = 0
             /\ load - cut < load => rest > 0
BY DEF Lesser

LEMMA NextCut ==
  ASSUME NEW site, NEW points, Plotted(site, points), NEW overage \in Nat,
         NEW order, Lists(order, DOMAIN points), NEW n \in 0 .. Len(order) - 1,
         NEW acc, CutInv(points, overage, order, n, acc.overage, acc.load)
  PROVE  LET next == Cut(points, acc, order[n + 1])
         IN  CutInv(points, overage, order, n + 1, next.overage, next.load)
<1>1. PICK last \in Nat : last = Len(order)
  BY DEF Lists
<1>2. n \in Nat /\ n + 1 \in 1 .. last
  BY <1>1
<1>3. PICK r \in DOMAIN points : r = order[n + 1]
  BY <1>1, <1>2 DEF Lists
<1>4. PICK isolated \in BOOLEAN : isolated <=> Isolated(points[r])
  <2>1. (TRUE <=> Isolated(points[r])) \/ (FALSE <=> Isolated(points[r]))
    OBVIOUS
  <2> QED BY <2>1
<1>5. PICK rest, left : rest = acc.overage /\ left = acc.load
  OBVIOUS
<1>6. PICK load \in Nat : load = points[r].load
  BY DEF Plotted
<1>7. PICK cut : cut = IF isolated THEN 0 ELSE Lesser(rest, load)
  OBVIOUS
<1>8. PICK next : next = Cut(points, acc, order[n + 1])
  OBVIOUS
<1>9. /\ rest \in Nat /\ DOMAIN left = DOMAIN points
      /\ \A x \in DOMAIN points : left[x] \in Nat /\ left[x] <= points[x].load
      /\ left[r] = load
  <2>1. n + 1 \in n + 1 .. last
    BY <1>1, <1>2
  <2> QED BY <1>1, <1>3, <1>5, <1>6, <2>1 DEF CutInv
<1>10. /\ cut \in Nat /\ rest - cut \in Nat
       /\ isolated => cut = 0
       /\ ~isolated => load - cut \in Nat /\ load - cut <= load
       /\ ~isolated /\ rest - cut > 0 => load - cut = 0
       /\ ~isolated /\ load - cut < load => rest > 0
       /\ rest - cut > 0 => rest > 0
  <2>1. CASE isolated
    <3>1. cut = 0
      BY <1>7, <2>1
    <3> QED BY <1>9, <2>1, <3>1
  <2>2. CASE ~isolated
    <3>1. cut = Lesser(rest, load)
      BY <1>7, <2>2
    <3>2. rest \in Nat
      BY <1>9
    <3>3. /\ cut \in Nat /\ rest - cut \in Nat
          /\ load - cut \in Nat /\ load - cut <= load
          /\ rest - cut > 0 => load - cut = 0
          /\ load - cut < load => rest > 0
      BY <3>1, <3>2, CutArithmetic
    <3>4. rest - cut > 0 => rest > 0
      BY <3>2, <3>3
    <3> QED BY <2>2, <3>3, <3>4
  <2> QED BY <2>1, <2>2
<1>11. PICK more : more = [left EXCEPT ![r] = IF isolated THEN 0 ELSE left[r] - cut]
  OBVIOUS
<1>12. next.overage = rest - cut /\ next.load = more
  BY <1>3, <1>4, <1>5, <1>6, <1>7, <1>8, <1>11 DEF Cut
<1>13. /\ DOMAIN more = DOMAIN points
       /\ more[r] = IF isolated THEN 0 ELSE load - cut
       /\ \A x \in DOMAIN points : x # r => more[x] = left[x]
  BY <1>9, <1>11
<1>14. more[r] \in Nat /\ more[r] <= load
  BY <1>10, <1>13
<1>15. \A k \in 1 .. last : k # n + 1 => order[k] \in DOMAIN points /\ order[k] # r
  BY <1>1, <1>2, <1>3 DEF Lists
<1>16. \A x \in DOMAIN points : more[x] \in Nat /\ more[x] <= points[x].load
  BY <1>6, <1>9, <1>13, <1>14
<1>17. \A k \in (n + 1) + 1 .. last : more[order[k]] = points[order[k]].load
  <2> SUFFICES ASSUME NEW k \in (n + 1) + 1 .. last
               PROVE  more[order[k]] = points[order[k]].load
    OBVIOUS
  <2>1. k \in 1 .. last /\ k # n + 1 /\ k \in n + 1 .. last
    BY <1>1, <1>2
  <2>2. left[order[k]] = points[order[k]].load
    BY <1>1, <1>5, <2>1 DEF CutInv
  <2> QED BY <1>13, <1>15, <2>1, <2>2
<1>18. ASSUME NEW k \in 1 .. n + 1
       PROVE  /\ Isolated(points[order[k]]) => more[order[k]] = 0
              /\ rest - cut > 0 => more[order[k]] = 0
              /\ ~Isolated(points[order[k]]) /\ more[order[k]] < points[order[k]].load
                   => \A j \in 1 .. k - 1 : more[order[j]] = 0
  <2>1. \A j \in 1 .. n : j \in 1 .. last /\ j # n + 1 /\ more[order[j]] = left[order[j]]
    <3> SUFFICES ASSUME NEW j \in 1 .. n
                 PROVE  j \in 1 .. last /\ j # n + 1 /\ more[order[j]] = left[order[j]]
      OBVIOUS
    <3>1. j \in 1 .. last /\ j # n + 1
      BY <1>1, <1>2
    <3> QED BY <1>13, <1>15, <3>1
  <2>2. CASE k = n + 1
    <3>1. order[k] = r
      BY <1>3, <2>2
    <3>2. rest > 0 => \A j \in 1 .. n : left[order[j]] = 0
      BY <1>5 DEF CutInv
    <3>3. k - 1 = n
      BY <1>2, <2>2
    <3>4. isolated => more[r] = 0
      BY <1>13
    <3>5. rest - cut > 0 => more[r] = 0
      BY <1>10, <1>13
    <3>6. ~isolated /\ more[r] < load => rest > 0
      BY <1>10, <1>13
    <3> QED BY <1>4, <1>6, <2>1, <3>1, <3>2, <3>3, <3>4, <3>5, <3>6
  <2>3. CASE k # n + 1
    <3>1. k \in 1 .. n
      BY <1>2, <2>3
    <3>2. /\ Isolated(points[order[k]]) => left[order[k]] = 0
          /\ rest > 0 => left[order[k]] = 0
          /\ ~Isolated(points[order[k]]) /\ left[order[k]] < points[order[k]].load
               => \A j \in 1 .. k - 1 : left[order[j]] = 0
      BY <1>5, <3>1 DEF CutInv
    <3>3. \A j \in 1 .. k - 1 : j \in 1 .. n
      BY <1>2, <3>1
    <3> QED BY <1>10, <2>1, <3>1, <3>2, <3>3
  <2> QED BY <2>2, <2>3
<1>19. SumFunctionOnSet(Gone(points, more), DOMAIN points) + (rest - cut) = overage
  <2>1. PICK f, g : f = Gone(points, left) /\ g = Gone(points, more)
    OBVIOUS
  <2>2. \A x \in DOMAIN points :
          /\ f[x] = IF Isolated(points[x]) THEN 0 ELSE points[x].load - left[x]
          /\ g[x] = IF Isolated(points[x]) THEN 0 ELSE points[x].load - more[x]
    BY <2>1 DEF Gone
  <2>3. \A x \in DOMAIN points : points[x].load \in Int
    BY DEF Plotted
  <2>4. \A x \in DOMAIN points : f[x] \in Int /\ g[x] \in Int
    BY <1>9, <1>16, <2>2, <2>3
  <2>5. \A x \in DOMAIN points : x # r => g[x] = f[x]
    BY <1>13, <2>2
  <2>6. g[r] - f[r] = cut
    <3>1. f[r] = 0
      BY <1>4, <1>6, <1>9, <2>2
    <3>2. g[r] = cut
      <4>1. CASE isolated
        BY <1>4, <1>10, <2>2, <4>1
      <4>2. CASE ~isolated
        <5>1. g[r] = load - (load - cut)
          BY <1>4, <1>6, <1>13, <2>2, <4>2
        <5> QED BY <1>10, <5>1
      <4> QED BY <4>1, <4>2
    <3> QED BY <1>10, <3>1, <3>2
  <2>7. SumFunctionOnSet(g, DOMAIN points)
          = SumFunctionOnSet(f, DOMAIN points) + cut
    BY <2>4, <2>5, <2>6, SumChanges DEF Plotted
  <2>8. SumFunctionOnSet(f, DOMAIN points) \in Int
    BY <2>4, SumIsInt DEF Plotted
  <2>9. SumFunctionOnSet(f, DOMAIN points) + rest = overage
    BY <1>5, <2>1 DEF CutInv
  <2> QED BY <1>9, <1>10, <2>1, <2>7, <2>8, <2>9
<1>20. rest - cut \in Nat
  BY <1>10
<1> QED BY <1>1, <1>8, <1>12, <1>13, <1>16, <1>17, <1>18, <1>19, <1>20 DEF CutInv

LEMMA InOrderListing ==
  ASSUME NEW S, IsFiniteSet(S), NEW before, StrictOrder(S, before)
  PROVE  LET order == InOrder(S, before)
         IN  /\ Lists(order, S) /\ Len(order) = Cardinality(S)
             /\ DOMAIN order = 1 .. Len(order)
             /\ \A i, j \in 1 .. Len(order) :
                  <<order[i], order[j]>> \in before => i < j
<1>1. PICK order : order = InOrder(S, before)
  OBVIOUS
<1>2. PICK n \in Nat : n = Cardinality(S)
  BY FS_CardinalityType
<1>3. /\ DOMAIN order = 1 .. n
      /\ \A i \in 1 .. n : order[i] \in S
      /\ \A i, j \in 1 .. n : <<order[i], order[j]>> \in before => i < j
      /\ \A x \in S : \E i \in 1 .. n : order[i] = x
      /\ \A i, j \in 1 .. n : order[i] = order[j] => i = j
  <2>1. /\ DOMAIN order = 1 .. n
        /\ \A i \in DOMAIN order : order[i] \in S
        /\ \A i, j \in DOMAIN order : <<order[i], order[j]>> \in before => i < j
    BY <1>1, <1>2, InOrderFacts
  <2>2. /\ \A x \in S : \E i \in DOMAIN order : order[i] = x
        /\ \A i, j \in DOMAIN order : order[i] = order[j] => i = j
    BY <1>1, InOrderListsAll
  <2> QED BY <2>1, <2>2
<1>4. Len(order) = n
  <2> DEFINE Nth(i) == CHOOSE x \in S :
                         Cardinality({y \in S : <<y, x>> \in before}) = i - 1
  <2>1. order = [i \in 1 .. n |-> Nth(i)]
    BY <1>1, <1>2 DEF InOrder
  <2> HIDE DEF Nth
  <2>2. order \in Seq(S)
    BY <1>2, <1>3, <2>1
  <2>3. Len(order) \in Nat /\ DOMAIN order = 1 .. Len(order)
    BY <2>2, LenProperties
  <2> QED BY <1>2, <1>3, <2>3
<1> QED BY <1>1, <1>2, <1>3, <1>4 DEF Lists

\* What a policy with that overage leaves to each rack: rest of the overage was
\* not found.
LeftInv(points, overage, rest, left) ==
  /\ rest \in Nat /\ DOMAIN left = DOMAIN points
  /\ \A r \in DOMAIN points :
       /\ left[r] \in Nat /\ left[r] <= points[r].load
       /\ Isolated(points[r]) => left[r] = 0
       /\ rest > 0 => left[r] = 0
       /\ ~Isolated(points[r]) /\ left[r] < points[r].load =>
            \A s \in DOMAIN points : <<s, r>> \in Ranking(points) => left[s] = 0
  /\ SumFunctionOnSet(Gone(points, left), DOMAIN points) + rest = overage

LEMMA CutsLeave ==
  ASSUME NEW site, NEW points, Plotted(site, points), NEW overage \in Nat,
         NEW order, order = InOrder(DOMAIN points, Ranking(points)),
         NEW left, left = Cuts(points, overage, order)[Len(order)].load
  PROVE  \E rest : LeftInv(points, overage, rest, left)
<1>1. /\ Lists(order, DOMAIN points)
      /\ \A i, j \in 1 .. Len(order) :
           <<order[i], order[j]>> \in Ranking(points) => i < j
  BY RankingOrder, InOrderListing DEF Plotted
<1>2. PICK n \in Nat : n = Len(order)
  BY <1>1 DEF Lists
<1>3. PICK acc : acc = Cuts(points, overage, order)
  OBVIOUS
<1>4. /\ acc[0] = [overage |-> overage, load |-> LoadsOf(points)]
      /\ \A k \in 0 .. n - 1 : acc[k + 1] = Cut(points, acc[k], order[k + 1])
  BY <1>2, <1>3, CutsFollow
<1>5. CutInv(points, overage, order, n, acc[n].overage, acc[n].load)
  <2> DEFINE P == {k \in 0 .. n :
                     CutInv(points, overage, order, k, acc[k].overage, acc[k].load)}
  <2>1. 0 \in P
    <3>1. acc[0].overage = overage /\ acc[0].load = LoadsOf(points)
      BY <1>4
    <3> QED BY <1>1, <1>2, <3>1, FirstCut
  <2>2. ASSUME NEW k \in 0 .. n - 1, k \in P PROVE k + 1 \in P
    <3>1. CutInv(points, overage, order, k, acc[k].overage, acc[k].load)
      BY <2>2
    <3>2. PICK next : next = Cut(points, acc[k], order[k + 1])
      OBVIOUS
    <3>3. CutInv(points, overage, order, k + 1, next.overage, next.load)
      BY <1>1, <1>2, <3>1, <3>2, NextCut
    <3>4. acc[k + 1] = next /\ k + 1 \in 0 .. n
      BY <1>2, <1>4, <3>2
    <3> QED BY <3>3, <3>4
  <2> HIDE DEF P
  <2>3. \A k \in 0 .. n : k \in P
    BY <1>2, <2>1, <2>2, CountingUp
  <2>4. n \in 0 .. n
    BY <1>2
  <2> QED BY <2>3, <2>4 DEF P
<1>6. PICK rest : rest = acc[n].overage
  OBVIOUS
<1>7. CutInv(points, overage, order, n, rest, left)
  BY <1>2, <1>3, <1>5, <1>6
<1>8. ASSUME NEW r \in DOMAIN points
      PROVE  /\ left[r] \in Nat /\ left[r] <= points[r].load
             /\ Isolated(points[r]) => left[r] = 0
             /\ rest > 0 => left[r] = 0
             /\ ~Isolated(points[r]) /\ left[r] < points[r].load =>
                  \A s \in DOMAIN points :
                    <<s, r>> \in Ranking(points) => left[s] = 0
  <2>1. PICK k \in 1 .. n : order[k] = r
    BY <1>1, <1>2 DEF Lists
  <2>2. /\ left[r] \in Nat /\ left[r] <= points[r].load
        /\ Isolated(points[r]) => left[r] = 0
        /\ rest > 0 => left[r] = 0
        /\ ~Isolated(points[r]) /\ left[r] < points[r].load
             => \A j \in 1 .. k - 1 : left[order[j]] = 0
    BY <1>7, <2>1 DEF CutInv
  <2>3. ASSUME NEW s \in DOMAIN points, <<s, r>> \in Ranking(points)
        PROVE  \E j \in 1 .. k - 1 : order[j] = s
    <3>1. PICK j \in 1 .. n : order[j] = s
      BY <1>1, <1>2 DEF Lists
    <3>2. j < k
      BY <1>1, <1>2, <2>1, <2>3, <3>1
    <3>3. j \in 1 .. k - 1
      BY <1>2, <3>2
    <3> QED BY <3>1, <3>3
  <2> QED BY <2>2, <2>3
<1>9. /\ rest \in Nat /\ DOMAIN left = DOMAIN points
      /\ SumFunctionOnSet(Gone(points, left), DOMAIN points) + rest = overage
  BY <1>7 DEF CutInv
<1> QED BY <1>8, <1>9 DEF LeftInv

LEMMA PolicyFacts ==
  /\ DOMAIN Policies = {"priority_balanced", "protective_thermal"}
  /\ \A name \in DOMAIN Policies :
       /\ Policies[name].capacityPct \in {95, 100}
       /\ Policies[name].softLimit \in Int
       /\ Policies[name].upPct \in Nat /\ Policies[name].downPct \in Nat
  /\ Policies["priority_balanced"].capacityPct = 100
  /\ Policies["protective_thermal"].capacityPct = 95
  /\ Policies["protective_thermal"].softLimit
       <= Policies["priority_balanced"].softLimit
BY DEF Policies

LEMMA LeftFacts ==
  ASSUME NEW site, Profiled(site), NEW points, Plotted(site, points),
         NEW name \in DOMAIN Policies
  PROVE  \E rest : LeftInv(points,
                           Overage(site, Policies[name].capacityPct, points),
                           rest, LeftByPolicy(site, Policies[name], points))
<1>1. PICK policy : policy = Policies[name]
  OBVIOUS
<1>2. PICK overage : overage = Overage(site, policy.capacityPct, points)
  OBVIOUS
<1>3. overage \in Nat
  BY <1>1, <1>2, OverageFacts, PolicyFacts
<1>4. PICK order : order = InOrder(DOMAIN points, Ranking(points))
  OBVIOUS
<1>5. PICK left : left = Cuts(points, overage, order)[Len(order)].load
  OBVIOUS
<1>6. LeftByPolicy(site, policy, points) = left
  BY <1>2, <1>4, <1>5 DEF LeftByPolicy
<1>7. \E rest : LeftInv(points, overage, rest, left)
  BY <1>3, <1>4, <1>5, CutsLeave
<1> QED BY <1>1, <1>2, <1>6, <1>7

\* What a policy leaves, the site may draw.
LEMMA LeftWithinCapacity ==
  ASSUME NEW site, Profiled(site), NEW points, Plotted(site, points),
         NEW name \in DOMAIN Policies
  PROVE  SumFunctionOnSet(LeftByPolicy(site, Policies[name], points), DOMAIN points)
           <= Percent(SiteSafeCapacityForAmbient(site, AverageAmbient(points)),
                      Policies[name].capacityPct)
<1>1. PICK R : R = DOMAIN points
  OBVIOUS
<1>2. PICK loads : loads = LoadsOf(points)
  OBVIOUS
<1>3. PICK total, capacity, overage :
        /\ total = SumFunctionOnSet(loads, R)
        /\ capacity = Percent(SiteSafeCapacityForAmbient(
                                site, AverageAmbient(points)),
                              Policies[name].capacityPct)
        /\ overage = Overage(site, Policies[name].capacityPct, points)
  OBVIOUS
<1>4. /\ total \in Nat /\ capacity \in Nat
      /\ overage = Larger(total - capacity, 0)
  BY <1>1, <1>2, <1>3, OverageFacts, PolicyFacts
<1>5. PICK left : left = LeftByPolicy(site, Policies[name], points)
  OBVIOUS
<1>6. PICK rest : LeftInv(points, overage, rest, left)
  BY <1>3, <1>5, LeftFacts
<1>7. IsFiniteSet(R) /\ \A r \in R : points[r].load \in Nat /\ loads[r] = points[r].load
  BY <1>1, <1>2 DEF Plotted, LoadsOf
<1>8. /\ rest \in Nat
      /\ \A r \in R : /\ left[r] \in Nat /\ left[r] <= points[r].load
                      /\ Isolated(points[r]) => left[r] = 0
                      /\ rest > 0 => left[r] = 0
      /\ SumFunctionOnSet(Gone(points, left), R) + rest = overage
  BY <1>1, <1>6 DEF LeftInv
<1>9. CASE rest > 0
  <2>1. SumFunctionOnSet(left, R) = 0
    BY <1>7, <1>8, <1>9, SumOfZeros
  <2> QED BY <1>1, <1>3, <1>4, <1>5, <2>1
<1>10. CASE rest = 0
  <2>1. PICK gone : gone = Gone(points, left)
    OBVIOUS
  <2>2. \A r \in R : gone[r] = IF Isolated(points[r]) THEN 0
                               ELSE points[r].load - left[r]
    BY <1>1, <2>1 DEF Gone
  <2>3. \A r \in R : gone[r] \in Int /\ left[r] <= loads[r] - gone[r]
    BY <1>7, <1>8, <2>2
  <2>4. PICK kept : kept = [r \in R |-> loads[r] - gone[r]]
    OBVIOUS
  <2>5. \A r \in R : /\ kept[r] \in Int /\ gone[r] \in Int
                     /\ loads[r] = kept[r] + gone[r]
                     /\ left[r] \in Int /\ left[r] <= kept[r]
    BY <1>7, <1>8, <2>3, <2>4
  <2>6. total = SumFunctionOnSet(kept, R) + SumFunctionOnSet(gone, R)
    BY <1>3, <1>7, <2>5, SumPlus
  <2>7. SumFunctionOnSet(left, R) <= SumFunctionOnSet(kept, R)
    BY <1>7, <2>5, SumBelow
  <2>8. PICK a \in Int, b \in Int, c \in Int :
          /\ a = SumFunctionOnSet(kept, R) /\ b = SumFunctionOnSet(gone, R)
          /\ c = SumFunctionOnSet(left, R)
    BY <1>7, <2>5, SumIsInt
  <2>9. b = overage /\ total = a + b /\ c <= a
    BY <1>8, <1>10, <2>1, <2>6, <2>7, <2>8
  <2>10. c <= capacity
    BY <1>4, <2>9 DEF Larger
  <2> QED BY <1>1, <1>3, <1>5, <2>8, <2>10
<1> QED BY <1>8, <1>9, <1>10

\* Of two cuts of the same bucket the second is of more.
NoMore(points, a, b) ==
  /\ DOMAIN a.load = DOMAIN points /\ DOMAIN b.load = DOMAIN points
  /\ a.overage \in Nat /\ b.overage \in Nat /\ a.overage >= b.overage
  /\ \A r \in DOMAIN points :
       /\ a.load[r] \in Int /\ b.load[r] \in Int /\ a.load[r] <= b.load[r]

LEMMA LesserCuts ==
  ASSUME NEW more \in Nat, NEW less \in Nat, less <= more, NEW load \in Nat,
         NEW small \in Int, NEW large \in Int, small <= large
  PROVE  LET c == Lesser(more, load)
             d == Lesser(less, load)
         IN  /\ more - c \in Nat /\ less - d \in Nat /\ more - c >= less - d
             /\ small - c \in Int /\ large - d \in Int /\ small - c <= large - d
BY DEF Lesser

LEMMA CutsKeepOrder ==
  ASSUME NEW site, NEW points, Plotted(site, points), NEW a, NEW b,
         NoMore(points, a, b), NEW r \in DOMAIN points
  PROVE  NoMore(points, Cut(points, a, r), Cut(points, b, r))
<1>1. PICK c, d : c = Cut(points, a, r) /\ d = Cut(points, b, r)
  OBVIOUS
<1>2. PICK load \in Nat : load = points[r].load
  BY DEF Plotted
<1>3. /\ a.overage \in Nat /\ b.overage \in Nat /\ b.overage <= a.overage
      /\ a.load[r] \in Int /\ b.load[r] \in Int /\ a.load[r] <= b.load[r]
      /\ DOMAIN a.load = DOMAIN points /\ DOMAIN b.load = DOMAIN points
  BY DEF NoMore
<1>4. ASSUME NEW x, NEW y, NEW e, NEW f,
             c = [overage |-> x, load |-> [a.load EXCEPT ![r] = e]],
             d = [overage |-> y, load |-> [b.load EXCEPT ![r] = f]],
             x \in Nat, y \in Nat, x >= y, e \in Int, f \in Int, e <= f
      PROVE  NoMore(points, c, d)
  <2>1. PICK g, h : g = [a.load EXCEPT ![r] = e] /\ h = [b.load EXCEPT ![r] = f]
    OBVIOUS
  <2>2. c.overage = x /\ c.load = g /\ d.overage = y /\ d.load = h
    BY <1>4, <2>1
  <2>3. /\ DOMAIN g = DOMAIN points /\ DOMAIN h = DOMAIN points
        /\ \A s \in DOMAIN points :
             /\ g[s] = IF s = r THEN e ELSE a.load[s]
             /\ h[s] = IF s = r THEN f ELSE b.load[s]
    BY <1>3, <2>1
  <2>4. \A s \in DOMAIN points :
          g[s] \in Int /\ h[s] \in Int /\ g[s] <= h[s]
    BY <1>4, <2>3 DEF NoMore
  <2> QED BY <1>4, <2>2, <2>3, <2>4 DEF NoMore
<1>5. CASE Isolated(points[r])
  <2>1. /\ c = [overage |-> a.overage - 0, load |-> [a.load EXCEPT ![r] = 0]]
        /\ d = [overage |-> b.overage - 0, load |-> [b.load EXCEPT ![r] = 0]]
    BY <1>1, <1>5 DEF Cut
  <2>2. /\ a.overage - 0 \in Nat /\ b.overage - 0 \in Nat
        /\ a.overage - 0 >= b.overage - 0 /\ 0 \in Int /\ 0 <= 0
    BY <1>3
  <2> QED BY <1>1, <1>4, <2>1, <2>2
<1>6. CASE ~Isolated(points[r])
  <2>1. PICK m, n : m = Lesser(a.overage, load) /\ n = Lesser(b.overage, load)
    OBVIOUS
  <2>2. /\ c = [overage |-> a.overage - m,
                load |-> [a.load EXCEPT ![r] = a.load[r] - m]]
        /\ d = [overage |-> b.overage - n,
                load |-> [b.load EXCEPT ![r] = b.load[r] - n]]
    BY <1>1, <1>2, <1>3, <1>6, <2>1 DEF Cut
  <2>3. /\ a.overage - m \in Nat /\ b.overage - n \in Nat
        /\ a.overage - m >= b.overage - n
        /\ a.load[r] - m \in Int /\ b.load[r] - n \in Int
        /\ a.load[r] - m <= b.load[r] - n
    BY <1>2, <1>3, <2>1, LesserCuts
  <2> QED BY <1>1, <1>4, <2>2, <2>3
<1> QED BY <1>5, <1>6

\* The protective policy leaves no rack more than the balanced one does.
LEMMA LeftInPolicyOrder ==
  ASSUME NEW site, Profiled(site), NEW points, Plotted(site, points),
         NEW r \in DOMAIN points
  PROVE  LeftByPolicy(site, Policies["protective_thermal"], points)[r]
           <= LeftByPolicy(site, Policies["priority_balanced"], points)[r]
<1>1. PICK order : order = InOrder(DOMAIN points, Ranking(points))
  OBVIOUS
<1>2. Lists(order, DOMAIN points)
  BY <1>1, RankingOrder, InOrderListing DEF Plotted
<1>3. PICK n \in Nat : n = Len(order)
  BY <1>2 DEF Lists
<1>4. PICK more, less : /\ more = Overage(site, 95, points)
                        /\ less = Overage(site, 100, points)
  OBVIOUS
<1>5. more \in Nat /\ less \in Nat /\ more >= less
  BY <1>4, OverageFacts
<1>6. PICK a, b : a = Cuts(points, more, order) /\ b = Cuts(points, less, order)
  OBVIOUS
<1>7. /\ a[0] = [overage |-> more, load |-> LoadsOf(points)]
      /\ \A k \in 0 .. n - 1 : a[k + 1] = Cut(points, a[k], order[k + 1])
      /\ b[0] = [overage |-> less, load |-> LoadsOf(points)]
      /\ \A k \in 0 .. n - 1 : b[k + 1] = Cut(points, b[k], order[k + 1])
  <2>1. Len(order) \in Nat
    BY <1>3
  <2>2. /\ a[0] = [overage |-> more, load |-> LoadsOf(points)]
        /\ \A k \in 0 .. n - 1 : a[k + 1] = Cut(points, a[k], order[k + 1])
    BY <1>3, <1>6, <2>1, CutsFollow
  <2>3. /\ b[0] = [overage |-> less, load |-> LoadsOf(points)]
        /\ \A k \in 0 .. n - 1 : b[k + 1] = Cut(points, b[k], order[k + 1])
    BY <1>3, <1>6, <2>1, CutsFollow
  <2> QED BY <2>2, <2>3
<1>8. NoMore(points, a[n], b[n])
  <2> DEFINE P == {k \in 0 .. n : NoMore(points, a[k], b[k])}
  <2>1. 0 \in P
    <3>1. PICK loads : loads = LoadsOf(points)
      OBVIOUS
    <3>2. /\ DOMAIN loads = DOMAIN points
          /\ \A s \in DOMAIN points : loads[s] \in Int /\ loads[s] <= loads[s]
      BY <3>1 DEF LoadsOf, Plotted
    <3>3. /\ a[0].overage = more /\ a[0].load = loads
          /\ b[0].overage = less /\ b[0].load = loads
      BY <1>7, <3>1
    <3> QED BY <1>3, <1>5, <3>2, <3>3 DEF NoMore
  <2>2. ASSUME NEW k \in 0 .. n - 1, k \in P PROVE k + 1 \in P
    <3>1. k + 1 \in 1 .. n /\ k + 1 \in 0 .. n
      BY <1>3
    <3>2. order[k + 1] \in DOMAIN points
      BY <1>2, <1>3, <3>1 DEF Lists
    <3>3. NoMore(points, a[k], b[k])
      BY <2>2
    <3>4. NoMore(points, a[k + 1], b[k + 1])
      BY <1>7, <3>2, <3>3, CutsKeepOrder
    <3> QED BY <3>1, <3>4
  <2> HIDE DEF P
  <2>3. \A k \in 0 .. n : k \in P
    BY <1>3, <2>1, <2>2, CountingUp
  <2>4. n \in 0 .. n
    BY <1>3
  <2> QED BY <2>3, <2>4 DEF P
<1>9. /\ LeftByPolicy(site, Policies["protective_thermal"], points) = a[n].load
      /\ LeftByPolicy(site, Policies["priority_balanced"], points) = b[n].load
  BY <1>1, <1>3, <1>4, <1>6, PolicyFacts DEF LeftByPolicy
<1> QED BY <1>8, <1>9 DEF NoMore

\* What the racks that may be sacrificed draw.
Sacrificial(points) ==
  [r \in DOMAIN points |->
     IF points[r].class = "sacrificable_load" THEN points[r].load ELSE 0]

LEMMA SacrificialFacts ==
  ASSUME NEW site, Profiled(site), NEW points, Plotted(site, points)
  PROVE  LET f == Sacrificial(points)
         IN  /\ \A r \in DOMAIN points : f[r] \in Nat
             /\ SumFunctionOnSet(f, DOMAIN points) \in Nat
             /\ WouldEscalate(site, points) <=>
                  SumFunctionOnSet(f, DOMAIN points) < Overage(site, 100, points)
<1>1. PICK R, f : R = DOMAIN points /\ f = Sacrificial(points)
  OBVIOUS
<1>2. /\ IsFiniteSet(R)
      /\ \A r \in R : f[r] \in Nat
      /\ \A r \in R : f[r] = IF points[r].class = "sacrificable_load"
                             THEN points[r].load ELSE 0
  BY <1>1 DEF Plotted, Sacrificial
<1>3. PICK pool \in SUBSET R :
        pool = {r \in R : points[r].class = "sacrificable_load"}
  OBVIOUS
<1>4. PICK g : g = [r \in pool |-> points[r].load]
  OBVIOUS
<1>5. WouldEscalate(site, points) <=>
        SumFunctionOnSet(g, pool) < Overage(site, 100, points)
  <2>1. Sum(g) = SumFunctionOnSet(g, pool)
    BY <1>4 DEF Sum, SumFunction
  <2> QED BY <1>1, <1>3, <1>4, <2>1 DEF WouldEscalate
<1>6. SumFunctionOnSet(f, R) = SumFunctionOnSet(f, pool)
  BY <1>2, <1>3, SumOverPart
<1>7. SumFunctionOnSet(f, pool) = SumFunctionOnSet(g, pool)
  <2>1. IsFiniteSet(pool)
    BY <1>2, <1>3, FS_Subset
  <2>2. \A r \in pool : f[r] = g[r]
    BY <1>2, <1>3, <1>4
  <2> QED BY <2>1, <2>2, SumAgrees
<1>8. SumFunctionOnSet(f, R) \in Nat
  BY <1>2, SumIsNat
<1> QED BY <1>1, <1>2, <1>5, <1>6, <1>7, <1>8

LEMMA TouchedFacts ==
  ASSUME NEW site, Profiled(site), NEW points, Plotted(site, points),
         NEW left, left = LeftByPolicy(site, Policies["priority_balanced"], points),
         NEW rest, LeftInv(points, Overage(site, 100, points), rest, left)
  PROVE  Touched(site, points) <=>
           \/ \E r \in DOMAIN points : /\ ~Isolated(points[r])
                                       /\ points[r].class # "sacrificable_load"
                                       /\ left[r] < points[r].load
           \/ rest > 0
<1>1. PICK R, gone, overage :
        /\ R = DOMAIN points /\ gone = Gone(points, left)
        /\ overage = Overage(site, 100, points)
  OBVIOUS
<1>2. PICK open \in SUBSET R : open = {r \in R : ~Isolated(points[r])}
  OBVIOUS
<1>3. /\ IsFiniteSet(R) /\ rest \in Nat
      /\ \A r \in R : points[r].load \in Int /\ left[r] \in Int
      /\ SumFunctionOnSet(gone, R) + rest = overage
  BY <1>1 DEF Plotted, LeftInv
<1>4. \A r \in R : gone[r] = IF Isolated(points[r]) THEN 0
                             ELSE points[r].load - left[r]
  BY <1>1 DEF Gone
<1>5. PICK g : g = [r \in open |-> points[r].load - left[r]]
  OBVIOUS
<1>6. SumFunctionOnSet(gone, R) = SumFunctionOnSet(gone, open)
  <2>1. \A r \in R : gone[r] \in Int
    BY <1>3, <1>4
  <2>2. \A r \in R \ open : gone[r] = 0
    BY <1>2, <1>4
  <2> QED BY <1>2, <1>3, <2>1, <2>2, SumOverPart
<1>7. SumFunctionOnSet(gone, open) = SumFunctionOnSet(g, open)
  <2>1. IsFiniteSet(open)
    BY <1>2, <1>3, FS_Subset
  <2>2. \A r \in open : gone[r] = g[r]
    BY <1>2, <1>4, <1>5
  <2> QED BY <2>1, <2>2, SumAgrees
<1>8. SumFunctionOnSet(gone, R) \in Int
  <2>1. \A r \in R : gone[r] \in Int
    BY <1>3, <1>4
  <2> QED BY <1>3, <2>1, SumIsInt
<1>9. Sum(g) < overage <=> rest > 0
  <2>1. Sum(g) = SumFunctionOnSet(g, open)
    BY <1>5 DEF Sum, SumFunction
  <2> QED BY <1>3, <1>6, <1>7, <1>8, <2>1
<1>10. Touched(site, points) <=>
         \/ \E r \in open : /\ points[r].class # "sacrificable_load"
                            /\ left[r] < points[r].load
         \/ Sum(g) < overage
  BY <1>1, <1>2, <1>5, PolicyFacts DEF Touched
<1> QED BY <1>1, <1>2, <1>9, <1>10

\* The pilot, which does not replay, escalates just when the policy would have
\* to touch production load or would not find the load.
LEMMA PilotAgrees ==
  ASSUME NEW site, Profiled(site), NEW points, Plotted(site, points),
         \A r \in DOMAIN points :
           ~(points[r].locked /\ points[r].class = "sacrificable_load")
  PROVE  WouldEscalate(site, points) <=> Touched(site, points)
<1>1. PICK R, overage : R = DOMAIN points /\ overage = Overage(site, 100, points)
  OBVIOUS
<1>2. PICK left : left = LeftByPolicy(site, Policies["priority_balanced"], points)
  OBVIOUS
<1>3. PICK rest : LeftInv(points, overage, rest, left)
  BY <1>1, <1>2, LeftFacts, PolicyFacts
<1>4. PICK gone, sac : gone = Gone(points, left) /\ sac = Sacrificial(points)
  OBVIOUS
<1>5. \A r \in R : /\ gone[r] = IF Isolated(points[r]) THEN 0
                                ELSE points[r].load - left[r]
                   /\ sac[r] = IF points[r].class = "sacrificable_load"
                               THEN points[r].load ELSE 0
  BY <1>1, <1>4 DEF Gone, Sacrificial
<1>6. /\ IsFiniteSet(R) /\ \A r \in R : points[r].load \in Nat
      /\ \A r \in R : left[r] \in Nat /\ left[r] <= points[r].load
      /\ \A r \in R : rest > 0 => left[r] = 0
      /\ rest \in Nat
      /\ SumFunctionOnSet(gone, R) + rest = overage
  BY <1>1, <1>3, <1>4 DEF Plotted, LeftInv
<1>7. \A r \in R : points[r].class = "sacrificable_load" => ~Isolated(points[r])
  BY <1>1 DEF Plotted
<1>8. \A r \in R : gone[r] \in Nat /\ sac[r] \in Nat
  BY <1>5, <1>6
<1>9. PICK g \in Nat, w \in Nat :
        g = SumFunctionOnSet(gone, R) /\ w = SumFunctionOnSet(sac, R)
  BY <1>6, <1>8, SumIsNat
<1>10. WouldEscalate(site, points) <=> w < overage
  BY <1>1, <1>4, <1>9, SacrificialFacts
<1>11. g + rest = overage
  BY <1>6, <1>9
<1>12. Touched(site, points) <=>
         \/ \E r \in R : /\ ~Isolated(points[r])
                         /\ points[r].class # "sacrificable_load"
                         /\ left[r] < points[r].load
         \/ rest > 0
  BY <1>1, <1>2, <1>3, TouchedFacts
<1>13. ASSUME w < overage, ~Touched(site, points) PROVE FALSE
  <2>1. rest = 0
    BY <1>6, <1>12, <1>13
  <2>2. \A r \in R : gone[r] <= sac[r]
    <3> SUFFICES ASSUME NEW r \in R PROVE gone[r] <= sac[r]
      OBVIOUS
    <3>1. points[r].load \in Nat /\ left[r] \in Nat /\ left[r] <= points[r].load
      BY <1>6
    <3>2. CASE Isolated(points[r])
      BY <1>5, <1>8, <3>2
    <3>3. CASE ~Isolated(points[r]) /\ points[r].class = "sacrificable_load"
      BY <1>5, <3>1, <3>3
    <3>4. CASE ~Isolated(points[r]) /\ points[r].class # "sacrificable_load"
      <4>1. ~(left[r] < points[r].load)
        BY <1>12, <1>13, <3>4
      <4> QED BY <1>5, <3>1, <3>4, <4>1
    <3> QED BY <3>2, <3>3, <3>4
  <2>3. g <= w
    <3>1. \A r \in R : gone[r] \in Int /\ sac[r] \in Int /\ gone[r] <= sac[r]
      BY <1>8, <2>2
    <3> QED BY <1>6, <1>9, <3>1, SumBelow
  <2> QED BY <1>9, <1>11, <1>13, <2>1, <2>3
<1>14. ASSUME ~(w < overage), rest > 0 PROVE FALSE
  <2>1. \A r \in R : sac[r] <= gone[r]
    <3> SUFFICES ASSUME NEW r \in R PROVE sac[r] <= gone[r]
      OBVIOUS
    <3>1. points[r].load \in Nat /\ left[r] = 0
      BY <1>6, <1>14
    <3>2. CASE points[r].class = "sacrificable_load"
      BY <1>5, <1>7, <3>1, <3>2
    <3>3. CASE points[r].class # "sacrificable_load"
      BY <1>5, <1>8, <3>3
    <3> QED BY <3>2, <3>3
  <2>2. w <= g
    <3>1. \A r \in R : gone[r] \in Int /\ sac[r] \in Int /\ sac[r] <= gone[r]
      BY <1>8, <2>1
    <3> QED BY <1>6, <1>9, <3>1, SumBelow
  <2> QED BY <1>6, <1>9, <1>11, <1>14, <2>2
<1>15. ASSUME ~(w < overage), NEW r \in R, ~Isolated(points[r]),
              points[r].class # "sacrificable_load", left[r] < points[r].load
       PROVE  FALSE
  <2>1. \A s \in R : <<s, r>> \in Ranking(points) => left[s] = 0
    BY <1>1, <1>3, <1>15 DEF LeftInv
  <2>2. points[r].class \in {"normal_production", "preferred_production"}
    BY <1>1, <1>15 DEF Plotted, Class, Isolated
  <2>3. \A s \in R : points[s].class = "sacrificable_load" => left[s] = 0
    <3> SUFFICES ASSUME NEW s \in R, points[s].class = "sacrificable_load"
                 PROVE  left[s] = 0
      OBVIOUS
    <3>1. CurtailmentPriority(points[s].class) < CurtailmentPriority(points[r].class)
      BY <2>2 DEF CurtailmentPriority
    <3>2. <<s, r>> \in Ranking(points)
      BY <1>1, <3>1 DEF Ranking
    <3> QED BY <2>1, <3>2
  <2>4. PICK h : h = [sac EXCEPT ![r] = 1]
    OBVIOUS
  <2>5. /\ sac[r] = 0 /\ DOMAIN sac = R
        /\ h[r] = 1 /\ \A s \in R : s # r => h[s] = sac[s]
    BY <1>1, <1>4, <1>5, <1>15, <2>4 DEF Sacrificial
  <2>6. \A s \in R : h[s] \in Int /\ h[s] <= gone[s]
    <3> SUFFICES ASSUME NEW s \in R PROVE h[s] \in Int /\ h[s] <= gone[s]
      OBVIOUS
    <3>1. points[s].load \in Nat /\ left[s] \in Nat
      BY <1>6
    <3>2. CASE s = r
      <4>1. gone[s] = points[s].load - left[s] /\ left[s] < points[s].load
        BY <1>5, <1>15, <3>2
      <4> QED BY <2>5, <3>1, <3>2, <4>1
    <3>3. CASE s # r /\ points[s].class = "sacrificable_load"
      BY <1>5, <1>7, <2>3, <2>5, <3>1, <3>3
    <3>4. CASE s # r /\ points[s].class # "sacrificable_load"
      BY <1>5, <1>8, <2>5, <3>4
    <3> QED BY <3>2, <3>3, <3>4
  <2>7. SumFunctionOnSet(h, R) = w + 1
    <3>1. \A s \in R : sac[s] \in Int /\ h[s] \in Int
      BY <1>8, <2>6
    <3>2. SumFunctionOnSet(h, R) = w + (h[r] - sac[r])
      BY <1>6, <1>9, <2>5, <3>1, SumChanges
    <3> QED BY <1>9, <2>5, <3>2
  <2>8. SumFunctionOnSet(h, R) <= g
    <3>1. \A s \in R : h[s] \in Int /\ gone[s] \in Int /\ h[s] <= gone[s]
      BY <1>8, <2>6
    <3> QED BY <1>6, <1>9, <3>1, SumBelow
  <2>9. w + 1 <= g
    BY <2>7, <2>8
  <2>10. overage \in Int
    BY <1>6, <1>9, <1>11
  <2> QED BY <1>6, <1>9, <1>11, <1>15, <2>9, <2>10
<1> QED BY <1>10, <1>12, <1>13, <1>14, <1>15
-----------------------------------------------------------------------------
(* Cooling and ramps.                                                       *)

LEMMA CooledFacts ==
  ASSUME NEW policy, policy.softLimit \in Int,
         NEW p, p.load \in Nat, p.temp \in Int, p.ambient \in Int,
         NEW wanted \in Nat
  PROVE  LET cooled == Cooled(policy, p, wanted)
         IN  cooled \in Nat /\ cooled <= wanted
<1>1. PICK rise \in Int : rise = p.temp - p.ambient
  OBVIOUS
<1>2. PICK allowed \in Nat : allowed = Larger(policy.softLimit - p.ambient, 0)
  BY DEF Larger
<1>3. PICK load \in Nat : load = p.load
  OBVIOUS
<1>4. rise > 0 => (load \div rise) * allowed \in Nat
  <2> SUFFICES ASSUME rise > 0 PROVE (load \div rise) * allowed \in Nat
    OBVIOUS
  <2>1. PICK each \in Nat : each = load \div rise
    OBVIOUS
  <2>2. each * allowed \in Nat
    OBVIOUS
  <2> QED BY <2>1, <2>2
<1>5. PICK most : most = (load \div rise) * allowed
  OBVIOUS
<1>6. Cooled(policy, p, wanted)
        = IF rise > 0 /\ wanted > 0 /\ allowed < rise THEN Lesser(wanted, most)
          ELSE wanted
  BY <1>1, <1>2, <1>3, <1>5 DEF Cooled
<1>7. rise > 0 => most \in Nat
  BY <1>4, <1>5
<1>8. most \in Nat => Lesser(wanted, most) \in Nat /\ Lesser(wanted, most) <= wanted
  BY DEF Lesser
<1> QED BY <1>6, <1>7, <1>8

LEMMA ProductOfMore ==
  ASSUME NEW each \in Nat, NEW c \in Nat, NEW d \in Nat, c <= d
  PROVE  each * c \in Nat /\ each * d \in Nat /\ each * c <= each * d
<1>1. PICK more \in Nat : d = c + more
  <2>1. d - c \in Nat /\ d = c + (d - c)
    OBVIOUS
  <2> QED BY <2>1
<1>2. PICK ec \in Nat, extra \in Nat : ec = each * c /\ extra = each * more
  OBVIOUS
<1>3. each * d = ec + extra
  BY <1>1, <1>2
<1> QED BY <1>2, <1>3

\* A policy that cools more and wants less wants less when it has cooled.
LEMMA CooledInOrder ==
  ASSUME NEW a, NEW b, a.softLimit \in Int, b.softLimit \in Int,
         a.softLimit <= b.softLimit,
         NEW p, p.load \in Nat, p.temp \in Int, p.ambient \in Int,
         NEW less \in Nat, NEW more \in Nat, less <= more
  PROVE  Cooled(a, p, less) <= Cooled(b, p, more)
<1>1. PICK rise \in Int : rise = p.temp - p.ambient
  OBVIOUS
<1>2. PICK c \in Nat, d \in Nat :
        /\ c = Larger(a.softLimit - p.ambient, 0)
        /\ d = Larger(b.softLimit - p.ambient, 0)
        /\ c <= d
  BY DEF Larger
<1>3. PICK x, y : /\ x = (p.load \div rise) * c /\ y = (p.load \div rise) * d
  OBVIOUS
<1>4. rise > 0 => x \in Nat /\ y \in Nat /\ x <= y
  <2> SUFFICES ASSUME rise > 0 PROVE x \in Nat /\ y \in Nat /\ x <= y
    OBVIOUS
  <2>1. PICK each \in Nat : each = p.load \div rise
    <3>1. PICK load \in Nat : load = p.load
      OBVIOUS
    <3>2. load \div rise \in Nat
      OBVIOUS
    <3> QED BY <3>1, <3>2
  <2> QED BY <1>2, <1>3, <2>1, ProductOfMore
<1>5. /\ Cooled(a, p, less)
           = IF rise > 0 /\ less > 0 /\ c < rise THEN Lesser(less, x) ELSE less
      /\ Cooled(b, p, more)
           = IF rise > 0 /\ more > 0 /\ d < rise THEN Lesser(more, y) ELSE more
  BY <1>1, <1>2, <1>3 DEF Cooled
<1>6. CASE ~(rise > 0)
  BY <1>5, <1>6
<1>7. CASE rise > 0
  <2>1. /\ Cooled(a, p, less)
             = IF less > 0 /\ c < rise THEN Lesser(less, x) ELSE less
        /\ Cooled(b, p, more)
             = IF more > 0 /\ d < rise THEN Lesser(more, y) ELSE more
    BY <1>5, <1>7
  <2>2. x \in Nat /\ y \in Nat /\ x <= y
    BY <1>4, <1>7
  <2> QED BY <1>2, <2>1, <2>2 DEF Lesser
<1> QED BY <1>6, <1>7

\* Where the ramps let a load of before arrive that is wanted to be so much.
LEMMA RampFacts ==
  ASSUME NEW before \in Nat, NEW wanted \in Nat, NEW up \in Int, NEW down \in Int
  PROVE  LET load == Larger(ApplyRamp(before, wanted, up, down), 0)
         IN  /\ load \in Nat
             /\ load <= before \/ load <= wanted
             /\ ~(down > 0 /\ load = before - down) => load <= wanted
BY DEF ApplyRamp, Lesser, Larger

LEMMA RampInOrder ==
  ASSUME NEW before \in Nat, NEW earlier \in Nat, before <= earlier,
         NEW less \in Nat, NEW more \in Nat, less <= more,
         NEW up \in Int, NEW rise \in Int, up = rise \/ (up <= 0 /\ rise <= 0),
         NEW down \in Int, NEW fall \in Int,
         down = fall \/ (down <= 0 /\ fall <= 0)
  PROVE  Larger(ApplyRamp(before, less, up, down), 0)
           <= Larger(ApplyRamp(earlier, more, rise, fall), 0)
BY DEF ApplyRamp, Lesser, Larger

LEMMA PercentOfNone ==
  ASSUME NEW x \in Int, x <= 0, NEW pct \in Nat
  PROVE  Percent(x, pct) \in Int /\ Percent(x, pct) <= 0
<1>1. PICK part \in Int : part = x \div 100
  OBVIOUS
<1>2. -part \in Nat
  BY <1>1
<1>3. PICK m \in Nat : m = -part /\ part = -m
  BY <1>2
<1>4. m * pct \in Nat /\ (-m) * pct = -(m * pct)
  OBVIOUS
<1> QED BY <1>1, <1>3, <1>4 DEF Percent

\* The ramps of a rack are the same under every policy, or forbid and leave free
\* the same.
LEMMA RampsAgree ==
  ASSUME NEW site, Profiled(site), NEW points, Plotted(site, points),
         NEW r \in DOMAIN points,
         NEW name \in DOMAIN Policies, NEW other \in DOMAIN Policies
  PROVE  LET a == RampsOf(site, Policies[name], points[r])
             b == RampsOf(site, Policies[other], points[r])
         IN  /\ a.up \in Int /\ b.up \in Int
             /\ (a.up = b.up \/ (a.up <= 0 /\ b.up <= 0))
             /\ a.down \in Int /\ b.down \in Int
             /\ (a.down = b.down \/ (a.down <= 0 /\ b.down <= 0))
<1>1. PICK p : p = points[r]
  OBVIOUS
<1>2. /\ p.load \in Int /\ p.rampUp \in Int /\ p.rampDown \in Int
      /\ p.rampUp <= 0 => site.rampUp <= 0
      /\ p.rampDown <= 0 => site.rampDown <= 0
      /\ site.rampUp \in Int /\ site.rampDown \in Int
  BY <1>1 DEF Plotted, Profiled
<1>3. ASSUME NEW policy \in {Policies[name], Policies[other]}, ~p.locked
      PROVE  LET a == RampsOf(site, policy, p)
             IN  /\ a.up \in Int /\ a.down \in Int
                 /\ p.rampUp > 0 => a.up = p.rampUp
                 /\ ~(p.rampUp > 0) => a.up <= 0
                 /\ p.rampDown > 0 => a.down = p.rampDown
                 /\ ~(p.rampDown > 0) => a.down <= 0
  <2>1. policy.upPct \in Nat /\ policy.downPct \in Nat
    BY PolicyFacts
  <2>2. /\ ~(p.rampUp > 0) => /\ Percent(site.rampUp, policy.upPct) \in Int
                              /\ Percent(site.rampUp, policy.upPct) <= 0
        /\ ~(p.rampDown > 0) => /\ Percent(site.rampDown, policy.downPct) \in Int
                                /\ Percent(site.rampDown, policy.downPct) <= 0
    BY <1>2, <2>1, PercentOfNone
  <2>3. RampsOf(site, policy, p)
          = [up |-> IF p.rampUp > 0 THEN p.rampUp
                    ELSE Percent(site.rampUp, policy.upPct),
             down |-> IF p.rampDown > 0 THEN p.rampDown
                      ELSE Percent(site.rampDown, policy.downPct)]
    BY <1>3 DEF RampsOf
  <2> QED BY <1>2, <2>2, <2>3
<1>4. CASE ~p.locked
  BY <1>1, <1>2, <1>3, <1>4
<1>5. CASE p.locked
  <2>1. /\ RampsOf(site, Policies[name], p) = [up |-> 0, down |-> p.load]
        /\ RampsOf(site, Policies[other], p) = [up |-> 0, down |-> p.load]
    BY <1>5 DEF RampsOf
  <2> QED BY <1>1, <1>2, <2>1
<1> QED BY <1>4, <1>5
-----------------------------------------------------------------------------
(* One bucket of a replay.                                                  *)

Before(previous, points, r) ==
  IF r \in DOMAIN previous THEN previous[r] ELSE points[r].load

LEMMA BucketEntries ==
  ASSUME NEW site, NEW policy, NEW previous, NEW points
  PROVE  LET bucket == ReplayBucket(site, policy, previous, points)
             left == LeftByPolicy(site, policy, points)
         IN  /\ DOMAIN bucket = DOMAIN points
             /\ \A r \in DOMAIN points :
                  LET ramps == RampsOf(site, policy, points[r])
                      wanted == Cooled(policy, points[r], left[r])
                  IN  /\ bucket[r].ramps = ramps
                      /\ bucket[r].before = Before(previous, points, r)
                      /\ bucket[r].load =
                           Larger(ApplyRamp(Before(previous, points, r), wanted,
                                            ramps.up, ramps.down), 0)
<1>1. PICK left : left = LeftByPolicy(site, policy, points)
  OBVIOUS
<1>2. PICK bucket : bucket = ReplayBucket(site, policy, previous, points)
  OBVIOUS
<1> DEFINE One(r) ==
             LET p == points[r]
                 wanted == Cooled(policy, p, left[r])
                 ramps == RampsOf(site, policy, p)
                 before == Before(previous, points, r)
             IN  [ramps |-> ramps, before |-> before,
                  load |-> Larger(ApplyRamp(before, wanted, ramps.up,
                                            ramps.down), 0)]
<1>3. bucket = [r \in DOMAIN points |-> One(r)]
  BY <1>1, <1>2 DEF ReplayBucket, Before
<1>4. DOMAIN bucket = DOMAIN points
  BY <1>3
<1>5. ASSUME NEW r \in DOMAIN points
      PROVE  LET ramps == RampsOf(site, policy, points[r])
                 wanted == Cooled(policy, points[r], left[r])
             IN  /\ bucket[r].ramps = ramps
                 /\ bucket[r].before = Before(previous, points, r)
                 /\ bucket[r].load =
                      Larger(ApplyRamp(Before(previous, points, r), wanted,
                                       ramps.up, ramps.down), 0)
  <2>1. bucket[r] = One(r)
    BY <1>3
  <2> QED BY <2>1
<1> QED BY <1>1, <1>2, <1>4, <1>5

LEMMA IsolatedDrawsNothing ==
  ASSUME NEW load \in Nat, NEW before \in {0, load}
  PROVE  Larger(ApplyRamp(before, 0, 0, load), 0) = 0
BY DEF ApplyRamp, Lesser, Larger

LEMMA BucketFacts ==
  ASSUME NEW site, Profiled(site), NEW points, Plotted(site, points),
         NEW name \in DOMAIN Policies, NEW previous,
         \A r \in DOMAIN previous : previous[r] \in Nat
  PROVE  LET bucket == ReplayBucket(site, Policies[name], previous, points)
         IN  /\ DOMAIN bucket = DOMAIN points
             /\ \A r \in DOMAIN points :
                  /\ bucket[r].load \in Nat
                  /\ \/ bucket[r].load <= Before(previous, points, r)
                     \/ bucket[r].load <= points[r].load
                  /\ Isolated(points[r])
                       /\ Before(previous, points, r) \in {0, points[r].load}
                     => bucket[r].load = 0
             /\ (\A r \in DOMAIN points : ~Held(bucket[r])) =>
                  Draws(bucket) <=
                    Percent(SiteSafeCapacityForAmbient(site, AverageAmbient(points)),
                            Policies[name].capacityPct)
<1>1. PICK policy, bucket : /\ policy = Policies[name]
                            /\ bucket = ReplayBucket(site, policy, previous, points)
  OBVIOUS
<1>2. PICK R, left : R = DOMAIN points /\ left = LeftByPolicy(site, policy, points)
  OBVIOUS
<1>3. /\ IsFiniteSet(R)
      /\ \A r \in R : /\ points[r].load \in Nat /\ points[r].temp \in Int
                      /\ points[r].ambient \in Int
  BY <1>2 DEF Plotted
<1>9. PICK overage, rest : LeftInv(points, overage, rest, left)
  BY <1>1, <1>2, LeftFacts
<1>10. \A r \in R : left[r] \in Nat /\ left[r] <= points[r].load
  BY <1>2, <1>9 DEF LeftInv
<1>11. ASSUME NEW r \in R, Isolated(points[r]) PROVE left[r] = 0
  BY <1>2, <1>9, <1>11 DEF LeftInv
<1>4. PICK wanted : wanted = [r \in R |-> Cooled(policy, points[r], left[r])]
  OBVIOUS
<1>5. \A r \in R : wanted[r] \in Nat /\ wanted[r] <= left[r]
  <2>1. policy.softLimit \in Int
    BY <1>1, PolicyFacts
  <2> SUFFICES ASSUME NEW r \in R PROVE wanted[r] \in Nat /\ wanted[r] <= left[r]
    OBVIOUS
  <2>2. PICK cooled : cooled = Cooled(policy, points[r], left[r])
    OBVIOUS
  <2>3. cooled \in Nat /\ cooled <= left[r]
    BY <1>3, <1>10, <2>1, <2>2, CooledFacts
  <2> QED BY <1>4, <2>2, <2>3
<1>6. DOMAIN bucket = R
  BY <1>1, <1>2, BucketEntries
<1>7. ASSUME NEW r \in R
      PROVE  /\ bucket[r].load \in Nat
             /\ \/ bucket[r].load <= Before(previous, points, r)
                \/ bucket[r].load <= points[r].load
             /\ Isolated(points[r])
                  /\ Before(previous, points, r) \in {0, points[r].load}
                => bucket[r].load = 0
             /\ ~Held(bucket[r]) => bucket[r].load <= left[r]
  <2>1. PICK before, ramps : /\ before = Before(previous, points, r)
                             /\ ramps = RampsOf(site, policy, points[r])
    OBVIOUS
  <2>2. /\ bucket[r].ramps = ramps /\ bucket[r].before = before
        /\ bucket[r].load = Larger(ApplyRamp(before, wanted[r], ramps.up, ramps.down), 0)
    BY <1>1, <1>2, <1>4, <2>1, BucketEntries
  <2>3. before \in Nat
    BY <1>2, <1>3, <2>1 DEF Before
  <2>4. ramps.up \in Int /\ ramps.down \in Int
    BY <1>1, <1>2, <2>1, RampsAgree
  <2>5. /\ wanted[r] \in Nat /\ wanted[r] <= left[r]
        /\ left[r] \in Nat /\ left[r] <= points[r].load /\ points[r].load \in Nat
    BY <1>3, <1>5, <1>10
  <2>6. PICK load : load = bucket[r].load
    OBVIOUS
  <2>7. /\ load \in Nat /\ (load <= before \/ load <= wanted[r])
        /\ ~(ramps.down > 0 /\ load = before - ramps.down) => load <= wanted[r]
    <3>1. load = Larger(ApplyRamp(before, wanted[r], ramps.up, ramps.down), 0)
      BY <2>2, <2>6
    <3> QED BY <2>3, <2>4, <2>5, <3>1, RampFacts
  <2>8. ASSUME Isolated(points[r]), before \in {0, points[r].load} PROVE load = 0
    <3>1. points[r].locked = TRUE
      BY <1>2, <2>8 DEF Plotted
    <3>2. ramps = [up |-> 0, down |-> points[r].load]
      BY <2>1, <3>1 DEF RampsOf
    <3>3. wanted[r] = 0
      BY <1>11, <2>5, <2>8
    <3>4. load = Larger(ApplyRamp(before, 0, 0, points[r].load), 0)
      BY <2>2, <2>6, <3>2, <3>3
    <3> QED BY <2>5, <2>8, <3>4, IsolatedDrawsNothing
  <2>9. load <= before \/ load <= points[r].load
    BY <2>3, <2>5, <2>7
  <2>10. ~Held(bucket[r]) => load <= left[r]
    <3>1. ~Held(bucket[r]) => load <= wanted[r]
      BY <2>2, <2>6, <2>7 DEF Held
    <3> QED BY <2>5, <2>7, <3>1
  <2> QED BY <2>1, <2>6, <2>7, <2>8, <2>9, <2>10
<1>8. ASSUME \A r \in R : ~Held(bucket[r])
      PROVE  Draws(bucket) <=
               Percent(SiteSafeCapacityForAmbient(site, AverageAmbient(points)),
                       policy.capacityPct)
  <2>1. PICK f : f = [r \in R |-> bucket[r].load]
    OBVIOUS
  <2>2. Draws(bucket) = SumFunctionOnSet(f, R)
    BY <1>6, <2>1 DEF Draws, Sum, SumFunction
  <2>3. \A r \in R : f[r] \in Int /\ left[r] \in Int /\ f[r] <= left[r]
    BY <1>3, <1>7, <1>8, <1>10, <2>1
  <2>4. SumFunctionOnSet(f, R) <= SumFunctionOnSet(left, R)
    BY <1>3, <2>3, SumBelow
  <2>5. SumFunctionOnSet(left, R) <=
          Percent(SiteSafeCapacityForAmbient(site, AverageAmbient(points)),
                  policy.capacityPct)
    BY <1>1, <1>2, LeftWithinCapacity
  <2>6. /\ SumFunctionOnSet(f, R) \in Int /\ SumFunctionOnSet(left, R) \in Int
        /\ Percent(SiteSafeCapacityForAmbient(site, AverageAmbient(points)),
                   policy.capacityPct) \in Int
    BY <1>1, <1>3, <1>10, <2>3, SumIsInt, OverageFacts, PolicyFacts
  <2> QED BY <2>2, <2>4, <2>5, <2>6
<1> QED BY <1>1, <1>2, <1>6, <1>7, <1>8

\* A rack that comes from no more under the protective policy draws no more.
LEMMA BucketsInOrder ==
  ASSUME NEW site, Profiled(site), NEW points, Plotted(site, points),
         NEW a, NEW b, DOMAIN a = DOMAIN b,
         \A r \in DOMAIN a : a[r] \in Nat /\ b[r] \in Nat /\ a[r] <= b[r],
         NEW r \in DOMAIN points
  PROVE  ReplayBucket(site, Policies["protective_thermal"], a, points)[r].load
           <= ReplayBucket(site, Policies["priority_balanced"], b, points)[r].load
<1>1. PICK P, B : /\ P = Policies["protective_thermal"]
                  /\ B = Policies["priority_balanced"]
  OBVIOUS
<1>2. {"protective_thermal", "priority_balanced"} \subseteq DOMAIN Policies
  BY PolicyFacts
<1>3. /\ P.softLimit \in Int /\ B.softLimit \in Int /\ P.softLimit <= B.softLimit
  BY <1>1, <1>2, PolicyFacts
<1>4. PICK c, d : /\ c = LeftByPolicy(site, P, points)[r]
                  /\ d = LeftByPolicy(site, B, points)[r]
  OBVIOUS
<1>5. c \in Nat /\ d \in Nat /\ c <= d
  <2>1. c <= d
    BY <1>1, <1>4, LeftInPolicyOrder
  <2>2. c \in Nat
    BY <1>1, <1>2, <1>4, LeftFacts DEF LeftInv
  <2>3. d \in Nat
    BY <1>1, <1>2, <1>4, LeftFacts DEF LeftInv
  <2> QED BY <2>1, <2>2, <2>3
<1>6. PICK less, more : /\ less = Cooled(P, points[r], c)
                        /\ more = Cooled(B, points[r], d)
  OBVIOUS
<1>7. points[r].load \in Nat /\ points[r].temp \in Int /\ points[r].ambient \in Int
  BY DEF Plotted
<1>8. less \in Nat /\ more \in Nat /\ less <= more
  <2>1. less \in Nat
    BY <1>3, <1>5, <1>6, <1>7, CooledFacts
  <2>2. more \in Nat
    BY <1>3, <1>5, <1>6, <1>7, CooledFacts
  <2>3. less <= more
    BY <1>3, <1>5, <1>6, <1>7, CooledInOrder
  <2> QED BY <2>1, <2>2, <2>3
<1>9. PICK s, t : s = RampsOf(site, P, points[r]) /\ t = RampsOf(site, B, points[r])
  OBVIOUS
<1>10. /\ s.up \in Int /\ t.up \in Int
       /\ \/ s.up = t.up
          \/ s.up <= 0 /\ t.up <= 0
       /\ s.down \in Int /\ t.down \in Int
       /\ \/ s.down = t.down
          \/ s.down <= 0 /\ t.down <= 0
  BY <1>1, <1>2, <1>9, RampsAgree
<1>11. PICK x, y : x = Before(a, points, r) /\ y = Before(b, points, r)
  OBVIOUS
<1>12. x \in Nat /\ y \in Nat /\ x <= y
  BY <1>7, <1>11 DEF Before
<1>13. /\ ReplayBucket(site, P, a, points)[r].load
            = Larger(ApplyRamp(x, less, s.up, s.down), 0)
       /\ ReplayBucket(site, B, b, points)[r].load
            = Larger(ApplyRamp(y, more, t.up, t.down), 0)
  <2>1. ReplayBucket(site, P, a, points)[r].load
          = Larger(ApplyRamp(x, less, s.up, s.down), 0)
    BY <1>4, <1>6, <1>9, <1>11, BucketEntries
  <2>2. ReplayBucket(site, B, b, points)[r].load
          = Larger(ApplyRamp(y, more, t.up, t.down), 0)
    BY <1>4, <1>6, <1>9, <1>11, BucketEntries
  <2> QED BY <2>1, <2>2
<1>14. Larger(ApplyRamp(x, less, s.up, s.down), 0)
         <= Larger(ApplyRamp(y, more, t.up, t.down), 0)
  BY <1>8, <1>10, <1>12, RampInOrder
<1> QED BY <1>1, <1>13, <1>14
-----------------------------------------------------------------------------
(* The replay of a day.                                                     *)

\* The points of a day: a rack is locked in all of its buckets or in none.
Charted(site, day) ==
  /\ Len(day) \in Nat /\ DOMAIN day = 1 .. Len(day)
  /\ \A i \in DOMAIN day : Plotted(site, day[i])
  /\ \A i, j \in DOMAIN day : \A r \in DOMAIN day[i] :
       r \in DOMAIN day[j] => day[i][r].locked = day[j][r].locked

\* The buckets of the loop follow each other.
LEMMA ReplayFollows ==
  ASSUME NEW site, NEW policy, NEW day, Len(day) \in Nat
  PROVE  LET acc == Replayed(site, policy, day)
         IN  /\ acc[0].previous = <<>>
             /\ \A n \in 0 .. Len(day) - 1 :
                  LET previous == acc[n].previous
                      bucket == ReplayBucket(site, policy, previous, day[n + 1])
                  IN  /\ acc[n + 1].bucket = bucket
                      /\ acc[n + 1].previous =
                           Join([r \in DOMAIN bucket |-> bucket[r].load],
                                previous)
<1>1. PICK n \in Nat : n = Len(day)
  OBVIOUS
<1>2. PICK start : start = [previous |-> <<>>, bucket |-> <<>>]
  OBVIOUS
<1> DEFINE Bucket(a, k) == ReplayBucket(site, policy, a.previous, day[k])
           Step(a, k) ==
             [previous |-> Join([r \in DOMAIN Bucket(a, k) |->
                                   Bucket(a, k)[r].load], a.previous),
              bucket |-> Bucket(a, k)]
           Follows(f, m) ==
             f = [k \in 0 .. m |-> IF k = 0 THEN start ELSE Step(f[k - 1], k)]
           P == {m \in 0 .. n : \E f : Follows(f, m)}
<1>3. PICK acc : acc = Replayed(site, policy, day)
  OBVIOUS
<1>4. acc = CHOOSE f : Follows(f, n)
  BY <1>1, <1>2, <1>3 DEF Replayed
<1> HIDE DEF Step
<1>5. 0 \in P
  <2>1. PICK f : f = [k \in 0 .. 0 |-> start]
    OBVIOUS
  <2>2. Follows(f, 0)
    BY <2>1
  <2> QED BY <1>1, <2>2
<1>6. ASSUME NEW m \in 0 .. n - 1, m \in P PROVE m + 1 \in P
  <2>1. PICK f : Follows(f, m)
    BY <1>6
  <2>2. PICK g : g = [k \in 0 .. m + 1 |->
                        IF k <= m THEN f[k] ELSE Step(f[m], m + 1)]
    OBVIOUS
  <2>3. ASSUME NEW k \in 0 .. m + 1
        PROVE  g[k] = IF k = 0 THEN start ELSE Step(g[k - 1], k)
    <3>1. CASE k = 0
      <4>1. f[0] = start /\ 0 <= m
        BY <2>1
      <4> QED BY <2>2, <3>1, <4>1
    <3>2. CASE k # 0 /\ k <= m
      <4>1. k - 1 \in 0 .. m + 1 /\ k - 1 <= m /\ k \in 0 .. m
        BY <3>2
      <4>2. f[k] = Step(f[k - 1], k)
        BY <2>1, <3>2, <4>1
      <4> QED BY <2>2, <3>2, <4>1, <4>2
    <3>3. CASE k = m + 1
      <4>1. m \in 0 .. m + 1 /\ m <= m /\ ~(k <= m) /\ k # 0 /\ k - 1 = m
        BY <3>3
      <4>2. g[m] = f[m] /\ g[k] = Step(f[m], m + 1)
        BY <2>2, <4>1
      <4> QED BY <3>3, <4>1, <4>2
    <3> QED BY <3>1, <3>2, <3>3
  <2>4. Follows(g, m + 1)
    BY <2>2, <2>3
  <2> QED BY <1>1, <2>4
<1>7. Follows(acc, n)
  <2>1. n \in P
    <3> HIDE DEF P
    <3>1. \A k \in 0 .. n : k \in P
      BY <1>5, <1>6, CountingUp
    <3> QED BY <1>1, <3>1
  <2>2. \E f : Follows(f, n)
    BY <2>1
  <2> HIDE DEF Follows
  <2> QED BY <1>4, <2>2
<1>8. acc[0].previous = <<>>
  <2>1. acc[0] = start
    BY <1>1, <1>7
  <2> QED BY <1>2, <2>1
<1>9. ASSUME NEW k \in 0 .. n - 1
      PROVE  LET previous == acc[k].previous
                 bucket == ReplayBucket(site, policy, previous, day[k + 1])
             IN  /\ acc[k + 1].bucket = bucket
                 /\ acc[k + 1].previous =
                      Join([r \in DOMAIN bucket |-> bucket[r].load], previous)
  <2>1. k + 1 \in 0 .. n /\ k + 1 # 0 /\ (k + 1) - 1 = k
    BY <1>1
  <2>2. acc[k + 1] = Step(acc[k], k + 1)
    BY <1>7, <2>1
  <2> QED BY <2>2 DEF Step
<1> QED BY <1>1, <1>3, <1>8, <1>9

\* Where the racks were left after n buckets.
PreviousInv(day, n, previous) ==
  \A r \in DOMAIN previous :
    /\ previous[r] \in Nat
    /\ \E j \in 1 .. n : /\ r \in DOMAIN day[j]
                         /\ previous[r] <= day[j][r].load
                         /\ Isolated(day[j][r]) => previous[r] = 0

LEMMA NextBucket ==
  ASSUME NEW site, Profiled(site), NEW day, Charted(site, day),
         NEW name \in DOMAIN Policies, NEW n \in 0 .. Len(day) - 1,
         NEW previous, PreviousInv(day, n, previous),
         NEW bucket,
         bucket = ReplayBucket(site, Policies[name], previous, day[n + 1]),
         NEW next,
         next = Join([r \in DOMAIN bucket |-> bucket[r].load], previous)
  PROVE  PreviousInv(day, n + 1, next) /\ Feasible(site, name, day, n + 1, bucket)
<1>1. PICK points : points = day[n + 1]
  OBVIOUS
<1>2. /\ n + 1 \in DOMAIN day /\ n + 1 \in 1 .. n + 1
      /\ \A j \in 1 .. n : j \in DOMAIN day /\ j \in 1 .. n + 1
  BY DEF Charted
<1>3. Plotted(site, points)
  BY <1>1, <1>2 DEF Charted
<1>4. /\ DOMAIN bucket = DOMAIN points
      /\ \A r \in DOMAIN points :
           /\ bucket[r].load \in Nat
           /\ \/ bucket[r].load <= Before(previous, points, r)
              \/ bucket[r].load <= points[r].load
           /\ Isolated(points[r])
                /\ Before(previous, points, r) \in {0, points[r].load}
              => bucket[r].load = 0
      /\ (\A r \in DOMAIN points : ~Held(bucket[r])) =>
           Draws(bucket) <=
             Percent(SiteSafeCapacityForAmbient(site, AverageAmbient(points)),
                     Policies[name].capacityPct)
  <2>1. \A r \in DOMAIN previous : previous[r] \in Nat
    BY DEF PreviousInv
  <2> QED BY <1>1, <1>3, <2>1, BucketFacts
<1>5. ASSUME NEW r \in DOMAIN points
      PROVE  /\ bucket[r].load \in Nat
             /\ \E j \in 1 .. n + 1 :
                  /\ r \in DOMAIN day[j]
                  /\ bucket[r].load <= day[j][r].load
                  /\ Isolated(day[j][r]) => bucket[r].load = 0
             /\ Isolated(points[r]) => bucket[r].load = 0
  <2>1. PICK load \in Nat : load = bucket[r].load
    BY <1>4
  <2>2. points[r].load \in Nat
    BY <1>3 DEF Plotted
  <2>3. CASE r \notin DOMAIN previous
    <3>1. Before(previous, points, r) = points[r].load
      BY <2>3 DEF Before
    <3>2. load <= points[r].load
      BY <1>4, <2>1, <3>1
    <3>3. Isolated(points[r]) => load = 0
      BY <1>4, <2>1, <3>1
    <3> QED BY <1>1, <1>2, <2>1, <3>2, <3>3
  <2>4. CASE r \in DOMAIN previous
    <3>1. PICK before : before = previous[r]
      OBVIOUS
    <3>2. Before(previous, points, r) = before
      BY <2>4, <3>1 DEF Before
    <3>3. PICK j \in 1 .. n : /\ r \in DOMAIN day[j] /\ before <= day[j][r].load
                              /\ Isolated(day[j][r]) => before = 0
      BY <2>4, <3>1 DEF PreviousInv
    <3>4. before \in Nat
      BY <2>4, <3>1 DEF PreviousInv
    <3>5. /\ j \in DOMAIN day /\ Plotted(site, day[j])
          /\ points[r].locked = day[j][r].locked
      BY <1>1, <1>2, <3>3 DEF Charted
    <3>6. Isolated(points[r]) <=> Isolated(day[j][r])
      <4>1. Isolated(points[r]) <=> points[r].locked = TRUE
        BY <1>3 DEF Plotted
      <4>2. Isolated(day[j][r]) <=> day[j][r].locked = TRUE
        BY <3>3, <3>5 DEF Plotted
      <4> QED BY <3>5, <4>1, <4>2
    <3>7. Isolated(points[r]) => load = 0
      BY <1>4, <2>1, <3>2, <3>3, <3>6
    <3>8. CASE load <= points[r].load
      BY <1>1, <1>2, <2>1, <3>7, <3>8
    <3>9. CASE load <= before
      <4>1. day[j][r].load \in Nat
        BY <3>3, <3>5 DEF Plotted
      <4>2. load <= day[j][r].load
        BY <2>1, <3>3, <3>4, <3>9, <4>1
      <4> QED BY <1>2, <2>1, <3>3, <3>6, <3>7, <4>2
    <3> QED BY <1>4, <2>1, <3>2, <3>8, <3>9
  <2> QED BY <2>3, <2>4
<1>6. Feasible(site, name, day, n + 1, bucket)
  BY <1>1, <1>4, <1>5 DEF Feasible
<1>7. ASSUME NEW r \in DOMAIN next
      PROVE  /\ next[r] \in Nat
             /\ \E j \in 1 .. n + 1 : /\ r \in DOMAIN day[j]
                                      /\ next[r] <= day[j][r].load
                                      /\ Isolated(day[j][r]) => next[r] = 0
  <2>1. CASE r \in DOMAIN points
    <3>1. next[r] = bucket[r].load
      BY <1>4, <2>1 DEF Join
    <3> QED BY <1>5, <2>1, <3>1
  <2>2. CASE r \notin DOMAIN points
    <3>1. r \in DOMAIN previous /\ next[r] = previous[r]
      BY <1>4, <2>2 DEF Join
    <3>2. /\ previous[r] \in Nat
          /\ \E j \in 1 .. n : /\ r \in DOMAIN day[j]
                               /\ previous[r] <= day[j][r].load
                               /\ Isolated(day[j][r]) => previous[r] = 0
      BY <3>1 DEF PreviousInv
    <3> QED BY <1>2, <3>1, <3>2
  <2> QED BY <2>1, <2>2
<1> QED BY <1>6, <1>7 DEF PreviousInv

LEMMA DayIsFeasible ==
  ASSUME NEW site, Profiled(site), NEW day, Charted(site, day),
         NEW name \in DOMAIN Policies
  PROVE  \A i \in DOMAIN day :
           Feasible(site, name, day, i, Simulate(site, Policies[name], day)[i])
<1>1. PICK acc : acc = Replayed(site, Policies[name], day)
  OBVIOUS
<1>2. PICK n \in Nat : n = Len(day) /\ DOMAIN day = 1 .. n
  BY DEF Charted
<1> DEFINE P == {k \in 0 .. n :
                   /\ PreviousInv(day, k, acc[k].previous)
                   /\ k > 0 => Feasible(site, name, day, k, acc[k].bucket)}
<1>3. 0 \in P
  <2>1. acc[0].previous = <<>>
    BY <1>1, <1>2, ReplayFollows
  <2>2. DOMAIN acc[0].previous = {}
    BY <2>1
  <2>3. PreviousInv(day, 0, acc[0].previous)
    BY <2>2 DEF PreviousInv
  <2> QED BY <1>2, <2>3
<1>4. ASSUME NEW k \in 0 .. n - 1, k \in P PROVE k + 1 \in P
  <2>1. PICK previous : previous = acc[k].previous
    OBVIOUS
  <2>2. PICK bucket :
          bucket = ReplayBucket(site, Policies[name], previous, day[k + 1])
    OBVIOUS
  <2>3. PICK next : next = Join([r \in DOMAIN bucket |-> bucket[r].load], previous)
    OBVIOUS
  <2>4. acc[k + 1].bucket = bucket /\ acc[k + 1].previous = next
    BY <1>1, <1>2, <2>1, <2>2, <2>3, ReplayFollows
  <2>5. PreviousInv(day, k, previous)
    BY <1>4, <2>1
  <2>6. /\ PreviousInv(day, k + 1, next)
        /\ Feasible(site, name, day, k + 1, bucket)
    BY <1>2, <2>2, <2>3, <2>5, NextBucket
  <2> QED BY <1>2, <2>4, <2>6
<1>5. \A k \in 0 .. n : k \in P
  <2> HIDE DEF P
  <2> QED BY <1>2, <1>3, <1>4, CountingUp
<1>6. ASSUME NEW i \in DOMAIN day
      PROVE  Feasible(site, name, day, i, Simulate(site, Policies[name], day)[i])
  <2>1. i \in 0 .. n /\ i > 0
    BY <1>2
  <2>2. Feasible(site, name, day, i, acc[i].bucket)
    BY <1>5, <2>1
  <2>3. Simulate(site, Policies[name], day)[i] = acc[i].bucket
    BY <1>1 DEF Simulate
  <2> QED BY <2>2, <2>3
<1> QED BY <1>6

\* What one policy left the racks at is no more than what another did.
NoMoreThan(a, b) ==
  /\ DOMAIN a = DOMAIN b
  /\ \A r \in DOMAIN a : a[r] \in Nat /\ b[r] \in Nat /\ a[r] <= b[r]

LEMMA DayInOrder ==
  ASSUME NEW site, Profiled(site), NEW day, Charted(site, day)
  PROVE  \A i \in DOMAIN day : \A r \in DOMAIN day[i] :
           Simulate(site, Policies["protective_thermal"], day)[i][r].load
             <= Simulate(site, Policies["priority_balanced"], day)[i][r].load
<1>1. PICK P, B : /\ P = Policies["protective_thermal"]
                  /\ B = Policies["priority_balanced"]
  OBVIOUS
<1>2. {"protective_thermal", "priority_balanced"} \subseteq DOMAIN Policies
  BY PolicyFacts
<1>3. PICK a, b : a = Replayed(site, P, day) /\ b = Replayed(site, B, day)
  OBVIOUS
<1>4. PICK n \in Nat : n = Len(day) /\ DOMAIN day = 1 .. n
  BY DEF Charted
<1> DEFINE S == {k \in 0 .. n :
                   /\ NoMoreThan(a[k].previous, b[k].previous)
                   /\ k > 0 => \A r \in DOMAIN day[k] :
                                 a[k].bucket[r].load <= b[k].bucket[r].load}
<1>5. 0 \in S
  <2>1. a[0].previous = <<>>
    BY <1>3, <1>4, ReplayFollows
  <2>2. b[0].previous = <<>>
    BY <1>3, <1>4, ReplayFollows
  <2>3. NoMoreThan(a[0].previous, b[0].previous)
    BY <2>1, <2>2 DEF NoMoreThan
  <2> QED BY <1>4, <2>3
<1>6. ASSUME NEW k \in 0 .. n - 1, k \in S PROVE k + 1 \in S
  <2>1. PICK x, y : x = a[k].previous /\ y = b[k].previous
    OBVIOUS
  <2>2. NoMoreThan(x, y)
    BY <1>6, <2>1
  <2>3. PICK points : points = day[k + 1]
    OBVIOUS
  <2>4. Plotted(site, points)
    <3>1. k + 1 \in DOMAIN day
      BY <1>4
    <3> QED BY <2>3, <3>1 DEF Charted
  <2>5. PICK c, d : /\ c = ReplayBucket(site, P, x, points)
                    /\ d = ReplayBucket(site, B, y, points)
    OBVIOUS
  <2>6. /\ a[k + 1].bucket = c
        /\ a[k + 1].previous = Join([r \in DOMAIN c |-> c[r].load], x)
    BY <1>3, <1>4, <2>1, <2>3, <2>5, ReplayFollows
  <2>7. /\ b[k + 1].bucket = d
        /\ b[k + 1].previous = Join([r \in DOMAIN d |-> d[r].load], y)
    BY <1>3, <1>4, <2>1, <2>3, <2>5, ReplayFollows
  <2>8. /\ DOMAIN c = DOMAIN points
        /\ \A r \in DOMAIN points : c[r].load \in Nat
    <3>1. \A r \in DOMAIN x : x[r] \in Nat
      BY <2>2 DEF NoMoreThan
    <3> QED BY <1>1, <1>2, <2>4, <2>5, <3>1, BucketFacts
  <2>9. /\ DOMAIN d = DOMAIN points
        /\ \A r \in DOMAIN points : d[r].load \in Nat
    <3>1. \A r \in DOMAIN y : y[r] \in Nat
      BY <2>2 DEF NoMoreThan
    <3> QED BY <1>1, <1>2, <2>4, <2>5, <3>1, BucketFacts
  <2>10. \A r \in DOMAIN points : c[r].load <= d[r].load
    <3>1. /\ DOMAIN x = DOMAIN y
          /\ \A r \in DOMAIN x : x[r] \in Nat /\ y[r] \in Nat /\ x[r] <= y[r]
      BY <2>2 DEF NoMoreThan
    <3> QED BY <1>1, <2>4, <2>5, <3>1, BucketsInOrder
  <2>11. PICK v, w : v = a[k + 1].previous /\ w = b[k + 1].previous
    OBVIOUS
  <2>12. /\ DOMAIN v = DOMAIN points \cup DOMAIN x
         /\ DOMAIN w = DOMAIN points \cup DOMAIN x
         /\ \A r \in DOMAIN v :
              /\ v[r] = IF r \in DOMAIN points THEN c[r].load ELSE x[r]
              /\ w[r] = IF r \in DOMAIN points THEN d[r].load ELSE y[r]
    BY <2>2, <2>6, <2>7, <2>8, <2>9, <2>11 DEF Join, NoMoreThan
  <2>13. NoMoreThan(v, w)
    BY <2>2, <2>8, <2>9, <2>10, <2>12 DEF NoMoreThan
  <2> QED BY <1>4, <2>3, <2>6, <2>7, <2>10, <2>11, <2>13
<1>7. \A k \in 0 .. n : k \in S
  <2> HIDE DEF S
  <2> QED BY <1>4, <1>5, <1>6, CountingUp
<1>8. ASSUME NEW i \in DOMAIN day, NEW r \in DOMAIN day[i]
      PROVE  Simulate(site, P, day)[i][r].load <= Simulate(site, B, day)[i][r].load
  <2>1. i \in 0 .. n /\ i > 0
    BY <1>4
  <2>2. a[i].bucket[r].load <= b[i].bucket[r].load
    BY <1>7, <2>1
  <2>3. Simulate(site, P, day)[i] = a[i].bucket
    BY <1>3 DEF Simulate
  <2>4. Simulate(site, B, day)[i] = b[i].bucket
    BY <1>3 DEF Simulate
  <2> QED BY <2>2, <2>3, <2>4
<1> QED BY <1>1, <1>8
-----------------------------------------------------------------------------
(* The points of a day are those the lemmas are about.                      *)

LEMMA ProfileFacts ==
  ASSUME TablesInv, NEW s \in Sites
  PROVE  /\ Profiled(inventory[s].site)
         /\ SiteTables(inventory[s].site, inventory[s].assets, inventory[s].racks)
<1>1. PICK here : here = inventory[s]
  OBVIOUS
<1>2. SiteTables(here.site, here.assets, here.racks)
  <2>1. PICK inv \in Inventories : inv = inventory /\ s \in DOMAIN inv
    BY DEF TablesInv, Sites
  <2> QED BY <1>1, <2>1, InventoriesAssumption
<1>3. Profiled(here.site)
  BY <1>2 DEF SiteTables, IntColumns, Profiled
<1> QED BY <1>1, <1>2, <1>3

LEMMA DaysAreCharted ==
  ASSUME TablesInv, NEW s \in Sites, NEW day \in Days
  PROVE  Charted(inventory[s].site, PointsOf(s, day))
<1> DEFINE here == inventory[s]
<1>2. SiteTables(here.site, here.assets, here.racks)
  BY ProfileFacts
<1>3. PICK site : site = here.site
  OBVIOUS
<1>4. site.reference \in Int /\ site.rampUp \in Int /\ site.rampDown \in Int
  BY <1>2, <1>3 DEF SiteTables, IntColumns
<1>5. /\ DOMAIN day = 1 .. Len(day) /\ Len(day) \in Nat
      /\ \A i \in DOMAIN day :
           /\ IsFiniteSet(DOMAIN day[i])
           /\ \A r \in DOMAIN day[i] :
                /\ {"load", "temp", "ambient"} \subseteq DOMAIN day[i][r]
                /\ day[i][r].load \in Nat /\ day[i][r].temp \in Int
                /\ day[i][r].ambient \in Int \cup {NoAmbient}
  BY DaysAssumption
<1> DEFINE Own(limit, ofSite) == IF limit > 0 THEN limit ELSE ofSite
           Profile(r, measured) ==
             [ambient  |-> IF measured.ambient = NoAmbient
                           THEN here.site.reference ELSE measured.ambient,
              class    |-> here.racks[r].class,
              locked   |-> here.racks[r].locked
                             \/ here.racks[r].class = "safety_blocked",
              rampUp   |-> Own(here.racks[r].rampUp, here.site.rampUp),
              rampDown |-> Own(here.racks[r].rampDown, here.site.rampDown)]
           Point(r, measured) == Join(Profile(r, measured), measured)
           Seen(i) == DOMAIN day[i] \cap DOMAIN here.racks
           Filled == {i \in DOMAIN day : Seen(i) # {}}
           Listing == InOrder(Filled, {x \in Filled \X Filled : x[1] < x[2]})
           Points == [k \in DOMAIN Listing |->
                        [r \in Seen(Listing[k]) |->
                           Point(r, day[Listing[k]][r])]]
<1>1. PICK points : points = PointsOf(s, day)
  OBVIOUS
<1>10. points = Points
  BY <1>1 DEF PointsOf
<1> HIDE DEF here
<1>6. ASSUME NEW i \in DOMAIN day, NEW r \in Seen(i)
      PROVE  LET p == Point(r, day[i][r])
             IN  /\ p.load \in Nat /\ p.class \in Class
                 /\ p.temp \in Int /\ p.ambient \in Int
                 /\ p.rampUp \in Int /\ p.rampDown \in Int
                 /\ p.rampUp <= 0 => site.rampUp <= 0
                 /\ p.rampDown <= 0 => site.rampDown <= 0
                 /\ Isolated(p) <=> p.locked = TRUE
                 /\ p.locked = (\/ here.racks[r].locked
                                \/ here.racks[r].class = "safety_blocked")
  <2>1. PICK measured, profile : /\ measured = day[i][r]
                                 /\ profile = Profile(r, measured)
    OBVIOUS
  <2>2. PICK row : row = here.racks[r]
    OBVIOUS
  <2>3. /\ row.class \in Class /\ row.locked \in BOOLEAN
        /\ row.rampUp \in Int /\ row.rampDown \in Int
    BY <1>2, <2>2 DEF SiteTables, IntColumns, Class
  <2>4. PICK p : p = Join(profile, measured)
    OBVIOUS
  <2>5. {"load", "temp", "ambient"} \subseteq DOMAIN measured
    BY <1>5, <2>1
  <2>6. DOMAIN profile = {"ambient", "class", "locked", "rampUp", "rampDown"}
    BY <2>1
  <2>7. /\ p.load = measured.load /\ p.temp = measured.temp
        /\ p.ambient = profile.ambient /\ p.class = profile.class
        /\ p.locked = profile.locked
        /\ p.rampUp = profile.rampUp /\ p.rampDown = profile.rampDown
    BY <2>4, <2>5, <2>6 DEF Join
  <2>8. measured.load \in Nat /\ measured.temp \in Int
    BY <1>5, <2>1
  <2>9. profile.ambient \in Int
    <3>1. measured.ambient \in Int \cup {NoAmbient}
      BY <1>5, <2>1
    <3>2. profile.ambient = IF measured.ambient = NoAmbient
                            THEN site.reference ELSE measured.ambient
      BY <1>3, <2>1
    <3> QED BY <1>4, <3>1, <3>2
  <2>10. /\ profile.rampUp \in Int /\ profile.rampDown \in Int
         /\ profile.rampUp <= 0 => site.rampUp <= 0
         /\ profile.rampDown <= 0 => site.rampDown <= 0
    <3>1. /\ profile.rampUp = IF row.rampUp > 0 THEN row.rampUp ELSE site.rampUp
          /\ profile.rampDown = IF row.rampDown > 0 THEN row.rampDown
                                ELSE site.rampDown
      BY <1>3, <2>1, <2>2
    <3> QED BY <1>4, <2>3, <3>1
  <2>11. profile.class = row.class
    BY <2>1, <2>2
  <2>12. profile.locked = (row.locked \/ row.class = "safety_blocked")
    BY <2>1, <2>2
  <2>13. Isolated(p) <=> p.locked = TRUE
    <3>1. (row.locked \/ row.class = "safety_blocked") \in BOOLEAN
      OBVIOUS
    <3>2. p.locked \in BOOLEAN
      BY <2>7, <2>12, <3>1
    <3>3. p.class = "safety_blocked" => p.locked = TRUE
      BY <2>7, <2>11, <2>12
    <3> QED BY <3>2, <3>3 DEF Isolated
  <2> HIDE DEF Profile
  <2>14. Point(r, day[i][r]) = p
    BY <2>1, <2>4
  <2>15. p.locked = (\/ here.racks[r].locked
                     \/ here.racks[r].class = "safety_blocked")
    BY <2>2, <2>7, <2>12
  <2> HIDE DEF Point
  <2>16. /\ p.load \in Nat /\ p.class \in Class
         /\ p.temp \in Int /\ p.ambient \in Int
         /\ p.rampUp \in Int /\ p.rampDown \in Int
         /\ p.rampUp <= 0 => site.rampUp <= 0
         /\ p.rampDown <= 0 => site.rampDown <= 0
    BY <2>3, <2>7, <2>8, <2>9, <2>10, <2>11
  <2> QED BY <2>13, <2>14, <2>15, <2>16
<1> HIDE DEF Point
<1>7. PICK filled : filled = Filled
  OBVIOUS
<1>8. PICK later : later = {x \in filled \X filled : x[1] < x[2]}
  OBVIOUS
<1>9. PICK order : order = InOrder(filled, later)
  OBVIOUS
<1>11. points = [k \in DOMAIN order |->
                   [r \in Seen(order[k]) |-> Point(r, day[order[k]][r])]]
  <2>1. Listing = order
    BY <1>7, <1>8, <1>9
  <2> HIDE DEF Listing
  <2> QED BY <1>10, <2>1
<1>12. IsFiniteSet(filled)
  <2>1. IsFiniteSet(DOMAIN day)
    <3>1. 1 \in Int /\ Len(day) \in Int
      BY <1>5
    <3> QED BY <1>5, <3>1, FS_Interval
  <2>2. filled \in SUBSET (DOMAIN day)
    BY <1>7
  <2> QED BY <2>1, <2>2, FS_Subset
<1>13. StrictOrder(filled, later)
  <2>1. filled \subseteq Int
    BY <1>5, <1>7
  <2>2. \A i, j \in filled : <<i, j>> \in later <=> i < j
    BY <1>8
  <2> QED BY <2>1, <2>2 DEF StrictOrder
<1>14. /\ Len(order) \in Nat /\ DOMAIN order = 1 .. Len(order)
       /\ \A k \in DOMAIN order : order[k] \in filled
  BY <1>9, <1>12, <1>13, InOrderListing DEF Lists
<1>15. DOMAIN points = 1 .. Len(order)
  BY <1>11, <1>14
<1>16. Len(points) = Len(order)
  <2> DEFINE Nth(k) == [r \in Seen(order[k]) |-> Point(r, day[order[k]][r])]
  <2>1. PICK n \in Nat : n = Len(order)
    BY <1>14
  <2>2. points = [k \in 1 .. n |-> Nth(k)]
    BY <1>11, <1>14, <2>1
  <2>3. PICK S : \A k \in 1 .. n : Nth(k) \in S
    <3>1. \A k \in 1 .. n : Nth(k) \in {Nth(m) : m \in 1 .. n}
      OBVIOUS
    <3> QED BY <3>1
  <2> HIDE DEF Nth
  <2>4. points \in Seq(S)
    BY <2>1, <2>2, <2>3
  <2>5. Len(points) \in Nat /\ DOMAIN points = 1 .. Len(points)
    BY <2>4, LenProperties
  <2> QED BY <1>15, <2>1, <2>5
<1>17. ASSUME NEW k \in DOMAIN points
       PROVE  /\ order[k] \in DOMAIN day
              /\ DOMAIN points[k] = Seen(order[k]) /\ Seen(order[k]) # {}
              /\ \A r \in DOMAIN points[k] :
                   points[k][r] = Point(r, day[order[k]][r])
  <2>1. k \in DOMAIN order /\ order[k] \in filled
    BY <1>14, <1>15
  <2> QED BY <1>7, <1>11, <2>1
<1>18. ASSUME NEW k \in DOMAIN points PROVE Plotted(site, points[k])
  <2>1. PICK i \in DOMAIN day : i = order[k]
    BY <1>17
  <2>2. /\ DOMAIN points[k] = Seen(i) /\ Seen(i) # {}
        /\ \A r \in DOMAIN points[k] : points[k][r] = Point(r, day[i][r])
    BY <1>17, <2>1
  <2>3. IsFiniteSet(Seen(i))
    <3>1. Seen(i) \in SUBSET (DOMAIN day[i])
      OBVIOUS
    <3> QED BY <1>5, <3>1, FS_Subset
  <2>4. Seen(i) \subseteq Nat
    BY <1>2 DEF SiteTables
  <2> HIDE DEF Seen
  <2>5. PICK points_k : points_k = points[k]
    OBVIOUS
  <2>6. /\ IsFiniteSet(DOMAIN points_k) /\ DOMAIN points_k # {}
        /\ DOMAIN points_k \subseteq Nat
    BY <2>2, <2>3, <2>4, <2>5
  <2>7. ASSUME NEW r \in DOMAIN points_k
        PROVE  /\ points_k[r].load \in Nat /\ points_k[r].class \in Class
               /\ points_k[r].temp \in Int /\ points_k[r].ambient \in Int
               /\ points_k[r].rampUp \in Int /\ points_k[r].rampDown \in Int
               /\ points_k[r].rampUp <= 0 => site.rampUp <= 0
               /\ points_k[r].rampDown <= 0 => site.rampDown <= 0
               /\ Isolated(points_k[r]) <=> points_k[r].locked = TRUE
    <3>1. r \in Seen(i) /\ points_k[r] = Point(r, day[i][r])
      BY <2>2, <2>5, <2>7
    <3> QED BY <1>6, <3>1
  <2>8. Plotted(site, points_k)
    BY <2>6, <2>7 DEF Plotted
  <2> QED BY <2>5, <2>8
<1>19. ASSUME NEW i \in DOMAIN points, NEW j \in DOMAIN points,
              NEW r \in DOMAIN points[i], r \in DOMAIN points[j]
       PROVE  points[i][r].locked = points[j][r].locked
  <2>1. PICK m \in DOMAIN day, n \in DOMAIN day : m = order[i] /\ n = order[j]
    BY <1>17
  <2>2. /\ r \in Seen(m) /\ points[i][r] = Point(r, day[m][r])
    BY <1>17, <2>1
  <2>3. /\ r \in Seen(n) /\ points[j][r] = Point(r, day[n][r])
    BY <1>17, <1>19, <2>1
  <2> HIDE DEF Seen
  <2>4. points[i][r].locked = (\/ here.racks[r].locked
                               \/ here.racks[r].class = "safety_blocked")
    BY <1>6, <2>2
  <2>5. points[j][r].locked = (\/ here.racks[r].locked
                               \/ here.racks[r].class = "safety_blocked")
    BY <1>6, <2>3
  <2> QED BY <2>4, <2>5
<1>20. Charted(site, points)
  BY <1>14, <1>15, <1>16, <1>18, <1>19 DEF Charted
<1> QED BY <1>1, <1>3, <1>20 DEF here
-----------------------------------------------------------------------------
(* What a replay was computed from.                                         *)

DayInv ==
  /\ request.pc = "history" =>
       "site" \in DOMAIN request /\ request.site \in Sites
  /\ request.pc \in {"respond", "answered"} /\ request.kind = "replay" =>
       /\ {"site", "day"} \subseteq DOMAIN request /\ request.site \in Sites
       /\ Charted(inventory[request.site].site, request.day)
       /\ request.pc = "answered" =>
            request.answer = RunShadowPilot(inventory[request.site].site,
                                            request.day)

LEMMA ElsewhereDayInv ==
  ASSUME request'.pc # "history",
         request'.pc \in {"respond", "answered"} => request'.kind # "replay"
  PROVE  DayInv'
BY DEF DayInv

\* Of the statements of LoadBudgetInput, the last leads to the history.
LEMMA ReadingDayInv ==
  ASSUME IInv, NEW stage \in InputStages, NEW found, Reading(stage, found),
         request.site \in Sites
  PROVE  DayInv'
<1>1. PICK read : read = Join(found, request.read)
  OBVIOUS
<1>2. PICK q : q = [request EXCEPT !.read = read]
  OBVIOUS
<1>3. PICK r : r = request'
  OBVIOUS
<1>4. /\ request.pc = stage /\ UNCHANGED inventory
      /\ r = IF StageAfter(stage) = "done" THEN AfterInput(q)
             ELSE [q EXCEPT !.pc = StageAfter(stage)]
  BY <1>1, <1>2, <1>3 DEF Reading, At, OnlyRequest
<1>5. /\ {"pc", "kind", "site", "read", "pass"} \subseteq DOMAIN request
      /\ request.pass \in {"budget", "risk"}
      /\ request.kind \in OneSite \cup {"replay", "overview"}
  BY <1>4 DEF IInv, KindInv, InputInv, InputStages, Working, ReadStages
<1>6. /\ DOMAIN q = DOMAIN request /\ q.pass = request.pass
      /\ q.kind = request.kind /\ q.site = request.site
  BY <1>2, <1>5
<1>7. Sites' = Sites
  BY <1>4 DEF Sites
<1>8. CASE stage = "loads"
  <2>1. r = AfterInput(q)
    BY <1>4, <1>8 DEF StageAfter
  <2>2. CASE q.kind = "replay"
    <3>1. r = [q EXCEPT !.pc = "history"]
      BY <2>1, <2>2 DEF AfterInput
    <3>2. r.pc = "history" /\ "site" \in DOMAIN r /\ r.site = request.site
      BY <1>5, <1>6, <3>1
    <3> QED BY <1>3, <1>7, <3>2 DEF DayInv
  <2>3. CASE q.kind # "replay"
    <3>1. r.pc \in {"context", "profile", "samples"}
      BY <1>5, <1>6, <2>1, <2>3, AfterInputFacts
    <3> QED BY <1>3, <3>1, ElsewhereDayInv
  <2> QED BY <2>2, <2>3
<1>9. CASE stage # "loads"
  <2>1. StageAfter(stage) \in {"ambient", "inventory", "loads"}
    BY <1>9 DEF StageAfter, InputStages
  <2>2. r = [q EXCEPT !.pc = StageAfter(stage)]
    BY <1>4, <2>1
  <2>3. r.pc = StageAfter(stage)
    BY <1>5, <1>6, <2>2
  <2> QED BY <1>3, <2>1, <2>3, ElsewhereDayInv
<1> QED BY <1>8, <1>9

LEMMA StatementDayInv ==
  ASSUME IInv,
         LoadSiteProfile \/ LoadAmbient \/ LoadInventory \/ LoadRackLoads
  PROVE  DayInv'
<1>1. CASE LoadSiteProfile
  <2>1. CASE request.site \in Sites /\ Reading("profile", <<>>)
    BY <2>1, ReadingDayInv DEF InputStages
  <2>2. CASE At("profile") /\ request' = [request EXCEPT !.pc = "not_found"]
    <3>1. request'.pc = "not_found"
      BY <2>2 DEF IInv, KindInv
    <3> QED BY <3>1, ElsewhereDayInv
  <2> QED BY <1>1, <2>1, <2>2 DEF LoadSiteProfile
<1>2. CASE LoadAmbient \/ LoadInventory \/ LoadRackLoads
  <2>1. request.site \in Sites
    BY <1>2, AtSite DEF LoadAmbient, LoadInventory, LoadRackLoads, Reading, At
  <2>2. \E stage \in InputStages : \E found : Reading(stage, found)
    BY <1>2 DEF LoadAmbient, LoadInventory, LoadRackLoads, InputStages
  <2> QED BY <2>1, <2>2, ReadingDayInv
<1> QED BY <1>1, <1>2

LEMMA ReceivesDayInv ==
  ASSUME \/ \E kind, key, s, at, override, rack, delta :
              Receive(kind, key, s, at, override, rack, delta)
         \/ \E key, at : ReceiveOverview(key, at)
  PROVE  DayInv'
<1>1. ASSUME NEW kind, NEW key, NEW s, NEW at, NEW override, NEW rack, NEW delta,
             Receive(kind, key, s, at, override, rack, delta)
      PROVE  request'.pc \in {"refused", "profile"}
  <2>1. \/ request' = [pc |-> "refused"]
        \/ request' = [pc |-> "profile", kind |-> kind, site |-> s,
                       at |-> at, override |-> override,
                       rack |-> rack, delta |-> delta, read |-> <<>>,
                       pass |-> "budget"]
    BY <1>1 DEF Receive
  <2> QED BY <2>1
<1>2. ASSUME NEW key, NEW at, ReceiveOverview(key, at)
      PROVE  request'.pc \in {"refused", "sites"}
  <2>1. PICK scope :
          \/ request' = [pc |-> "refused"]
          \/ request' = [pc |-> "sites", kind |-> "overview", at |-> at,
                         scope |-> scope, override |-> NoAmbient]
    BY <1>2 DEF ReceiveOverview
  <2> QED BY <2>1
<1> QED BY <1>1, <1>2, ElsewhereDayInv

\* The next site of an overview, or its answer.
LEMMA NextSiteDayInv ==
  ASSUME NEW q, NEW left, request' = NextSite(q, left),
         "kind" \in DOMAIN q, q.kind = "overview", "pc" \notin DOMAIN q
  PROVE  DayInv'
<1>1. PICK r : r = request'
  OBVIOUS
<1>2. PICK more : /\ r = Join(q, more)
                  /\ \/ more = [pc |-> "respond"]
                     \/ more = [pc |-> "profile", site |-> Min(left),
                                left |-> left, read |-> <<>>, pass |-> "budget"]
  BY <1>1 DEF NextSite
<1>3. r.pc \in {"respond", "profile"} /\ r.kind = "overview"
  BY <1>2 DEF Join
<1> QED BY <1>1, <1>3, ElsewhereDayInv

LEMMA OverviewDayInv ==
  ASSUME IInv,
         \/ ListSiteProfiles
         \/ \E hours, expensive : LoadRiskSamples(hours, expensive)
  PROVE  DayInv'
<1>1. "kind" \in DOMAIN request /\ request.kind = "overview"
  BY DEF IInv, KindInv, ListSiteProfiles, LoadRiskSamples, At, Working, ReadStages
<1>2. CASE ListSiteProfiles
  <2>1. PICK q : q = Join([parts |-> <<>>], Kept(request))
    OBVIOUS
  <2>2. "kind" \in DOMAIN q /\ q.kind = "overview" /\ "pc" \notin DOMAIN q
    BY <1>1, <2>1 DEF Kept, Join
  <2>3. \E left : request' = NextSite(q, left)
    BY <1>2, <2>1 DEF ListSiteProfiles
  <2> QED BY <2>2, <2>3, NextSiteDayInv
<1>3. CASE \E hours, expensive : LoadRiskSamples(hours, expensive)
  <2>1. PICK parts, left :
          request' = NextSite(Kept([request EXCEPT !.parts = parts]), left)
    BY <1>3 DEF LoadRiskSamples
  <2>2. PICK q : q = [request EXCEPT !.parts = parts]
    OBVIOUS
  <2>3. "kind" \in DOMAIN q /\ q.kind = "overview"
    BY <1>1, <2>2
  <2>4. PICK kept : kept = Kept(q)
    OBVIOUS
  <2>5. /\ "kind" \in DOMAIN kept /\ kept.kind = "overview"
        /\ "pc" \notin DOMAIN kept
    BY <2>3, <2>4 DEF Kept
  <2>6. request' = NextSite(kept, left)
    BY <2>1, <2>2, <2>4
  <2> QED BY <2>5, <2>6, NextSiteDayInv
<1> QED BY <1>2, <1>3

LEMMA LoadHistoryDayInv ==
  ASSUME IInv, AInv, DayInv, NEW day \in Days, LoadHistory(day)
  PROVE  DayInv'
<1>1. PICK s \in Sites : s = request.site
  BY DEF LoadHistory, At, DayInv
<1>2. PICK points : points = PointsOf(s, day)
  OBVIOUS
<1>3. Charted(inventory[s].site, points)
  BY <1>2, DaysAreCharted DEF AInv
<1>4. /\ UNCHANGED inventory
      /\ request' = IF points = <<>> THEN [pc |-> "not_found"]
                    ELSE [pc |-> "respond", kind |-> "replay",
                          site |-> s, day |-> points]
  BY <1>1, <1>2 DEF LoadHistory, OnlyRequest
<1>5. CASE request' = [pc |-> "not_found"]
  BY <1>5, ElsewhereDayInv
<1>6. CASE request' = [pc |-> "respond", kind |-> "replay",
                       site |-> s, day |-> points]
  <2>1. /\ request'.pc = "respond" /\ {"site", "day"} \subseteq DOMAIN request'
        /\ request'.site = s /\ request'.day = points
    BY <1>6
  <2>2. Sites' = Sites /\ inventory'[s].site = inventory[s].site
    BY <1>4 DEF Sites
  <2>3. Charted(inventory[s].site, points)'
    BY <1>3, <2>2, <1>4 DEF Charted, Plotted
  <2> QED BY <1>1, <1>3, <2>1, <2>2, <2>3 DEF DayInv
<1> QED BY <1>4, <1>5, <1>6

LEMMA EvidenceDayInv ==
  ASSUME IInv,
         \/ LoadContext
         \/ \E stored, reported : PersistBudgetSnapshot(stored, reported)
         \/ PublishLoadBudgetUpdated \/ PublishCurtailmentRecommended
         \/ PublishDispatchRejected \/ NoCurtailment \/ NothingRejected
  PROVE  DayInv'
<1>1. request.pc \in Loaded
  BY DEF LoadContext, PersistBudgetSnapshot, PublishLoadBudgetUpdated,
         PublishCurtailmentRecommended, PublishDispatchRejected, NoCurtailment,
         NothingRejected, Publish, At, Loaded, Publishing
<1>2. {"pc", "kind"} \subseteq DOMAIN request /\ request.kind \in OneSite
  BY <1>1, AnswerFacts
<1>3. request'.pc # "history" /\ request'.kind = request.kind
  <2>1. CASE LoadContext
    <3>1. PICK missing :
            request' = Join([pc |-> "persist", missing |-> missing], request)
      BY <2>1 DEF LoadContext
    <3> QED BY <1>2, <3>1 DEF Join
  <2>2. CASE \E stored, reported : PersistBudgetSnapshot(stored, reported)
    <3>1. PICK id : request' = Join([pc |-> "publish_budget", missing |-> {},
                                     snapshot |-> id], request)
      BY <2>2 DEF PersistBudgetSnapshot
    <3> QED BY <1>2, <3>1 DEF Join
  <2>3. CASE \/ PublishLoadBudgetUpdated \/ PublishCurtailmentRecommended
             \/ PublishDispatchRejected \/ NoCurtailment \/ NothingRejected
    <3>1. PICK next \in Publishing \cup {"respond"} :
            request' = [request EXCEPT !.pc = next]
      BY <2>3 DEF PublishLoadBudgetUpdated, PublishCurtailmentRecommended,
                  PublishDispatchRejected, NoCurtailment, NothingRejected,
                  Publish, Publishing
    <3> QED BY <1>2, <3>1 DEF Publishing
  <2> QED BY <2>1, <2>2, <2>3
<1> QED BY <1>2, <1>3, ElsewhereDayInv DEF OneSite

LEMMA RespondDayInv ==
  ASSUME IInv, DayInv, Respond
  PROVE  DayInv'
<1>1. PICK answer :
        /\ request.pc = "respond" /\ OnlyRequest /\ answer = AnswerTo(request)
        /\ request' = Join([pc |-> "answered", answer |-> answer], request)
  BY DEF Respond, At
<1>2. {"pc", "kind"} \subseteq DOMAIN request
  BY <1>1 DEF IInv, KindInv, Working
<1>3. /\ request'.pc = "answered" /\ request'.answer = answer
      /\ DOMAIN request \subseteq DOMAIN request'
      /\ \A x \in DOMAIN request \ {"pc", "answer"} : request'[x] = request[x]
  BY <1>1 DEF Join
<1>4. request'.kind = request.kind
  BY <1>2, <1>3
<1>5. CASE request.kind # "replay"
  BY <1>3, <1>4, <1>5, ElsewhereDayInv
<1>6. CASE request.kind = "replay"
  <2>1. PICK s \in Sites : s = request.site
    BY <1>1, <1>6 DEF DayInv
  <2>2. PICK day : day = request.day
    OBVIOUS
  <2>3. PICK site : site = inventory[s].site
    OBVIOUS
  <2>4. /\ {"site", "day"} \subseteq DOMAIN request /\ Charted(site, day)
    BY <1>1, <1>6, <2>1, <2>2, <2>3 DEF DayInv
  <2>5. /\ {"site", "day"} \subseteq DOMAIN request'
        /\ request'.site = s /\ request'.day = day
    BY <1>3, <2>1, <2>2, <2>4
  <2>6. answer = RunShadowPilot(site, day)
    BY <1>1, <1>6, <2>1, <2>2, <2>3 DEF AnswerTo
  <2>7. Sites' = Sites /\ inventory'[s].site = site
    BY <1>1, <2>3 DEF Sites, OnlyRequest
  <2> QED BY <1>3, <2>1, <2>4, <2>5, <2>6, <2>7 DEF DayInv
<1> QED BY <1>5, <1>6

LEMMA UnchangedDayInv ==
  ASSUME DayInv, UNCHANGED <<inventory, request>>
  PROVE  DayInv'
BY DEF DayInv, Sites

LEMMA NextDayInv == IInv /\ AInv /\ DayInv /\ [Next]_vars => DayInv'
<1> SUFFICES ASSUME IInv, AInv, DayInv, [Next]_vars PROVE DayInv'
  OBVIOUS
<1>1. CASE RequestArrives
  BY <1>1, ReceivesDayInv DEF RequestArrives
<1>2. CASE \/ ListSiteProfiles
           \/ \E hours \in Histories, expensive \in BOOLEAN :
                LoadRiskSamples(hours, expensive)
  BY <1>2, OverviewDayInv
<1>3. CASE LoadSiteProfile \/ LoadAmbient \/ LoadInventory \/ LoadRackLoads
  BY <1>3, StatementDayInv
<1>4. ASSUME NEW day \in Days, LoadHistory(day) PROVE DayInv'
  BY <1>4, LoadHistoryDayInv
<1>5. CASE ReadFails \/ Crash
  <2>1. request'.pc \in {"failed", "idle"}
    BY <1>5 DEF ReadFails, Crash, Idle
  <2> QED BY <2>1, ElsewhereDayInv
<1>6. CASE \/ LoadContext
           \/ \E stored, reported \in BOOLEAN :
                PersistBudgetSnapshot(stored, reported)
           \/ PublishLoadBudgetUpdated \/ PublishCurtailmentRecommended
           \/ PublishDispatchRejected \/ NoCurtailment \/ NothingRejected
  BY <1>6, EvidenceDayInv
<1>7. CASE Respond
  BY <1>7, RespondDayInv
<1>8. CASE UNCHANGED vars \/ \E s \in Sites, reading \in Readings :
                               TelemetryArrives(s, reading)
  BY <1>8, UnchangedDayInv DEF vars, TelemetryArrives
<1> QED BY <1>1, <1>2, <1>3, <1>4, <1>5, <1>6, <1>7, <1>8 DEF Next

LEMMA DayInvHolds == Spec => [](AInv /\ DayInv)
<1>1. Init => DayInv
  BY DEF Init, Idle, DayInv
<1>2. Init => IInv /\ AInv
  BY InitIInv, InitAInv
<1>3. IInv /\ AInv /\ DayInv /\ [Next]_vars => (IInv /\ AInv /\ DayInv)'
  BY NextIInv, NextAInv, NextDayInv
<1> QED BY <1>1, <1>2, <1>3, PTL DEF Spec

\* A replayed day could have happened, and the pilot's verdict is that of the
\* balanced policy.
LEMMA PilotCounts ==
  ASSUME NEW site, Profiled(site), NEW day, Charted(site, day),
         \A i \in DOMAIN day : \A r \in DOMAIN day[i] :
           ~(day[i][r].locked /\ day[i][r].class = "sacrificable_load")
  PROVE  RunShadowPilot(site, day).escalated =
           Cardinality({i \in DOMAIN day : /\ Overage(site, 100, day[i]) > 0
                                           /\ Touched(site, day[i])})
<1>1. PICK over : over = {i \in DOMAIN day : Overage(site, 100, day[i]) > 0}
  OBVIOUS
<1>2. RunShadowPilot(site, day).escalated
        = Cardinality({i \in over : WouldEscalate(site, day[i])})
  BY <1>1 DEF RunShadowPilot, Verdict
<1>3. \A i \in DOMAIN day : WouldEscalate(site, day[i]) <=> Touched(site, day[i])
  BY PilotAgrees DEF Charted
<1>4. {i \in over : WouldEscalate(site, day[i])}
        = {i \in DOMAIN day : /\ Overage(site, 100, day[i]) > 0
                              /\ Touched(site, day[i])}
  BY <1>1, <1>3
<1> QED BY <1>2, <1>4

\* Every day that is replayed could have happened under both policies, the
\* protective one draws no more than the balanced one, and the pilot escalates
\* exactly the buckets in which the balanced policy would have to touch
\* production load or would not find the load (RunHistoricalReplay and
\* RunShadowPilot decide separately).
THEOREM ReplayIsFeasibleHolds == Spec => []ReplayIsFeasible
<1>1. ASSUME AInv, DayInv PROVE ReplayIsFeasible
  <2> SUFFICES ASSUME Answered({"replay"}) PROVE ReplayIsFeasible
    BY DEF ReplayIsFeasible
  <2>1. request.pc = "answered" /\ request.kind = "replay"
    BY DEF Answered
  <2>2. PICK s \in Sites : s = request.site
    BY <1>1, <2>1 DEF DayInv
  <2>3. PICK site : site = inventory[s].site
    OBVIOUS
  <2>4. PICK day, answer : day = request.day /\ answer = request.answer
    OBVIOUS
  <2>5. Profiled(site)
    BY <1>1, <2>2, <2>3, ProfileFacts DEF AInv
  <2>6. Charted(site, day) /\ answer = RunShadowPilot(site, day)
    BY <1>1, <2>1, <2>2, <2>3, <2>4 DEF DayInv
  <2>7. PICK runs : runs = answer.replay.buckets
    OBVIOUS
  <2>8. /\ DOMAIN Policies = {"priority_balanced", "protective_thermal"}
        /\ Policies["priority_balanced"].capacityPct = 100
    BY PolicyFacts
  <2>9. \A name \in DOMAIN Policies :
          runs[name] = Simulate(site, Policies[name], day)
    BY <2>6, <2>7 DEF RunShadowPilot, Verdict, RunHistoricalReplay
  <2>10. \A name \in DOMAIN Policies, i \in DOMAIN day :
           Feasible(site, name, day, i, runs[name][i])
    BY <2>5, <2>6, <2>9, DayIsFeasible
  <2>11. \A i \in DOMAIN day : \A r \in DOMAIN day[i] :
           runs["protective_thermal"][i][r].load
             <= runs["priority_balanced"][i][r].load
    BY <2>5, <2>6, <2>8, <2>9, DayInOrder
  <2>12. (\A i \in DOMAIN day : \A r \in DOMAIN day[i] :
            ~(day[i][r].locked /\ day[i][r].class = "sacrificable_load"))
         => answer.escalated =
              Cardinality({i \in DOMAIN day :
                             /\ Overage(site, 100, day[i]) > 0
                             /\ Touched(site, day[i])})
    BY <2>5, <2>6, PilotCounts
  <2> QED BY <2>2, <2>3, <2>4, <2>7, <2>10, <2>11, <2>12 DEF ReplayIsFeasible
<1>2. AInv /\ DayInv => ReplayIsFeasible
  BY <1>1
<1> QED BY <1>2, DayInvHolds, PTL
=============================================================================
