--------------------------- MODULE MCEnergyService ---------------------------
(***************************************************************************)
(* A campus of two sites: a site of 100 kW with two PDUs, and one of 90 kW *)
(* without feeders and PDUs, with a ramp and a locked rack.  Rack 4 sends  *)
(* telemetry and has no profile.                                           *)
(***************************************************************************)
EXTENDS EnergyService

Asset(layer, nominal, parent) ==
  [layer |-> layer, nominal |-> nominal * KW, margin |-> 10, derateStart |-> 30,
   deratePct |-> 1, status |-> "active", parent |-> parent]
Rack(nominal, thermal, class, locked, rampDown) ==
  [bus |-> "b1", feeder |-> "f1", pdu |-> "p1", nominal |-> nominal * KW,
   margin |-> 10, thermal |-> thermal * KW, class |-> class, locked |-> locked,
   rampUp |-> 0, rampDown |-> rampDown * KW, status |-> "active"]
Profile(target, rampUp) ==
  [target |-> target * KW, reserve |-> 10, reference |-> 25,
   derateStart |-> 30, deratePct |-> 2, rampUp |-> rampUp * KW, rampDown |-> 0]

Windows(assets, racks) ==
  [now |-> [assets |-> {}, racks |-> {}],
   window |-> [assets |-> assets, racks |-> racks]]

PlainSite ==
  [site    |-> Profile(100, 0),
   assets  |-> [t1 |-> Asset("transformer", 100, NoAsset),
                b1 |-> Asset("bus", 90, "t1"),
                f1 |-> [Asset("feeder", 90, "b1") EXCEPT !.status = "degraded"],
                p1 |-> Asset("pdu", 40, "f1"), p2 |-> Asset("pdu", 80, "f1")],
   racks   |-> (1 :> Rack(40, 38, "preferred_production", FALSE, 0))
               @@ (2 :> Rack(40, 38, "normal_production", FALSE, 10))
               @@ (3 :> [Rack(40, 38, "sacrificable_load", FALSE, 0)
                           EXCEPT !.pdu = "p2"]),
   windows |-> Windows({"t1"}, {})]
LockedSite ==
  [site    |-> Profile(90, 5),
   assets  |-> [t1 |-> Asset("transformer", 100, NoAsset),
                b1 |-> Asset("bus", 80, "t1")],
   racks   |-> (1 :> Rack(40, 60, "normal_production", TRUE, 0))
               @@ (2 :> Rack(40, 38, "safety_blocked", FALSE, 0))
               @@ (3 :> Rack(60, 60, "sacrificable_load", FALSE, 0)),
   windows |-> Windows({}, {3})]

MCInventories == {(1 :> PlainSite), (1 :> LockedSite),
                  (1 :> PlainSite) @@ (2 :> LockedSite)}
KiloWatts(a, b, c, d) == [r \in 1 .. 4 |-> <<a, b, c, d>>[r] * KW]
Latest(load, ambient) == [load |-> load, ambient |-> ambient]
MCReadings == {Latest(KiloWatts(10, 12, 20, 0), 33),
               Latest(KiloWatts(30, 36, 25, 0), 33),
               Latest(KiloWatts(25, 30, 12, 15), NoAmbient)}
MCConfigs ==
  {[enabled |-> TRUE, rbac |-> TRUE, defaultRole |-> "viewer",
    keys |-> [k1 |-> [role |-> "operator", sites |-> {1}, racks |-> {1, 2}],
              k2 |-> [role |-> NoRole, sites |-> {}, racks |-> {}]]]}
MCDeltas == {8 * KW, -25 * KW}
Hour(n, load, ambient, critical, errors) ==
  [perMiner |-> n, load |-> load * KW, ambient |-> ambient,
   critical |-> critical, errorPct |-> errors]
MCHistories ==
  {<<>>, <<Hour(1, 70, 33, 0, 0), Hour(1, 86, 34, 0, 0)>>,
   <<Hour(2, 40, 30, 1, 10), Hour(1, 60, 0, 4, 0)>>}

\* A rack of 25 TH per kilowatt at best; hot, cold and silent racks.
Sent(load, temp, ambient, hash) ==
  [load |-> load * KW, temp |-> temp, maxTemp |-> temp + 4,
   ambient |-> ambient, hash |-> hash, nominalHash |-> 1000,
   nominalPower |-> 40 * KW]
Bucket(a, b, c) == (1 :> a) @@ (2 :> b) @@ (3 :> c) @@ (4 :> c)
Quiet == Bucket(Sent(20, 70, 30, 500), Sent(12, 65, 30, 300),
                Sent(10, 60, 30, 250))
Heavy == Bucket(Sent(36, 80, 33, 900), Sent(40, 78, 33, 1000),
                Sent(24, 80, 33, 600))
Hot == (1 :> Sent(30, 96, 36, 600)) @@ (2 :> Sent(28, 90, 1000, 0))
MCDays == {<<>>, <<(4 :> Sent(10, 60, 30, 250))>>} \cup
          {<<Quiet, Heavy, x, y>> : x, y \in {Quiet, Heavy, Hot}}
          \cup {<<Heavy, Hot, Quiet>>}
===============================================================================
