------------------------ MODULE MCDispatchValidation ------------------------
(* Instance of DispatchValidation for TLC: two feeds of one rack each and  *)
(* a third rack, of another class, that shares the bus of the first.       *)
EXTENDS DispatchValidation, TLC

MCKind == "t1" :> "transformer" @@ "t2" :> "transformer" @@ "b1" :> "bus" @@
          "b2" :> "bus" @@ "p1" :> "pdu" @@ "p2" :> "pdu"
MCPath == "normal" :> {"b1", "p1"} @@ "preferred" :> {"b1", "p2"} @@
          "blocked" :> {"b2"}
MCTransformerOf == "normal" :> "t1" @@ "preferred" :> "t1" @@
                   "blocked" :> "t2"

(* Loads of 0 and 4 put every capacity on either side of its limit: the    *)
(* site is held by its own profile, t1 and b1 are exceeded when both racks *)
(* on them are loaded, p1, "normal" and "blocked" as soon as they are.  The*)
(* ramp overrides of the racks are wider and narrower than the site's.     *)
MCSafe == "t1" :> 5 @@ "t2" :> 4 @@ "b1" :> 6 @@ "b2" :> 4 @@ "p1" :> 3 @@
          "p2" :> 6
MCRackSafe == "normal" :> 3 @@ "preferred" :> 4 @@ "blocked" :> 3
MCThermalLimit == "normal" :> 4 @@ "preferred" :> 4 @@ "blocked" :> 3
MCClass == "normal" :> "normal_production" @@
           "preferred" :> "preferred_production" @@
           "blocked" :> "safety_blocked"
MCRampUp == "normal" :> 0 @@ "preferred" :> 4 @@ "blocked" :> 0
MCRampDown == "normal" :> 4 @@ "preferred" :> 1 @@ "blocked" :> 0
MCDelta == {-3, 0, 1, 4}
=============================================================================
