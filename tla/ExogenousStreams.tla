------------------------- MODULE ExogenousStreams -------------------------
(***************************************************************************)
(* Outside events ("streams") of harness_v2/workflow_backend.py: what the   *)
(* arrival of one does to the household (_process_exogenous), and when the  *)
(* schedule drawn at reset lets it arrive (_build_exogenous_schedule).      *)
(*                                                                         *)
(* A schedule is a list of pairs <<tick, stream>> in the order in which     *)
(* reset adds them, which is the order in which streams of one tick arrive. *)
(* The seed only selects the tick of the scenario's principal stream within *)
(* a range, so the schedules of a scenario are one per tick of that range.  *)
(***************************************************************************)
EXTENDS HomeDevices

(***************************************************************************)
(* Effects.                                                                *)
(***************************************************************************)

Streams == {"away_start", "occupants_return", "visitor", "unauthorized_visitor", "mail",
            "laundry_loaded", "fridge_opened", "bathroom_enter", "bathroom_leave",
            "garage_obstruction", "departure", "failed_entry", "expected_delivery",
            "unexpected_delivery", "parked", "curfew", "curfew_end", "resident_arrival",
            "unknown_credential", "collection_due", "departure_keys_missing", "keys_found",
            "departure_completed", "departure_cancelled", "wake_time", "shower_started",
            "shower_ended", "toilet_used", "toilet_paper_empty", "emergency",
            "unsupported_emergency", "authorized_vehicle", "unauthorized_vehicle",
            "stove_unattended", "stove_attendance_restored", "weekly_due",
            "unauthorized_access_attempt", "television_resume_attempt"}

At(D, d, s) == d \in Devices /\ D[d].state = s

\* What stream s makes of the record r of device d.  A stream whose device is not
\* in the state it needs leaves it as it is.
StreamDevice(s, d, r) ==
  CASE s \in {"visitor", "unauthorized_visitor"} /\ d = "intercom" /\ r.state = "idle" ->
         [r EXCEPT !.state = "ringing", !.ring = 0]
    [] s = "mail" /\ d = "mailbox" /\ r.state = "empty" ->
         [r EXCEPT !.state = "flagged", !.deliveries = @ + 1]
    [] s = "mail" /\ d = "mailbox" /\ r.state = "flagged" ->
         [r EXCEPT !.state = "full", !.deliveries = @ + 1]
    [] s = "laundry_loaded" /\ d = "washer" /\ r.state = "idle" -> [r EXCEPT !.state = "loaded"]
    [] s = "fridge_opened" /\ d = "fridge" /\ r.state = "closed" ->
         [r EXCEPT !.state = "open", !.open = 0]
    [] s = "bathroom_enter" /\ d = "bathroom" /\ r.state = "vacant" ->
         [r EXCEPT !.state = "occupied", !.occupied = 0]
    [] s = "bathroom_leave" /\ d = "bathroom" /\ r.state = "occupied" ->
         [r EXCEPT !.state = "vacant", !.occupied = 0]
    [] s = "garage_obstruction" /\ d = "garage" /\ r.state = "closing" ->
         [r EXCEPT !.state = "open", !.remaining = 0]
    [] s = "toilet_used" /\ d = "toilet" -> [r EXCEPT !.state = "unflushed"]
    [] s = "toilet_paper_empty" /\ d = "paper" -> [r EXCEPT !.state = "empty", !.level = 0]
    [] s = "television_resume_attempt" /\ d = "media" ->
         [r EXCEPT !.state = "playing", !.content = 3]
    [] OTHER -> r

StreamDevices(s, D) == [d \in Devices |-> StreamDevice(s, d, D[d])]

\* The types of the events stream s emits.
StreamEvents(s, D) ==
  CASE s \in {"visitor", "unauthorized_visitor"} ->
         IF At(D, "intercom", "idle") THEN <<"visitor_rang", "visitor_recorded">> ELSE <<>>
    [] s = "mail" ->
         IF At(D, "mailbox", "empty") THEN <<"mail_delivered">>
         ELSE IF At(D, "mailbox", "flagged") THEN <<"mailbox_full">> ELSE <<>>
    [] s = "laundry_loaded" -> IF At(D, "washer", "idle") THEN <<"laundry_loaded">> ELSE <<>>
    [] s = "fridge_opened"  -> IF At(D, "fridge", "closed") THEN <<"fridge_door_opened">> ELSE <<>>
    [] s = "bathroom_enter" -> IF At(D, "bathroom", "vacant") THEN <<"bathroom_occupied">> ELSE <<>>
    [] s = "bathroom_leave" -> IF At(D, "bathroom", "occupied") THEN <<"bathroom_vacated">> ELSE <<>>
    [] s = "garage_obstruction" ->
         IF At(D, "garage", "closing") THEN <<"garage_door_obstruction">> ELSE <<>>
    [] s = "away_start"            -> <<"away_started", "occupancy_became_zero">>
    [] s = "occupants_return"      -> <<"occupants_returned", "authorized_return">>
    [] s = "departure"             -> <<"occupants_departed", "occupancy_became_zero">>
    [] s = "failed_entry"          -> <<"failed_entry_attempt">>
    [] s = "expected_delivery"     -> <<"delivery_arrived", "expected_delivery_arrived">>
    [] s = "unexpected_delivery"   -> <<"delivery_arrived">>
    [] s = "parked"                -> <<"vehicle_parked">>
    [] s = "curfew"                -> <<"television_curfew_started">>
    [] s = "curfew_end"            -> <<"television_curfew_ended">>
    [] s = "resident_arrival"      -> <<"resident_arrived", "authorized_resident_arrived">>
    [] s = "unknown_credential"    -> <<"unknown_credential_arrived">>
    [] s = "collection_due"        -> <<"bin_collection_due">>
    [] s = "departure_keys_missing" -> <<"departure_started">>
    [] s = "keys_found"            -> <<"keys_present">>
    [] s = "wake_time"             -> <<"intended_wake_time">>
    [] s = "toilet_used"           -> <<"toilet_use_finished">>
    [] s = "toilet_paper_empty"    -> <<"toilet_paper_depleted">>
    [] s = "emergency"             -> <<"emergency_detected", "supported_emergency_detected">>
    [] s = "unsupported_emergency" -> <<"unsupported_alarm">>
    [] s = "authorized_vehicle"    -> <<"vehicle_arrived", "authorized_vehicle_arrived">>
    [] s = "unauthorized_vehicle"  -> <<"unauthorized_vehicle_arrived">>
    [] s = "stove_unattended"      -> <<"stove_became_unattended">>
    [] s = "weekly_due"            -> <<"weekly_cleaning_due">>
    [] s = "television_resume_attempt" -> <<"media_resume_attempt">>
    [] OTHER -> <<s>>   \* the event has the stream's name

\* self._household after stream s.
StreamHousehold(s, hh) ==
  CASE s \in {"away_start", "departure"} -> [hh EXCEPT !.occupancy = "away"]
    [] s = "occupants_return"       -> [hh EXCEPT !.occupancy = "home"]
    [] s = "visitor"                -> [hh EXCEPT !.visitor = "known"]
    [] s = "unauthorized_visitor"   -> [hh EXCEPT !.visitor = "unknown"]
    [] s = "expected_delivery"      -> [hh EXCEPT !.delivery = "known"]
    [] s = "unexpected_delivery"    -> [hh EXCEPT !.delivery = "unknown"]
    [] s = "resident_arrival"       -> [hh EXCEPT !.credential = "known"]
    [] s = "unknown_credential"     -> [hh EXCEPT !.credential = "unknown"]
    [] s = "authorized_vehicle"     -> [hh EXCEPT !.vehicle = "known"]
    [] s = "unauthorized_vehicle"   -> [hh EXCEPT !.vehicle = "unknown"]
    [] s = "emergency"              -> [hh EXCEPT !.emergency = "known"]
    [] s = "unsupported_emergency"  -> [hh EXCEPT !.emergency = "unknown"]
    [] s = "departure_keys_missing" -> [hh EXCEPT !.keys = FALSE]
    [] s = "keys_found"             -> [hh EXCEPT !.keys = TRUE]
    [] s = "stove_unattended"       -> [hh EXCEPT !.attended = FALSE]
    [] s = "stove_attendance_restored" -> [hh EXCEPT !.attended = TRUE]
    [] OTHER                        -> hh

\* self._workflow after stream s: sessions, the visitor log, the occurrence.
StreamWorkflow(s, D, w) ==
  CASE s \in {"visitor", "unauthorized_visitor"} /\ At(D, "intercom", "idle") ->
         [w EXCEPT !.visitors = Append(@, IF s = "visitor" THEN "known" ELSE "unknown")]
    [] s = "curfew"             -> [w EXCEPT !.sessions.television_curfew = "active"]
    [] s = "curfew_end"         -> [w EXCEPT !.sessions.television_curfew = "inactive"]
    [] s = "resident_arrival"   -> [w EXCEPT !.sessions.resident_entry = "active"]
    [] s = "authorized_vehicle" -> [w EXCEPT !.sessions.vehicle_entry = "active"]
    [] s = "shower_started"     -> [w EXCEPT !.sessions.shower = "active"]
    [] s = "shower_ended"       -> [w EXCEPT !.sessions.shower = "inactive"]
    [] s = "departure_keys_missing" -> [w EXCEPT !.sessions.departure = "active"]
    [] s \in {"departure_completed", "departure_cancelled"} ->
         [w EXCEPT !.sessions.departure = "inactive"]
    [] s = "weekly_due"         -> [w EXCEPT !.occurrence = "due"]
    [] OTHER                    -> w

\* A ring starts the task visitor_response.
StreamStartsTask(s, D) == s \in {"visitor", "unauthorized_visitor"} /\ At(D, "intercom", "idle")

(***************************************************************************)
(* Schedules.                                                              *)
(***************************************************************************)

HorizonTicks == Horizon \div Tick

Larger(a, b)  == IF a > b THEN a ELSE b
Smaller(a, b) == IF a < b THEN a ELSE b
From(lo, hi)  == lo .. Larger(lo, hi)

Early == From(2, Smaller(HorizonTicks \div 3, 30))
Later(t, gap) == Larger(t + gap, HorizonTicks \div 2)
BackHome(t)   == Larger(t + 6, HorizonTicks - 2)

AwayScenarios == {"away_intercom_notification", "away_visitor_monitoring",
                  "unoccupied_visitor_acknowledgement", "remote_visitor_gate_access"}

\* A principal stream in the early third of the episode, then its counterpart.
Pair(first, second, gap) ==
  {<<<<t, first>>, <<Later(t, gap), second>>>> : t \in Early}

OnlyIf(cond, pairs) == IF cond THEN pairs ELSE <<>>

\* The schedules reset can draw for scenario sc.  Episodes of fewer than eight
\* ticks have no outside events.
Schedules(sc) ==
  LET H == HorizonTicks IN
  CASE H < 8 -> {<<>>}
    [] sc \in AwayScenarios ->
         {<<<<1, "away_start">>, <<v, "visitor">>>>
            \o OnlyIf(sc = "remote_visitor_gate_access" /\ H >= 12,
                      <<<<Later(v, 4), "unauthorized_visitor">>>>)
            \o <<<<BackHome(v), "occupants_return">>>> : v \in From(3, H - 8)}
    [] sc = "mail_arrival_notification" -> {<<<<t, "mail">>>> : t \in 1..Larger(2, H - 2)}
    [] sc = "bathroom_occupancy_indicator" ->
         {LET leave == t + Larger(1, Cfg.bathroom_occupancy \div Tick) IN
          <<<<t, "bathroom_enter">>>> \o OnlyIf(leave < H, <<<<leave, "bathroom_leave">>>>)
            : t \in From(1, H \div 2)}
    [] sc \in {"departure_lockdown", "unoccupied_home_security"} ->
         {<<<<t, "departure">>>>
            \o OnlyIf(sc = "unoccupied_home_security" /\ H >= 12,
                      <<<<Later(t, 4), "unauthorized_access_attempt">>>>)
            \o <<<<BackHome(t), "occupants_return">>>> : t \in Early}
    [] sc = "failed_entry_notification" -> {<<<<t, "failed_entry">>>> : t \in From(1, H \div 3)}
    [] sc = "expected_delivery_gate_and_notice" ->
         {<<<<t, "expected_delivery">>>>
            \o OnlyIf(H >= 12, <<<<Later(t, 5), "unexpected_delivery">>>>) : t \in Early}
    [] sc = "post_parking_garage_closure" ->
         {<<<<t, "parked">>, <<t + 1, "garage_obstruction">>>> : t \in Early}
    [] sc = "laundry_backlog_management" ->
         {<<<<t, "laundry_loaded">>>> : t \in From(2, Smaller(H - 4, 30))}
    [] sc = "fridge_door_left_open" ->
         {<<<<t, "fridge_opened">>>> : t \in From(2, Smaller(H - 4, 30))}
    [] sc = "full_bin_collection_notice" -> {<<<<t, "collection_due">>>> : t \in From(2, H \div 2)}
    [] sc = "post_use_toilet_flush" -> {<<<<t, "toilet_used">>>> : t \in From(2, H \div 2)}
    [] sc = "toilet_paper_depletion_notice" ->
         {<<<<t, "toilet_paper_empty">>>> : t \in From(2, H \div 2)}
    [] sc = "weekly_floor_cleaning" ->
         {OnlyIf(Clock.weekly_due \in 1..H, <<<<Clock.weekly_due, "weekly_due">>>>)}
    [] sc = "unattended_stove_guard" ->
         {<<<<t, "stove_unattended">>,
            <<Smaller(H - 1, t + 10), "stove_attendance_restored">>>> : t \in Early}
    [] sc = "television_curfew" ->
         LET start == Clock.curfew_start
             stop  == OnlyIf(Clock.curfew_end <= H, <<<<Clock.curfew_end, "curfew_end">>>>)
         IN  IF start > H THEN {stop}
             ELSE {<<<<start, "curfew">>>>
                     \o OnlyIf(t <= H, <<<<t, "television_resume_attempt">>>>) \o stop
                     : t \in From(start + 2, Smaller(H - 1, start + 30))}
    [] sc = "keyless_resident_entry" -> Pair("resident_arrival", "unknown_credential", 5)
    [] sc = "departure_key_reminder" ->
         {<<<<t, "departure_keys_missing">>, <<Smaller(H - 2, t + 4), "keys_found">>,
            <<Smaller(H - 1, t + 8), final>>>> :
             t \in Early, final \in {"departure_cancelled", "departure_completed"}}
    [] sc \in {"intended_wake_alarm", "coffee_ready_at_wake"} ->
         {<<<<Smaller(H - 1, Larger(2, Clock.wake)), "wake_time">>>>}
    [] sc \in {"shower_music_availability", "shower_news_delivery"} ->
         {LET stop == t + Larger(1, Cfg.shower_session \div Tick) IN
          OnlyIf(t < H, <<<<t, "shower_started">>>>) \o OnlyIf(stop < H, <<<<stop, "shower_ended">>>>)
            : t \in IF sc = "shower_music_availability" THEN Early
                    ELSE From(Clock.morning, Smaller(H - 2, Clock.morning + 30))}
    [] sc = "supported_emergency_call" -> Pair("emergency", "unsupported_emergency", 5)
    [] sc = "authorized_vehicle_gate_entry" ->
         Pair("authorized_vehicle", "unauthorized_vehicle", 5)
    [] OTHER -> {<<>>}

\* The streams a schedule holds for tick t, in the order they arrive.
Arrivals(schedule, t) ==
  LET now == SelectSeq(schedule, LAMBDA p : p[1] = t)
  IN  [i \in 1..Len(now) |-> now[i][2]]
=============================================================================
