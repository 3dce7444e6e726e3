------------------------------ MODULE Tracker ------------------------------
(***************************************************************************)
(* watch_usb and poll_usb (src/src/track.rs): a stream of events from      *)
(* which its consumer knows the ADB devices on the bus.  watch_usb asks    *)
(* for hotplug events first and lists the devices then; poll_usb lists     *)
(* them again and again.  A device that is unplugged and plugged in again  *)
(* is another one: its id is new.                                          *)
(***************************************************************************)
EXTENDS Naturals, Sequences

CONSTANTS
    Devices,        \* ids
    Adb             \* those with an ADB interface

ASSUME TrackerAssumption == Adb \subseteq Devices

VARIABLES
    mode,           \* watch, poll
    bus,            \* what is plugged in
    past,           \* what has been plugged in and out
    hot,            \* hotplug events not taken yet, <<connected, id>>
    phase,          \* start, watching (not listed yet), listing, running, ended
    known,          \* the devices the stream takes to be there
    leaving,        \* events to hand out: Detached, and after these
    arriving,       \*                     Attached
    view            \* history: what the consumer takes to be there

trackerVars == <<mode, bus, past, hot, phase, known, leaving, arriving, view>>

Listing == bus \cap Adb                     \* usb::list
Busy == leaving # {} \/ arriving # {}

Connected(d) == <<TRUE, d>>
Disconnected(d) == <<FALSE, d>>

-----------------------------------------------------------------------------
(* The bus, and the watch on it *)

NotifyLate(e) == hot' = IF mode = "watch" /\ phase = "running"
                        THEN Append(hot, e) ELSE hot
Notify(e) == hot' = IF mode = "watch" /\ phase \in {"watching", "listing", "running"}
                    THEN Append(hot, e) ELSE hot

Plug(d) ==
    /\ d \notin bus \cup past
    /\ bus' = bus \cup {d} /\ Notify(Connected(d))
    /\ UNCHANGED <<mode, past, phase, known, leaving, arriving, view>>

Unplug(d) ==
    /\ d \in bus
    /\ bus' = bus \ {d} /\ past' = past \cup {d} /\ Notify(Disconnected(d))
    /\ UNCHANGED <<mode, phase, known, leaving, arriving, view>>

-----------------------------------------------------------------------------
(* watch_usb: watch_devices when it is called, list when it is first        *)
(* polled; by the time list returns, what it has seen may be old.           *)
Watch ==
    /\ mode = "watch" /\ phase = "start"
    /\ phase' = "watching"
    /\ UNCHANGED <<mode, bus, past, hot, known, leaving, arriving, view>>

ListFirst ==
    /\ mode = "watch" /\ phase = "watching"
    /\ phase' = "listing" /\ known' = Listing /\ arriving' = Listing
    /\ UNCHANGED <<mode, bus, past, hot, leaving, view>>

ListReturns ==
    /\ phase = "listing"
    /\ phase' = "running"
    /\ UNCHANGED <<mode, bus, past, hot, known, leaving, arriving, view>>

(* A failure of list ends the watch, after the error; poll_usb goes on.     *)
ListFails ==
    /\ mode = "watch" /\ phase = "watching"
    /\ phase' = "ended"
    /\ UNCHANGED <<mode, bus, past, hot, known, leaving, arriving, view>>

AnyDevice(d) == TRUE
Reported(d) == d \in known

(* hotplug_events: what is not ADB, or was not reported, is passed over.    *)
Hotplug ==
    /\ mode = "watch" /\ phase = "running" /\ ~Busy /\ hot # <<>>
    /\ hot' = Tail(hot)
    /\ LET d == Head(hot)[2] IN
       \/ /\ Head(hot)[1] /\ d \in Adb
          /\ known' = known \cup {d} /\ arriving' = {d} /\ UNCHANGED leaving
       \/ /\ ~Head(hot)[1] /\ Reported(d)
          /\ known' = known \ {d} /\ leaving' = {d} /\ UNCHANGED arriving
       \/ /\ IF Head(hot)[1] THEN d \notin Adb ELSE ~Reported(d)
          /\ UNCHANGED <<known, leaving, arriving>>
    /\ UNCHANGED <<mode, bus, past, phase, view>>

(* poll_usb: diff of two listings, removed before added. *)
Added(previous, current) == current \ previous
Removed(previous, current) == previous \ current

Poll ==
    /\ mode = "poll" /\ ~Busy
    /\ known' = Listing
    /\ leaving' = Removed(known, Listing) /\ arriving' = Added(known, Listing)
    /\ phase' = "running"
    /\ UNCHANGED <<mode, bus, past, hot, view>>

(* The consumer takes an event. *)
TakeDetached ==
    /\ phase = "running"
    /\ \E d \in leaving : leaving' = leaving \ {d} /\ view' = view \ {d}
    /\ UNCHANGED <<mode, bus, past, hot, phase, known, arriving>>

TakeAttached ==
    /\ phase = "running" /\ leaving = {}
    /\ \E d \in arriving : arriving' = arriving \ {d} /\ view' = view \cup {d}
    /\ UNCHANGED <<mode, bus, past, hot, phase, known, leaving>>

TrackerInit ==
    /\ mode \in {"watch", "poll"} /\ phase = "start"
    /\ bus \in SUBSET Devices /\ past = {} /\ hot = <<>>
    /\ known = {} /\ leaving = {} /\ arriving = {} /\ view = {}

Bus == \E d \in Devices : Plug(d) \/ Unplug(d)

TrackerNext == \/ Bus \/ Watch \/ ListFirst \/ ListReturns \/ ListFails
               \/ Hotplug \/ Poll \/ TakeDetached \/ TakeAttached

TrackerSpec == TrackerInit /\ [][TrackerNext]_trackerVars

-----------------------------------------------------------------------------
(* Properties *)

(* A consumer that has taken every event of a running watch knows exactly   *)
(* the ADB devices on the bus: no device falls between the watch and the    *)
(* first list, whenever it is plugged in or out.                            *)
NoneMissed ==
    mode = "watch" /\ phase = "running" /\ ~Busy /\ hot = <<>> => view = Listing

(* A Detached is for "a previously reported device" (track.rs:21) which the *)
(* consumer still has; and a poll reports a device again only after that.   *)
EventsInOrder ==
    /\ leaving \subseteq view
    /\ mode = "poll" => arriving \cap view = {}

=============================================================================
