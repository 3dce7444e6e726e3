--------------------------- MODULE TrackerProofs ---------------------------
(***************************************************************************)
(* NoneMissed and EventsInOrder, for any devices.                          *)
(***************************************************************************)
EXTENDS Tracker, TLAPS

Events == BOOLEAN \X Devices

TypeOK ==
    /\ mode \in {"watch", "poll"}
    /\ phase \in {"start", "watching", "listing", "running", "ended"}
    /\ bus \subseteq Devices /\ past \subseteq Devices /\ bus \cap past = {}
    /\ hot \in Seq(Events)
    /\ known \subseteq Adb

(* Hotplug events that have not been taken: a device is connected before it *)
(* is disconnected, and if it is gone that is still to come.                *)
Waits(e) == \E i \in 1 .. Len(hot) : hot[i] = e
Queue ==
    /\ mode = "poll" \/ phase = "start" => hot = <<>>
    /\ \A d \in Devices :
        /\ Waits(Connected(d)) => d \in bus \cup past
        /\ Waits(Disconnected(d)) => d \in past
        /\ Waits(Connected(d)) /\ d \in past /\ phase # "ended" => Waits(Disconnected(d))
        /\ \A i, j \in 1 .. Len(hot) :
              hot[i] = Connected(d) /\ hot[j] = Disconnected(d) => i < j

(* What the stream knows and the bus does not show, or the other way round, *)
(* is in an event that waits.                                               *)
Knows ==
    mode = "watch" /\ phase \in {"listing", "running"} =>
        /\ \A d \in known : d \in bus \/ Waits(Disconnected(d))
        /\ \A d \in Listing : d \in known \/ Waits(Connected(d))

(* What the consumer has, and what is on its way to it. *)
Tells ==
    /\ leaving \subseteq view
    /\ known = (view \ leaving) \cup arriving
    /\ leaving \cap arriving = {}
    /\ mode = "poll" => arriving \cap view = {}
    /\ phase \in {"start", "watching", "ended"} => view = {} /\ arriving = {}

IInv == TypeOK /\ Queue /\ Knows /\ Tells

LEMMA Pairs ==
    ASSUME NEW d, NEW e
    PROVE /\ Connected(d) # Disconnected(e)
          /\ Connected(d) = Connected(e) => d = e
          /\ Disconnected(d) = Disconnected(e) => d = e
  BY DEF Connected, Disconnected

LEMMA TrackerInitial == TrackerInit => IInv
  BY DEF TrackerInit, IInv, TypeOK, Queue, Knows, Tells, Waits, Events

(* An event at the end of the queue. *)
LEMMA Appended ==
    ASSUME hot \in Seq(Events), NEW e \in Events, hot' = Append(hot, e), NEW x
    PROVE /\ Waits(x)' <=> Waits(x) \/ x = e
          /\ hot' \in Seq(Events) /\ Len(hot') = Len(hot) + 1
          /\ \A i \in 1 .. Len(hot) : hot'[i] = hot[i]
          /\ hot'[Len(hot) + 1] = e
  BY DEF Waits

(* The first event taken out of it. *)
LEMMA Taken ==
    ASSUME hot \in Seq(Events), hot # <<>>, hot' = Tail(hot), NEW x
    PROVE /\ Head(hot) = hot[1] /\ Head(hot) \in Events
          /\ Waits(x) <=> Waits(x)' \/ x = Head(hot)
          /\ hot' \in Seq(Events) /\ Len(hot') = Len(hot) - 1
          /\ \A i \in 1 .. Len(hot') : hot'[i] = hot[i + 1]
  <1>1. Len(hot) \in Nat /\ Len(hot) > 0 /\ Head(hot) = hot[1] /\ hot[1] \in Events
    OBVIOUS
  <1>2. /\ hot' \in Seq(Events) /\ Len(hot') = Len(hot) - 1
        /\ \A i \in 1 .. Len(hot') : hot'[i] = hot[i + 1]
    OBVIOUS
  <1>3. ASSUME Waits(x) PROVE Waits(x)' \/ x = Head(hot)
    <2>1. PICK i \in 1 .. Len(hot) : hot[i] = x BY <1>3 DEF Waits
    <2>2. CASE i = 1 BY <2>1, <2>2, <1>1
    <2>3. CASE i # 1
      <3>1. i - 1 \in 1 .. Len(hot') /\ hot'[i - 1] = x BY <2>1, <2>3, <1>1, <1>2
      <3> QED BY <3>1 DEF Waits
    <2> QED BY <2>2, <2>3
  <1>4. ASSUME Waits(x)' PROVE Waits(x)
    <2>1. PICK i \in 1 .. Len(hot') : hot'[i] = x BY <1>4 DEF Waits
    <2>2. i + 1 \in 1 .. Len(hot) /\ hot[i + 1] = x BY <2>1, <1>1, <1>2
    <2> QED BY <2>2 DEF Waits
  <1>5. Waits(Head(hot)) BY <1>1 DEF Waits
  <1> QED BY <1>1, <1>2, <1>3, <1>4, <1>5

LEMMA NothingWaits == ASSUME hot = <<>>, NEW x PROVE ~Waits(x)
  BY DEF Waits

(* Notify appends the event, or the watch is not there to see it. *)
LEMMA Notified ==
    ASSUME IInv, NEW e, Notify(e)
    PROVE \/ mode = "watch" /\ phase \in {"watching", "listing", "running"} /\ hot' = Append(hot, e)
          \/ mode = "poll" /\ hot' = hot
          \/ phase \in {"start", "ended"} /\ hot' = hot
  BY DEF Notify, IInv, TypeOK

-----------------------------------------------------------------------------
(* The actions *)

LEMMA PlugKeeps == ASSUME IInv, NEW d \in Devices, Plug(d) PROVE IInv'
  <1> USE DEF IInv
  <1>1. /\ d \notin bus \cup past /\ bus' = bus \cup {d}
        /\ UNCHANGED <<mode, past, phase, known, leaving, arriving, view>>
    BY DEF Plug
  <1>2. Connected(d) \in Events BY DEF Connected, Events
  <1>3. Tells' BY <1>1 DEF Tells
  <1>4. CASE hot' = hot /\ (mode = "poll" \/ phase \in {"start", "ended"})
    <2>1. \A x : Waits(x)' <=> Waits(x) BY <1>4 DEF Waits
    <2>2. TypeOK' BY <1>1, <1>4 DEF TypeOK
    <2>3. Queue'
      <3>1. mode' = "poll" \/ phase' = "start" => hot' = <<>>
        BY <1>1, <1>4 DEF Queue
      <3>2. SUFFICES ASSUME NEW c \in Devices
            PROVE /\ Waits(Connected(c))' => c \in (bus \cup past)'
                  /\ Waits(Disconnected(c))' => c \in past'
                  /\ Waits(Connected(c))' /\ c \in past' /\ phase' # "ended"
                        => Waits(Disconnected(c))'
                  /\ \A i, j \in 1 .. Len(hot') :
                       hot'[i] = Connected(c) /\ hot'[j] = Disconnected(c) => i < j
        BY <3>1 DEF Queue, Connected, Disconnected
      <3> QED BY <1>1, <1>4, <2>1 DEF Queue
    <2>4. Knows' BY <1>1, <1>4 DEF Knows, TypeOK
    <2> QED BY <2>2, <2>3, <2>4, <1>3
  <1>5. CASE /\ mode = "watch" /\ phase \in {"watching", "listing", "running"}
             /\ hot' = Append(hot, Connected(d))
    <2>1. /\ \A x : Waits(x)' <=> Waits(x) \/ x = Connected(d)
          /\ hot' \in Seq(Events) /\ Len(hot') = Len(hot) + 1 /\ Len(hot) \in Nat
          /\ \A i \in 1 .. Len(hot) : hot'[i] = hot[i]
          /\ hot'[Len(hot) + 1] = Connected(d)
      BY <1>2, <1>5, Appended DEF TypeOK
    <2>2. TypeOK' BY <1>1, <2>1 DEF TypeOK
    <2>3. ASSUME NEW c \in Devices
          PROVE /\ Waits(Connected(c))' => c \in (bus \cup past)'
                /\ Waits(Disconnected(c))' => c \in past'
                /\ Waits(Connected(c))' /\ c \in past' => Waits(Disconnected(c))'
      BY <1>1, <1>5, <2>1, Pairs DEF Queue
    <2>4. ASSUME NEW c \in Devices, NEW i \in 1 .. Len(hot'), NEW j \in 1 .. Len(hot'),
                 hot'[i] = Connected(c), hot'[j] = Disconnected(c)
          PROVE i < j
      <3>1. j \in 1 .. Len(hot) /\ hot[j] = Disconnected(c) BY <2>1, <2>4, Pairs
      <3>2. c \in past BY <3>1 DEF Queue, Waits
      <3>3. i \in 1 .. Len(hot) /\ hot[i] = Connected(c)
        BY <1>1, <2>1, <2>4, <3>2, Pairs
      <3> QED BY <3>1, <3>3 DEF Queue
    <2>5. Queue'
      <3>1. ~(mode' = "poll" \/ phase' = "start") BY <1>1, <1>5
      <3> QED BY <2>3, <2>4, <3>1 DEF Queue, Connected, Disconnected
    <2>6. Knows' BY <1>1, <2>1 DEF Knows, Listing, Connected, Disconnected
    <2> QED BY <2>2, <2>5, <2>6, <1>3
  <1> QED BY <1>4, <1>5, Notified DEF Plug

LEMMA UnplugKeeps == ASSUME IInv, NEW d \in Devices, Unplug(d) PROVE IInv'
  <1> USE DEF IInv
  <1>1. /\ d \in bus /\ bus' = bus \ {d} /\ past' = past \cup {d}
        /\ UNCHANGED <<mode, phase, known, leaving, arriving, view>>
    BY DEF Unplug
  <1>2. Disconnected(d) \in Events BY DEF Disconnected, Events
  <1>3. Tells' BY <1>1 DEF Tells
  <1>4. CASE hot' = hot /\ (mode = "poll" \/ phase \in {"start", "ended"})
    <2>1. \A x : Waits(x)' <=> Waits(x) BY <1>4 DEF Waits
    <2>2. TypeOK' BY <1>1, <1>4 DEF TypeOK
    <2>3. Queue'
      <3>1. mode' = "poll" \/ phase' = "start" => hot' = <<>>
        BY <1>1, <1>4 DEF Queue
      <3>2. hot = <<>> \/ phase = "ended" BY <1>4 DEF Queue
      <3>3. SUFFICES ASSUME NEW c \in Devices
            PROVE /\ Waits(Connected(c))' => c \in (bus \cup past)'
                  /\ Waits(Disconnected(c))' => c \in past'
                  /\ Waits(Connected(c))' /\ c \in past' /\ phase' # "ended"
                        => Waits(Disconnected(c))'
                  /\ \A i, j \in 1 .. Len(hot') :
                       hot'[i] = Connected(c) /\ hot'[j] = Disconnected(c) => i < j
        BY <3>1 DEF Queue, Connected, Disconnected
      <3> QED BY <1>1, <1>4, <2>1, <3>2, NothingWaits DEF Queue
    <2>4. Knows' BY <1>1, <1>4 DEF Knows, TypeOK
    <2> QED BY <2>2, <2>3, <2>4, <1>3
  <1>5. CASE /\ mode = "watch" /\ phase \in {"watching", "listing", "running"}
             /\ hot' = Append(hot, Disconnected(d))
    <2>1. /\ \A x : Waits(x)' <=> Waits(x) \/ x = Disconnected(d)
          /\ hot' \in Seq(Events) /\ Len(hot') = Len(hot) + 1 /\ Len(hot) \in Nat
          /\ \A i \in 1 .. Len(hot) : hot'[i] = hot[i]
          /\ hot'[Len(hot) + 1] = Disconnected(d)
      BY <1>2, <1>5, Appended DEF TypeOK
    <2>2. TypeOK' BY <1>1, <2>1 DEF TypeOK
    <2>3. ASSUME NEW c \in Devices
          PROVE /\ Waits(Connected(c))' => c \in (bus \cup past)'
                /\ Waits(Disconnected(c))' => c \in past'
                /\ Waits(Connected(c))' /\ c \in past' => Waits(Disconnected(c))'
      BY <1>1, <1>5, <2>1, Pairs DEF Queue
    <2>4. ASSUME NEW c \in Devices, NEW i \in 1 .. Len(hot'), NEW j \in 1 .. Len(hot'),
                 hot'[i] = Connected(c), hot'[j] = Disconnected(c)
          PROVE i < j
      <3>1. i \in 1 .. Len(hot) /\ hot[i] = Connected(c) BY <2>1, <2>4, Pairs
      <3>2. CASE j \in 1 .. Len(hot) BY <2>1, <2>4, <3>1, <3>2 DEF Queue
      <3>3. CASE j = Len(hot) + 1 BY <2>1, <3>1, <3>3
      <3> QED BY <2>1, <3>2, <3>3
    <2>5. Queue'
      <3>1. ~(mode' = "poll" \/ phase' = "start") BY <1>1, <1>5
      <3> QED BY <2>3, <2>4, <3>1 DEF Queue, Connected, Disconnected
    <2>6. Knows' BY <1>1, <2>1 DEF Knows, Listing, Connected, Disconnected
    <2> QED BY <2>2, <2>5, <2>6, <1>3
  <1> QED BY <1>4, <1>5, Notified DEF Unplug

LEMMA HotplugKeeps == ASSUME IInv, Hotplug PROVE IInv'
  <1> USE DEF IInv
  <1> DEFINE d == Head(hot)[2]
  <1>1. /\ mode = "watch" /\ phase = "running" /\ ~Busy /\ hot # <<>> /\ hot' = Tail(hot)
        /\ UNCHANGED <<mode, bus, past, phase, view>>
    BY DEF Hotplug
  <1>2. /\ \A x : Waits(x) <=> Waits(x)' \/ x = Head(hot)
        /\ Head(hot) = hot[1] /\ Head(hot) \in Events
        /\ hot' \in Seq(Events) /\ Len(hot') = Len(hot) - 1
        /\ \A i \in 1 .. Len(hot') : hot'[i] = hot[i + 1]
        /\ Len(hot) \in Nat \ {0}
    BY <1>1, Taken DEF TypeOK
  <1>3. /\ d \in Devices /\ Head(hot)[1] \in BOOLEAN
        /\ Head(hot)[1] => Head(hot) = Connected(d)
        /\ ~Head(hot)[1] => Head(hot) = Disconnected(d)
    <2>1. PICK b \in BOOLEAN, c \in Devices : Head(hot) = <<b, c>> BY <1>2 DEF Events
    <2>2. Head(hot)[1] = b /\ d = c BY <2>1
    <2> QED BY <2>1, <2>2 DEF Connected, Disconnected
  <1>4. \/ /\ Head(hot) = Connected(d) /\ d \in Adb
           /\ known' = known \cup {d} /\ arriving' = {d} /\ leaving' = leaving
        \/ /\ Head(hot) = Disconnected(d) /\ d \in known
           /\ known' = known \ {d} /\ leaving' = {d} /\ arriving' = arriving
        \/ /\ Head(hot) = Connected(d) /\ d \notin Adb
           /\ UNCHANGED <<known, leaving, arriving>>
        \/ /\ Head(hot) = Disconnected(d) /\ d \notin known
           /\ UNCHANGED <<known, leaving, arriving>>
    <2>1. \/ Head(hot)[1] /\ d \in Adb
             /\ known' = known \cup {d} /\ arriving' = {d} /\ leaving' = leaving
          \/ ~Head(hot)[1] /\ d \in known
             /\ known' = known \ {d} /\ leaving' = {d} /\ arriving' = arriving
          \/ /\ IF Head(hot)[1] THEN d \notin Adb ELSE d \notin known
             /\ UNCHANGED <<known, leaving, arriving>>
      BY DEF Hotplug, Reported
    <2> QED BY <1>3, <2>1
  <1>5. TypeOK' BY <1>1, <1>2, <1>4 DEF TypeOK
  <1>6. Tells'
    <2>1. leaving = {} /\ arriving = {} BY <1>1 DEF Busy
    <2> QED BY <1>1, <1>4, <2>1 DEF Tells
  <1>7. ASSUME NEW c \in Devices
        PROVE /\ Waits(Connected(c))' => c \in (bus \cup past)'
              /\ Waits(Disconnected(c))' => c \in past'
    BY <1>1, <1>2 DEF Queue
  <1>8. ASSUME NEW c \in Devices, Waits(Connected(c))', c \in past
        PROVE Waits(Disconnected(c))'
    <2>1. Waits(Disconnected(c)) BY <1>1, <1>2, <1>8 DEF Queue
    <2>2. ASSUME Disconnected(c) = hot[1] PROVE FALSE
      <3>1. PICK i \in 1 .. Len(hot') : hot'[i] = Connected(c) BY <1>8 DEF Waits
      <3>2. i + 1 \in 1 .. Len(hot) /\ hot[i + 1] = Connected(c) /\ 1 \in 1 .. Len(hot)
        BY <1>2, <3>1
      <3>3. i + 1 < 1 BY <2>2, <3>2 DEF Queue
      <3> QED BY <3>1, <3>3
    <2> QED BY <1>2, <2>1, <2>2
  <1>9. ASSUME NEW c \in Devices, NEW i \in 1 .. Len(hot'), NEW j \in 1 .. Len(hot'),
               hot'[i] = Connected(c), hot'[j] = Disconnected(c)
        PROVE i < j
    <2>1. /\ i + 1 \in 1 .. Len(hot) /\ hot[i + 1] = Connected(c)
          /\ j + 1 \in 1 .. Len(hot) /\ hot[j + 1] = Disconnected(c)
      BY <1>2, <1>9
    <2>2. i + 1 < j + 1 BY <2>1 DEF Queue
    <2> QED BY <2>2
  <1>10. Queue'
    <2>1. ~(mode' = "poll" \/ phase' = "start") BY <1>1
    <2> QED BY <1>1, <1>7, <1>8, <1>9, <2>1 DEF Queue, Connected, Disconnected
  <1>11. Knows'
    <2>1. ASSUME NEW c \in known' PROVE c \in bus \/ Waits(Disconnected(c))'
      <3>1. CASE c \in known
        <4>1. c \in bus \/ Waits(Disconnected(c)) BY <1>1, <3>1 DEF Knows
        <4>2. CASE Head(hot) = Disconnected(c)
          <5>1. c = d /\ Head(hot) # Connected(d) BY <1>4, <4>2, Pairs
          <5> QED BY <1>4, <2>1, <3>1, <5>1
        <4> QED BY <1>2, <4>1, <4>2
      <3>2. CASE c \notin known
        <4>1. c = d /\ Head(hot) = Connected(d) BY <1>4, <2>1, <3>2
        <4>2. c \in Devices /\ Waits(Connected(c)) BY <1>2, <1>3, <4>1
        <4>3. c \in bus \/ Waits(Disconnected(c)) BY <1>1, <4>2 DEF Queue
        <4> QED BY <1>2, <4>1, <4>3, Pairs
      <3> QED BY <3>1, <3>2
    <2>2. ASSUME NEW c \in Listing PROVE c \in known' \/ Waits(Connected(c))'
      <3>1. c \in known \/ Waits(Connected(c)) BY <1>1, <2>2 DEF Knows
      <3>2. c \in bus /\ c \in Adb /\ c \notin past /\ c \in Devices
        BY <2>2 DEF Listing, TypeOK
      <3>3. CASE Head(hot) = Connected(c) BY <1>4, <3>2, <3>3, Pairs
      <3>4. CASE Head(hot) = Disconnected(c) BY <1>2, <3>2, <3>4 DEF Queue
      <3> QED BY <1>2, <1>4, <3>1, <3>3, <3>4
    <2> QED BY <1>1, <2>1, <2>2 DEF Knows, Listing, Connected, Disconnected
  <1> QED BY <1>5, <1>6, <1>10, <1>11

(* The steps that leave the bus and its events alone. *)
LEMMA OtherKeeps ==
    ASSUME IInv,
           Watch \/ ListFirst \/ ListReturns \/ ListFails \/ Poll \/ TakeDetached \/ TakeAttached
    PROVE IInv'
  <1> USE DEF IInv
  <1>1. UNCHANGED <<mode, bus, past, hot>>
    BY DEF Watch, ListFirst, ListReturns, ListFails, Poll, TakeDetached, TakeAttached
  <1>2. \A x : Waits(x)' <=> Waits(x) BY <1>1 DEF Waits
  <1>3. phase' = "start" => phase = "start"
    BY DEF Watch, ListFirst, ListReturns, ListFails, Poll, TakeDetached, TakeAttached
  <1>4. TypeOK'
    <2> USE <1>1 DEF TypeOK, Listing
    <2> QED BY DEF Watch, ListFirst, ListReturns, ListFails, Poll, TakeDetached, TakeAttached
  <1>5. Queue'
    <2>1. mode' = "poll" \/ phase' = "start" => hot' = <<>> BY <1>1, <1>3 DEF Queue
    <2>2. SUFFICES ASSUME NEW c \in Devices
          PROVE /\ Waits(Connected(c))' => c \in (bus \cup past)'
                /\ Waits(Disconnected(c))' => c \in past'
                /\ Waits(Connected(c))' /\ c \in past' /\ phase' # "ended"
                      => Waits(Disconnected(c))'
                /\ \A i, j \in 1 .. Len(hot') :
                     hot'[i] = Connected(c) /\ hot'[j] = Disconnected(c) => i < j
      BY <2>1 DEF Queue, Connected, Disconnected
    <2>3. phase = "ended" => phase' = "ended" \/ hot = <<>>
      BY DEF Watch, ListFirst, ListReturns, ListFails, Poll, TakeDetached, TakeAttached, Queue
    <2> QED BY <1>1, <1>2, <2>3, NothingWaits DEF Queue
  <1>6. CASE Watch BY <1>1, <1>4, <1>5, <1>6 DEF Watch, Tells, Knows
  <1>7. CASE ListFirst
    <2>1. known' = Listing' BY <1>1, <1>7 DEF ListFirst, Listing
    <2>2. Knows' BY <1>1, <2>1 DEF Knows, Listing
    <2>3. Tells' BY <1>1, <1>7 DEF ListFirst, Tells
    <2> QED BY <1>4, <1>5, <2>2, <2>3
  <1>12. CASE ListReturns
    <2>1. Knows' BY <1>1, <1>2, <1>12 DEF ListReturns, Knows, Listing, Connected, Disconnected
    <2>2. Tells' BY <1>1, <1>12 DEF ListReturns, Tells
    <2> QED BY <1>4, <1>5, <2>1, <2>2
  <1>8. CASE ListFails BY <1>1, <1>4, <1>5, <1>8 DEF ListFails, Tells, Knows
  <1>9. CASE Poll
    <2>1. Knows' BY <1>1, <1>9 DEF Poll, Knows
    <2>2. Tells' BY <1>1, <1>9 DEF Poll, Added, Removed, Busy, Tells
    <2> QED BY <1>4, <1>5, <2>1, <2>2
  <1>10. CASE TakeDetached
    <2>1. UNCHANGED <<phase, known, arriving>> BY <1>10 DEF TakeDetached
    <2>2. Knows'
      BY <1>1, <1>2, <2>1 DEF Knows, Listing, Connected, Disconnected
    <2>3. Tells' BY <1>1, <1>10 DEF TakeDetached, Tells
    <2> QED BY <1>4, <1>5, <2>2, <2>3
  <1>11. CASE TakeAttached
    <2>1. UNCHANGED <<phase, known, leaving>> BY <1>11 DEF TakeAttached
    <2>2. Knows'
      BY <1>1, <1>2, <2>1 DEF Knows, Listing, Connected, Disconnected
    <2>3. Tells' BY <1>1, <1>11 DEF TakeAttached, Tells
    <2> QED BY <1>4, <1>5, <2>2, <2>3
  <1> QED BY <1>6, <1>7, <1>8, <1>9, <1>10, <1>11, <1>12

-----------------------------------------------------------------------------
(* The theorems *)

(* The inductive invariant holds. *)
THEOREM TrackerInvariant == TrackerSpec => []IInv
  <1>1. IInv /\ [TrackerNext]_trackerVars => IInv'
    <2> SUFFICES ASSUME IInv, [TrackerNext]_trackerVars PROVE IInv' OBVIOUS
    <2>1. CASE Bus BY <2>1, PlugKeeps, UnplugKeeps DEF Bus
    <2>2. CASE Hotplug BY <2>2, HotplugKeeps
    <2>3. CASE Watch \/ ListFirst \/ ListReturns \/ ListFails \/ Poll \/ TakeDetached \/ TakeAttached
      BY <2>3, OtherKeeps
    <2>4. CASE UNCHANGED trackerVars
      BY <2>4 DEF trackerVars, IInv, TypeOK, Queue, Knows, Tells, Waits, Listing,
                  Connected, Disconnected
    <2> QED BY <2>1, <2>2, <2>3, <2>4 DEF TrackerNext
  <1> QED BY TrackerInitial, <1>1, PTL DEF TrackerSpec

(* Whatever is plugged in or out, and whenever, around the first list of a  *)
(* watch: when there is nothing left to take its consumer knows the bus.    *)
THEOREM WatchMissesNone == TrackerSpec => []NoneMissed
  <1>1. IInv => NoneMissed
    <2> SUFFICES ASSUME IInv, mode = "watch", phase = "running", ~Busy, hot = <<>>
                 PROVE view = Listing
      BY DEF NoneMissed
    <2>1. known = view BY DEF IInv, Tells, Busy
    <2>2. known \subseteq bus BY NothingWaits DEF IInv, Knows
    <2>3. Listing \subseteq known BY NothingWaits DEF IInv, Knows
    <2> QED BY <2>1, <2>2, <2>3 DEF IInv, TypeOK, Listing
  <1> QED BY TrackerInvariant, <1>1, PTL

(* No Detached for a device its consumer does not have, and no Attached of  *)
(* a poll for one it has.                                                   *)
THEOREM EventsMakeSense == TrackerSpec => []EventsInOrder
  <1>1. IInv => EventsInOrder BY DEF IInv, Tells, EventsInOrder
  <1> QED BY TrackerInvariant, <1>1, PTL

=============================================================================
