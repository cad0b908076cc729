---------------------------- MODULE DeviceProofs ----------------------------
(***************************************************************************)
(* Theorems about the device layer and the frameworks of MCDevices, for    *)
(* any threads, devices and messages.                                      *)
(***************************************************************************)
EXTENDS Device, SpiBus, I2cBus, Adc, Watchdog, Objects, HwTimer, Pwm, ListsProofs, FiniteSetTheorems

(* The device layer: whatever the drivers refuse, if registering, opening  *)
(* and closing do not overlap, counts and flags agree with the clients     *)
(* that have a device open.                                                *)
Places == {"idle", "register", "fields", "activate", "check", "open", "opened",
           "count", "uncount", "last"}

DeviceTypes ==
  /\ devices \in Seq(Devs) /\ Distinct(devices)
  /\ flag \in [Devs -> SUBSET {"STANDALONE", "ACTIVATED"}]
  /\ open_flag \in [Devs -> SUBSET {"OPEN"}]
  /\ ref_count \in [Devs -> Nat]
  /\ dpc \in [Clients -> Places] /\ dev \in [Clients -> Devs \cup {nodev}]
  /\ tmp \in [Clients -> Nat]
  /\ opened \in SUBSET Clients /\ unclosed \in SUBSET Devs

\* One client at a time is inside register, open or close.
TurnsOK == \A c, x \in Clients : ~At(c, "idle") /\ ~At(x, "idle") => c = x

\* One device has the name, and whoever uses a device uses that one.
ListOK ==
  /\ \A d, e : Registered(d) /\ Registered(e) => d = e
  /\ \A c \in Clients : At(c, "register") => devices = <<>> /\ dev[c] \in Devs
  /\ \A c \in Clients : ~At(c, "idle") /\ ~At(c, "register") => Registered(dev[c])
  /\ \A c \in opened : Registered(dev[c])

\* Where a client that has the device open can be, and the others.
ClientsOK ==
  \A c \in Clients :
    /\ At(c, "uncount") => c \in opened
    /\ ~At(c, "idle") /\ ~At(c, "uncount") => c \notin opened
    /\ dpc[c] \in {"register", "fields"} => opened = {}

\* The count is exact at any time; a loaded one is the current one.
CountsOK ==
  /\ IsFiniteSet(opened)
  /\ \A d \in Devs : ref_count[d] = Cardinality(Holders(d))
  /\ \A c \in Clients : dpc[c] \in {"count", "uncount"} => tmp[c] = ref_count[dev[c]]

\* The flags f and o of device d agree with its clients h, when the only client
\* inside a call, if there is one, is at place p with d.
FlagsRight(d, h, f, o, u, p) ==
  /\ h # {} => "ACTIVATED" \in f /\ ("OPEN" \in o \/ p = "opened")
  /\ h = {} /\ d \notin u => o = {} \/ p \in {"count", "last"}
  /\ "STANDALONE" \in f => \A x, y \in h : x = y
  /\ p \in {"check", "open", "opened", "count"} => "ACTIVATED" \in f
  /\ p = "count" => "OPEN" \in o
  /\ p \in {"open", "opened", "count"} /\ "STANDALONE" \in f => h = {}

Alone(c) == \A x \in Clients : x # c => At(x, "idle")

FlagsOK ==
  \A c \in Clients : Alone(c) =>
    \A d \in Devs : FlagsRight(d, Holders(d), flag[d], open_flag[d], unclosed,
                               IF dev[c] = d THEN dpc[c] ELSE "idle")

DeviceInv ==
  DeviceTypes /\ TurnsOK /\ ListOK /\ ClientsOK /\ CountsOK /\ FlagsOK

-----------------------------------------------------------------------------
\* A registered device is a device.
LEMMA RegisteredDevs ==
  ASSUME DeviceTypes, NEW d, Registered(d)
  PROVE  d \in Devs
<1>1. devices \in Seq(Devs) /\ \E i \in DOMAIN devices : devices[i] = d
  BY DEF DeviceTypes, Registered, Linked
<1> QED BY <1>1, LenProperties

LEMMA InitInv == DeviceInit => DeviceInv
<1> SUFFICES ASSUME DeviceInit PROVE DeviceInv
  OBVIOUS
<1>1. DeviceTypes
  BY DEF DeviceInit, DeviceTypes, Places, Distinct
<1>2. TurnsOK /\ ListOK /\ ClientsOK
  BY DEF DeviceInit, TurnsOK, ListOK, ClientsOK, At, Registered, Linked
<1>3. \A d : Holders(d) = {}
  BY DEF DeviceInit, Holders
<1>4. CountsOK
  BY <1>3, FS_EmptySet DEF DeviceInit, CountsOK
<1>5. FlagsOK
  BY <1>3 DEF DeviceInit, FlagsOK, FlagsRight, At
<1> QED BY <1>1, <1>2, <1>4, <1>5 DEF DeviceInv

-----------------------------------------------------------------------------
\* The name is free.
LEMMA RegisterFindInv ==
  ASSUME TakeTurns, DeviceInv, NEW c \in Clients, NEW d \in Devs, RegisterFind(c, d)
  PROVE  DeviceInv'
<1>0. /\ DeviceTypes /\ TurnsOK /\ ListOK /\ ClientsOK /\ CountsOK /\ FlagsOK
      /\ RegisterFind(c, d)
      /\ \A e : Registered(e) => e \in Devs
      /\ \A x \in Clients : x # c => dpc[x] = "idle"
      /\ dpc \in [Clients -> Places] /\ dev \in [Clients -> Devs \cup {nodev}]
      /\ flag \in [Devs -> SUBSET {"STANDALONE", "ACTIVATED"}]
      /\ open_flag \in [Devs -> SUBSET {"OPEN"}]
      /\ ref_count \in [Devs -> Nat] /\ tmp \in [Clients -> Nat]
      /\ opened \in SUBSET Clients /\ unclosed \in SUBSET Devs
  BY RegisteredDevs DEF DeviceInv, DeviceTypes, TurnsOK, At, RegisterFind, Begin, Turn, Goto
<1>1. DeviceTypes'
  BY <1>0 DEF DeviceTypes, Places, RegisterFind, Begin, Turn, At, Goto
<1>2. TurnsOK'
  BY <1>0 DEF TurnsOK, At, RegisterFind, Begin, Turn, Goto
<1>3. ListOK'
  BY <1>0 DEF ListOK, At, Registered, RegisterFind, Begin, Turn, Goto
<1>4. ClientsOK'
  <2>1. opened = {}
    <3>1. \A e : ~Registered(e)
      BY <1>0 DEF RegisterFind, Registered, Linked
    <3> QED BY <1>0, <3>1 DEF ListOK
  <2> QED BY <1>0, <2>1 DEF ClientsOK, At, RegisterFind, Goto
<1>5. \A e \in Devs : Holders(e)' = Holders(e)
  BY <1>0 DEF ClientsOK, Holders, At, RegisterFind, Begin, Turn, Goto
<1>6. CountsOK'
  BY <1>0, <1>5 DEF CountsOK, At, RegisterFind, Begin, Turn, Goto
<1>7. FlagsOK'
  <2>1. \A e \in Devs : FlagsRight(e, Holders(e), flag[e], open_flag[e], unclosed,
                                    IF dev[c] = e THEN dpc[c] ELSE "idle")
    BY <1>0 DEF FlagsOK, Alone, At
  <2>2. \A x \in Clients : x # c => dpc'[x] = "idle"
    BY <1>0 DEF At, RegisterFind, Begin, Turn, Goto
  <2>3. ASSUME NEW e \in Devs
        PROVE  FlagsRight(e, Holders(e)', flag'[e], open_flag'[e], unclosed',
                          IF dev'[c] = e THEN dpc'[c] ELSE "idle")
    <3>1. FlagsRight(e, Holders(e), flag[e], open_flag[e], unclosed,
                     IF dev[c] = e THEN dpc[c] ELSE "idle")
      BY <2>1
    <3>2. CASE e # dev[c]
      BY <1>0, <1>5, <3>1, <3>2 DEF FlagsRight, RegisterFind, Begin, Turn, At, Goto
    <3>3. CASE e = dev[c]
      BY <1>0, <1>5, <3>1, <3>3 DEF FlagsRight, At, CountsOK, ClientsOK, RegisterFind, Begin, Turn, Goto
    <3> QED BY <3>2, <3>3
  <2> QED BY <2>2, <2>3, Zenon DEF FlagsOK, Alone, At
<1> QED BY <1>1, <1>2, <1>3, <1>4, <1>6, <1>7 DEF DeviceInv

-----------------------------------------------------------------------------
\* The device becomes visible.
LEMMA RegisterInitInv ==
  ASSUME TakeTurns, DeviceInv, NEW c \in Clients, RegisterInit(c)
  PROVE  DeviceInv'
<1>0. /\ DeviceTypes /\ TurnsOK /\ ListOK /\ ClientsOK /\ CountsOK /\ FlagsOK
      /\ RegisterInit(c)
      /\ \A e : Registered(e) => e \in Devs
      /\ \A x \in Clients : x # c => dpc[x] = "idle"
      /\ dpc \in [Clients -> Places] /\ dev \in [Clients -> Devs \cup {nodev}]
      /\ flag \in [Devs -> SUBSET {"STANDALONE", "ACTIVATED"}]
      /\ open_flag \in [Devs -> SUBSET {"OPEN"}]
      /\ ref_count \in [Devs -> Nat] /\ tmp \in [Clients -> Nat]
      /\ opened \in SUBSET Clients /\ unclosed \in SUBSET Devs
  BY RegisteredDevs DEF DeviceInv, DeviceTypes, TurnsOK, At, RegisterInit, Goto
<1>d. dev[c] \in Devs
  BY <1>0 DEF ListOK, At, RegisterInit, Goto
<1>a. /\ devices' \in Seq(Devs) /\ Distinct(devices')
      /\ \A e : Linked(devices', e) <=> e = dev[c]
  <2>1. devices' = <<dev[c]>>
    <3>1. devices' = <<dev[c]>> \o <<>>
      BY <1>0 DEF ListOK, RegisterInit, rt_list_insert_after, At
    <3>2. <<dev[c]>> \in Seq(Devs)
      BY <1>d
    <3> QED BY <3>1, <3>2, ConcatEmptySeq, Zenon
  <2> QED BY <1>d, <2>1 DEF Distinct, Linked
<1>1. DeviceTypes'
  BY <1>0, <1>a DEF DeviceTypes, Places, RegisterInit, At, Goto
<1>2. TurnsOK'
  BY <1>0 DEF TurnsOK, At, RegisterInit, Goto
<1>3. ListOK'
  BY <1>0, <1>a DEF ListOK, ClientsOK, Registered, At, RegisterInit, Goto
<1>4. ClientsOK'
  BY <1>0 DEF ClientsOK, At, RegisterInit, Goto
<1>5. \A e \in Devs : Holders(e)' = Holders(e)
  BY <1>0 DEF ClientsOK, Holders, At, RegisterInit, Goto
<1>6. CountsOK'
  BY <1>0, <1>5 DEF CountsOK, At, RegisterInit, Goto
<1>7. FlagsOK'
  <2>1. \A e \in Devs : FlagsRight(e, Holders(e), flag[e], open_flag[e], unclosed,
                                    IF dev[c] = e THEN dpc[c] ELSE "idle")
    BY <1>0 DEF FlagsOK, Alone, At
  <2>2. \A x \in Clients : x # c => dpc'[x] = "idle"
    BY <1>0 DEF At, RegisterInit, Goto
  <2>3. ASSUME NEW e \in Devs
        PROVE  FlagsRight(e, Holders(e)', flag'[e], open_flag'[e], unclosed',
                          IF dev'[c] = e THEN dpc'[c] ELSE "idle")
    <3>1. FlagsRight(e, Holders(e), flag[e], open_flag[e], unclosed,
                     IF dev[c] = e THEN dpc[c] ELSE "idle")
      BY <2>1
    <3>2. CASE e # dev[c]
      BY <1>0, <1>5, <3>1, <3>2 DEF FlagsRight, RegisterInit, At, Goto
    <3>3. CASE e = dev[c]
      BY <1>0, <1>5, <3>1, <3>3 DEF FlagsRight, At, CountsOK, ClientsOK, RegisterInit, Goto
    <3> QED BY <3>2, <3>3
  <2> QED BY <2>2, <2>3, Zenon DEF FlagsOK, Alone, At
<1> QED BY <1>1, <1>2, <1>3, <1>4, <1>6, <1>7 DEF DeviceInv

-----------------------------------------------------------------------------
\* Its fields are set before anybody can open it.
LEMMA RegisterFieldsInv ==
  ASSUME TakeTurns, DeviceInv, NEW c \in Clients, RegisterFields(c)
  PROVE  DeviceInv'
<1>0. /\ DeviceTypes /\ TurnsOK /\ ListOK /\ ClientsOK /\ CountsOK /\ FlagsOK
      /\ RegisterFields(c)
      /\ \A e : Registered(e) => e \in Devs
      /\ \A x \in Clients : x # c => dpc[x] = "idle"
      /\ dpc \in [Clients -> Places] /\ dev \in [Clients -> Devs \cup {nodev}]
      /\ flag \in [Devs -> SUBSET {"STANDALONE", "ACTIVATED"}]
      /\ open_flag \in [Devs -> SUBSET {"OPEN"}]
      /\ ref_count \in [Devs -> Nat] /\ tmp \in [Clients -> Nat]
      /\ opened \in SUBSET Clients /\ unclosed \in SUBSET Devs
  BY RegisteredDevs DEF DeviceInv, DeviceTypes, TurnsOK, At, RegisterFields, Goto
<1>d. dev[c] \in Devs
  BY <1>0 DEF ListOK, At, RegisterFields, Goto
<1>1. DeviceTypes'
  <2>1. /\ flag' \in [Devs -> SUBSET {"STANDALONE", "ACTIVATED"}]
        /\ open_flag' \in [Devs -> SUBSET {"OPEN"}] /\ ref_count' \in [Devs -> Nat]
    <3> DEFINE f == IF dev[c] \in Standalone THEN {"STANDALONE"} ELSE {}
    <3>1. f \in SUBSET {"STANDALONE", "ACTIVATED"}
      OBVIOUS
    <3>2. flag' = [flag EXCEPT ![dev[c]] = f]
      BY <1>0 DEF RegisterFields
    <3> HIDE DEF f
    <3>3. flag' \in [Devs -> SUBSET {"STANDALONE", "ACTIVATED"}]
      BY <1>0, <1>d, <3>1, <3>2
    <3> QED BY <1>0, <3>3 DEF RegisterFields
  <2>2. dpc' \in [Clients -> Places] /\ unclosed' \in SUBSET Devs
    BY <1>0 DEF RegisterFields, Goto, Places
  <2> QED BY <1>0, <2>1, <2>2 DEF DeviceTypes, RegisterFields
<1>2. TurnsOK'
  BY <1>0 DEF TurnsOK, At, RegisterFields, Goto
<1>3. ListOK'
  BY <1>0 DEF ListOK, At, Registered, RegisterFields, Goto
<1>4. ClientsOK'
  BY <1>0 DEF ClientsOK, At, RegisterFields, Goto
<1>5. \A e \in Devs : Holders(e)' = Holders(e)
  BY <1>0 DEF ClientsOK, Holders, At, RegisterFields, Goto
<1>b. \A e : Holders(e) = {} /\ Holders(e)' = {}
  BY <1>0 DEF RegisterFields, ClientsOK, At, Holders
<1>6. CountsOK'
  <2>1. \A e \in Devs : ref_count'[e] = IF e = dev[c] THEN 0 ELSE ref_count[e]
    BY <1>0, <1>d DEF RegisterFields
  <2>2. \A e \in Devs : ref_count'[e] = 0
    BY <1>0, <1>b, <2>1, FS_EmptySet DEF CountsOK
  <2>3. \A e \in Devs : Cardinality(Holders(e)') = 0
    BY <1>b, FS_EmptySet
  <2>4. IsFiniteSet(opened')
    BY <1>0 DEF CountsOK, RegisterFields
  <2>5. \A x \in Clients : dpc'[x] = "idle"
    BY <1>0 DEF RegisterFields, Goto
  <2> QED BY <2>2, <2>3, <2>4, <2>5 DEF CountsOK
<1>7. FlagsOK'
  <2>1. \A e \in Devs : FlagsRight(e, Holders(e), flag[e], open_flag[e], unclosed,
                                    IF dev[c] = e THEN dpc[c] ELSE "idle")
    BY <1>0 DEF FlagsOK, Alone, At
  <2>2. \A x \in Clients : x # c => dpc'[x] = "idle"
    BY <1>0 DEF At, RegisterFields, Goto
  <2>3. ASSUME NEW e \in Devs
        PROVE  FlagsRight(e, Holders(e)', flag'[e], open_flag'[e], unclosed',
                          IF dev'[c] = e THEN dpc'[c] ELSE "idle")
    <3>1. FlagsRight(e, Holders(e), flag[e], open_flag[e], unclosed,
                     IF dev[c] = e THEN dpc[c] ELSE "idle")
      BY <2>1
    <3>2. CASE e # dev[c]
      BY <1>0, <1>5, <3>1, <3>2 DEF FlagsRight, RegisterFields, At, Goto
    <3>3. CASE e = dev[c]
      <4>1. Holders(e)' = {} /\ open_flag'[e] = {} /\ flag'[e] \subseteq {"STANDALONE"}
        BY <1>0, <1>d, <1>b, <3>3 DEF RegisterFields
      <4>2. dpc'[c] = "idle"
        BY <1>0 DEF RegisterFields, Goto
      <4> QED BY <4>1, <4>2 DEF FlagsRight
    <3> QED BY <3>2, <3>3
  <2> QED BY <2>2, <2>3, Zenon DEF FlagsOK, Alone, At
<1> QED BY <1>1, <1>2, <1>3, <1>4, <1>6, <1>7 DEF DeviceInv

-----------------------------------------------------------------------------
\* Nobody has it open.
LEMMA UnregisterInv ==
  ASSUME TakeTurns, DeviceInv, NEW c \in Clients, NEW d \in Devs, Unregister(c, d)
  PROVE  DeviceInv'
<1>0. /\ DeviceTypes /\ TurnsOK /\ ListOK /\ ClientsOK /\ CountsOK /\ FlagsOK
      /\ Unregister(c, d)
      /\ \A e : Registered(e) => e \in Devs
      /\ \A x \in Clients : x # c => dpc[x] = "idle"
      /\ dpc \in [Clients -> Places] /\ dev \in [Clients -> Devs \cup {nodev}]
      /\ flag \in [Devs -> SUBSET {"STANDALONE", "ACTIVATED"}]
      /\ open_flag \in [Devs -> SUBSET {"OPEN"}]
      /\ ref_count \in [Devs -> Nat] /\ tmp \in [Clients -> Nat]
      /\ opened \in SUBSET Clients /\ unclosed \in SUBSET Devs
  BY RegisteredDevs DEF DeviceInv, DeviceTypes, TurnsOK, At, Unregister, Begin, Turn, Goto
<1>a. /\ devices' \in Seq(Devs) /\ Distinct(devices')
      /\ \A e : Linked(devices', e) <=> Linked(devices, e) /\ e # d
  BY <1>0, ListRemove DEF DeviceTypes, Unregister
<1>1. DeviceTypes'
  BY <1>0, <1>a DEF DeviceTypes, Unregister
<1>2. TurnsOK'
  BY <1>0 DEF TurnsOK, At, Unregister, Begin, Turn, Goto
<1>3. ListOK'
  BY <1>0, <1>a DEF ListOK, Registered, Unregister, Begin, Turn, At, Goto
<1>4. ClientsOK'
  BY <1>0 DEF ClientsOK, At, Unregister, Begin, Turn, Goto
<1>5. \A e \in Devs : Holders(e)' = Holders(e)
  BY <1>0 DEF ClientsOK, Holders, At, Unregister, Begin, Turn, Goto
<1>6. CountsOK'
  BY <1>0, <1>5 DEF CountsOK, At, Unregister, Begin, Turn, Goto
<1>7. FlagsOK'
  <2>1. \A e \in Devs : FlagsRight(e, Holders(e), flag[e], open_flag[e], unclosed,
                                    IF dev[c] = e THEN dpc[c] ELSE "idle")
    BY <1>0 DEF FlagsOK, Alone, At
  <2>2. \A x \in Clients : x # c => dpc'[x] = "idle"
    BY <1>0 DEF At, Unregister, Begin, Turn, Goto
  <2>3. ASSUME NEW e \in Devs
        PROVE  FlagsRight(e, Holders(e)', flag'[e], open_flag'[e], unclosed',
                          IF dev'[c] = e THEN dpc'[c] ELSE "idle")
    <3>1. FlagsRight(e, Holders(e), flag[e], open_flag[e], unclosed,
                     IF dev[c] = e THEN dpc[c] ELSE "idle")
      BY <2>1
    <3>2. CASE e # dev[c]
      BY <1>0, <1>5, <3>1, <3>2 DEF FlagsRight, Unregister, Begin, Turn, At, Goto
    <3>3. CASE e = dev[c]
      BY <1>0, <1>5, <3>1, <3>3 DEF FlagsRight, At, CountsOK, ClientsOK, Unregister, Begin, Turn, Goto
    <3> QED BY <3>2, <3>3
  <2> QED BY <2>2, <2>3, Zenon DEF FlagsOK, Alone, At
<1> QED BY <1>1, <1>2, <1>3, <1>4, <1>6, <1>7 DEF DeviceInv

-----------------------------------------------------------------------------
\* The driver's init function, unless the device is active.
LEMMA OpenInitInv ==
  ASSUME TakeTurns, DeviceInv, NEW c \in Clients, OpenInit(c)
  PROVE  DeviceInv'
<1>0. /\ DeviceTypes /\ TurnsOK /\ ListOK /\ ClientsOK /\ CountsOK /\ FlagsOK
      /\ OpenInit(c)
      /\ \A e : Registered(e) => e \in Devs
      /\ \A x \in Clients : x # c => dpc[x] = "idle"
      /\ dpc \in [Clients -> Places] /\ dev \in [Clients -> Devs \cup {nodev}]
      /\ flag \in [Devs -> SUBSET {"STANDALONE", "ACTIVATED"}]
      /\ open_flag \in [Devs -> SUBSET {"OPEN"}]
      /\ ref_count \in [Devs -> Nat] /\ tmp \in [Clients -> Nat]
      /\ opened \in SUBSET Clients /\ unclosed \in SUBSET Devs
  BY RegisteredDevs DEF DeviceInv, DeviceTypes, TurnsOK, At, OpenInit, Driver, Begin, Turn, Goto
<1>1. DeviceTypes'
  BY <1>0 DEF DeviceTypes, Places, OpenInit, Driver, Begin, Turn, At, Goto
<1>2. TurnsOK'
  BY <1>0 DEF TurnsOK, At, OpenInit, Driver, Begin, Turn, Goto
<1>3. ListOK'
  BY <1>0 DEF ListOK, At, Registered, OpenInit, Driver, Begin, Turn, Goto
<1>4. ClientsOK'
  BY <1>0 DEF ClientsOK, At, OpenInit, Driver, Begin, Turn, Goto
<1>5. \A e \in Devs : Holders(e)' = Holders(e)
  BY <1>0 DEF ClientsOK, Holders, At, OpenInit, Driver, Begin, Turn, Goto
<1>6. CountsOK'
  BY <1>0, <1>5 DEF CountsOK, At, OpenInit, Driver, Begin, Turn, Goto
<1>7. FlagsOK'
  <2>1. \A e \in Devs : FlagsRight(e, Holders(e), flag[e], open_flag[e], unclosed,
                                    IF dev[c] = e THEN dpc[c] ELSE "idle")
    BY <1>0 DEF FlagsOK, Alone, At
  <2>2. \A x \in Clients : x # c => dpc'[x] = "idle"
    BY <1>0 DEF At, OpenInit, Driver, Begin, Turn, Goto
  <2>3. ASSUME NEW e \in Devs
        PROVE  FlagsRight(e, Holders(e)', flag'[e], open_flag'[e], unclosed',
                          IF dev'[c] = e THEN dpc'[c] ELSE "idle")
    <3>1. FlagsRight(e, Holders(e), flag[e], open_flag[e], unclosed,
                     IF dev[c] = e THEN dpc[c] ELSE "idle")
      BY <2>1
    <3>2. CASE e # dev[c]
      BY <1>0, <1>5, <3>1, <3>2 DEF FlagsRight, OpenInit, Driver, Begin, Turn, At, Goto
    <3>3. CASE e = dev[c]
      BY <1>0, <1>5, <3>1, <3>3 DEF FlagsRight, At, CountsOK, ClientsOK, OpenInit, Driver, Begin, Turn, Goto
    <3> QED BY <3>2, <3>3
  <2> QED BY <2>2, <2>3, Zenon DEF FlagsOK, Alone, At
<1> QED BY <1>1, <1>2, <1>3, <1>4, <1>6, <1>7 DEF DeviceInv

-----------------------------------------------------------------------------
\* The device is active.
LEMMA OpenActivateInv ==
  ASSUME TakeTurns, DeviceInv, NEW c \in Clients, OpenActivate(c)
  PROVE  DeviceInv'
<1>0. /\ DeviceTypes /\ TurnsOK /\ ListOK /\ ClientsOK /\ CountsOK /\ FlagsOK
      /\ OpenActivate(c)
      /\ \A e : Registered(e) => e \in Devs
      /\ \A x \in Clients : x # c => dpc[x] = "idle"
      /\ dpc \in [Clients -> Places] /\ dev \in [Clients -> Devs \cup {nodev}]
      /\ flag \in [Devs -> SUBSET {"STANDALONE", "ACTIVATED"}]
      /\ open_flag \in [Devs -> SUBSET {"OPEN"}]
      /\ ref_count \in [Devs -> Nat] /\ tmp \in [Clients -> Nat]
      /\ opened \in SUBSET Clients /\ unclosed \in SUBSET Devs
  BY RegisteredDevs DEF DeviceInv, DeviceTypes, TurnsOK, At, OpenActivate, Driver, Goto
<1>d. dev[c] \in Devs
  BY <1>0 DEF ListOK, At, OpenActivate, Driver, Goto
<1>1. DeviceTypes'
  <2>1. flag[dev[c]] \cup {"ACTIVATED"} \in SUBSET {"STANDALONE", "ACTIVATED"}
    BY <1>0, <1>d
  <2>2. flag' \in [Devs -> SUBSET {"STANDALONE", "ACTIVATED"}]
    BY <1>0, <1>d, <2>1 DEF OpenActivate
  <2> QED BY <1>0, <2>2 DEF DeviceTypes, Places, OpenActivate, Driver, Goto
<1>2. TurnsOK'
  BY <1>0 DEF TurnsOK, At, OpenActivate, Driver, Goto
<1>3. ListOK'
  BY <1>0 DEF ListOK, At, Registered, OpenActivate, Driver, Goto
<1>4. ClientsOK'
  BY <1>0 DEF ClientsOK, At, OpenActivate, Driver, Goto
<1>5. \A e \in Devs : Holders(e)' = Holders(e)
  BY <1>0 DEF ClientsOK, Holders, At, OpenActivate, Driver, Goto
<1>6. CountsOK'
  BY <1>0, <1>5 DEF CountsOK, At, OpenActivate, Driver, Goto
<1>7. FlagsOK'
  <2>1. \A e \in Devs : FlagsRight(e, Holders(e), flag[e], open_flag[e], unclosed,
                                    IF dev[c] = e THEN dpc[c] ELSE "idle")
    BY <1>0 DEF FlagsOK, Alone, At
  <2>2. \A x \in Clients : x # c => dpc'[x] = "idle"
    BY <1>0 DEF At, OpenActivate, Driver, Goto
  <2>3. ASSUME NEW e \in Devs
        PROVE  FlagsRight(e, Holders(e)', flag'[e], open_flag'[e], unclosed',
                          IF dev'[c] = e THEN dpc'[c] ELSE "idle")
    <3>1. FlagsRight(e, Holders(e), flag[e], open_flag[e], unclosed,
                     IF dev[c] = e THEN dpc[c] ELSE "idle")
      BY <2>1
    <3>2. CASE e # dev[c]
      BY <1>0, <1>5, <3>1, <3>2 DEF FlagsRight, OpenActivate, Driver, At, Goto
    <3>3. CASE e = dev[c]
      BY <1>0, <1>5, <3>1, <3>3 DEF FlagsRight, At, CountsOK, ClientsOK, OpenActivate, Driver, Goto
    <3> QED BY <3>2, <3>3
  <2> QED BY <2>2, <2>3, Zenon DEF FlagsOK, Alone, At
<1> QED BY <1>1, <1>2, <1>3, <1>4, <1>6, <1>7 DEF DeviceInv

-----------------------------------------------------------------------------
\* A stand-alone device that passes has no client.
LEMMA OpenCheckInv ==
  ASSUME TakeTurns, DeviceInv, NEW c \in Clients, OpenCheck(c)
  PROVE  DeviceInv'
<1>0. /\ DeviceTypes /\ TurnsOK /\ ListOK /\ ClientsOK /\ CountsOK /\ FlagsOK
      /\ OpenCheck(c)
      /\ \A e : Registered(e) => e \in Devs
      /\ \A x \in Clients : x # c => dpc[x] = "idle"
      /\ dpc \in [Clients -> Places] /\ dev \in [Clients -> Devs \cup {nodev}]
      /\ flag \in [Devs -> SUBSET {"STANDALONE", "ACTIVATED"}]
      /\ open_flag \in [Devs -> SUBSET {"OPEN"}]
      /\ ref_count \in [Devs -> Nat] /\ tmp \in [Clients -> Nat]
      /\ opened \in SUBSET Clients /\ unclosed \in SUBSET Devs
  BY RegisteredDevs DEF DeviceInv, DeviceTypes, TurnsOK, At, OpenCheck, Driver, Goto
<1>d. dev[c] \in Devs
  BY <1>0 DEF ListOK, At, OpenCheck, Driver, Goto
<1>1. DeviceTypes'
  BY <1>0 DEF DeviceTypes, Places, OpenCheck, Driver, At, Goto
<1>2. TurnsOK'
  BY <1>0 DEF TurnsOK, At, OpenCheck, Driver, Goto
<1>3. ListOK'
  BY <1>0 DEF ListOK, At, Registered, OpenCheck, Driver, Goto
<1>4. ClientsOK'
  BY <1>0 DEF ClientsOK, At, OpenCheck, Driver, Goto
<1>5. \A e \in Devs : Holders(e)' = Holders(e)
  BY <1>0 DEF ClientsOK, Holders, At, OpenCheck, Driver, Goto
<1>6. CountsOK'
  BY <1>0, <1>5 DEF CountsOK, At, OpenCheck, Driver, Goto
<1>7. FlagsOK'
  <2>1. \A e \in Devs : FlagsRight(e, Holders(e), flag[e], open_flag[e], unclosed,
                                    IF dev[c] = e THEN dpc[c] ELSE "idle")
    BY <1>0 DEF FlagsOK, Alone, At
  <2>2. \A x \in Clients : x # c => dpc'[x] = "idle"
    BY <1>0 DEF At, OpenCheck, Driver, Goto
  <2>3. ASSUME NEW e \in Devs
        PROVE  FlagsRight(e, Holders(e)', flag'[e], open_flag'[e], unclosed',
                          IF dev'[c] = e THEN dpc'[c] ELSE "idle")
    <3>1. FlagsRight(e, Holders(e), flag[e], open_flag[e], unclosed,
                     IF dev[c] = e THEN dpc[c] ELSE "idle")
      BY <2>1
    <3>2. CASE e # dev[c]
      BY <1>0, <1>5, <3>1, <3>2 DEF FlagsRight, OpenCheck, Driver, At, Goto
    <3>3. CASE e = dev[c]
      BY <1>0, <1>5, <3>1, <3>3 DEF FlagsRight, At, CountsOK, ClientsOK, OpenCheck, Driver, Goto
    <3> QED BY <3>2, <3>3
  <2> QED BY <2>2, <2>3, Zenon DEF FlagsOK, Alone, At
<1> QED BY <1>1, <1>2, <1>3, <1>4, <1>6, <1>7 DEF DeviceInv

-----------------------------------------------------------------------------
\* The driver's open function.
LEMMA OpenDeviceInv ==
  ASSUME TakeTurns, DeviceInv, NEW c \in Clients, OpenDevice(c)
  PROVE  DeviceInv'
<1>0. /\ DeviceTypes /\ TurnsOK /\ ListOK /\ ClientsOK /\ CountsOK /\ FlagsOK
      /\ OpenDevice(c)
      /\ \A e : Registered(e) => e \in Devs
      /\ \A x \in Clients : x # c => dpc[x] = "idle"
      /\ dpc \in [Clients -> Places] /\ dev \in [Clients -> Devs \cup {nodev}]
      /\ flag \in [Devs -> SUBSET {"STANDALONE", "ACTIVATED"}]
      /\ open_flag \in [Devs -> SUBSET {"OPEN"}]
      /\ ref_count \in [Devs -> Nat] /\ tmp \in [Clients -> Nat]
      /\ opened \in SUBSET Clients /\ unclosed \in SUBSET Devs
  BY RegisteredDevs DEF DeviceInv, DeviceTypes, TurnsOK, At, OpenDevice, Driver, Goto
<1>d. dev[c] \in Devs
  BY <1>0 DEF ListOK, At, OpenDevice, Driver, Goto
<1>1. DeviceTypes'
  BY <1>0 DEF DeviceTypes, Places, OpenDevice, Driver, At, Goto
<1>2. TurnsOK'
  BY <1>0 DEF TurnsOK, At, OpenDevice, Driver, Goto
<1>3. ListOK'
  <2>1. devices' = devices /\ dev' = dev /\ opened' = opened /\ Registered(dev[c])
    BY <1>0 DEF ListOK, OpenDevice, Driver, At
  <2>2. dpc'[c] \in {"idle", "opened"} /\ \A x \in Clients : x # c => dpc'[x] = "idle"
    BY <1>0 DEF OpenDevice, At, Goto
  <2> QED BY <1>0, <2>1, <2>2 DEF ListOK, Registered, At
<1>4. ClientsOK'
  BY <1>0 DEF ClientsOK, At, OpenDevice, Driver, Goto
<1>5. \A e \in Devs : Holders(e)' = Holders(e)
  BY <1>0 DEF ClientsOK, Holders, At, OpenDevice, Driver, Goto
<1>6. CountsOK'
  BY <1>0, <1>5 DEF CountsOK, At, OpenDevice, Driver, Goto
<1>7. FlagsOK'
  <2>1. \A e \in Devs : FlagsRight(e, Holders(e), flag[e], open_flag[e], unclosed,
                                    IF dev[c] = e THEN dpc[c] ELSE "idle")
    BY <1>0 DEF FlagsOK, Alone, At
  <2>2. \A x \in Clients : x # c => dpc'[x] = "idle"
    BY <1>0 DEF At, OpenDevice, Driver, Goto
  <2>3. ASSUME NEW e \in Devs
        PROVE  FlagsRight(e, Holders(e)', flag'[e], open_flag'[e], unclosed',
                          IF dev'[c] = e THEN dpc'[c] ELSE "idle")
    <3>1. FlagsRight(e, Holders(e), flag[e], open_flag[e], unclosed,
                     IF dev[c] = e THEN dpc[c] ELSE "idle")
      BY <2>1
    <3>2. CASE e # dev[c]
      BY <1>0, <1>5, <3>1, <3>2 DEF FlagsRight, OpenDevice, Driver, At, Goto
    <3>3. CASE e = dev[c]
      BY <1>0, <1>5, <3>1, <3>3 DEF FlagsRight, At, CountsOK, ClientsOK, OpenDevice, Driver, Goto
    <3> QED BY <3>2, <3>3
  <2> QED BY <2>2, <2>3, Zenon DEF FlagsOK, Alone, At
<1> QED BY <1>1, <1>2, <1>3, <1>4, <1>6, <1>7 DEF DeviceInv

-----------------------------------------------------------------------------
\* The device is marked open.
LEMMA OpenFlagInv ==
  ASSUME TakeTurns, DeviceInv, NEW c \in Clients, OpenFlag(c)
  PROVE  DeviceInv'
<1>0. /\ DeviceTypes /\ TurnsOK /\ ListOK /\ ClientsOK /\ CountsOK /\ FlagsOK
      /\ OpenFlag(c)
      /\ \A e : Registered(e) => e \in Devs
      /\ \A x \in Clients : x # c => dpc[x] = "idle"
      /\ dpc \in [Clients -> Places] /\ dev \in [Clients -> Devs \cup {nodev}]
      /\ flag \in [Devs -> SUBSET {"STANDALONE", "ACTIVATED"}]
      /\ open_flag \in [Devs -> SUBSET {"OPEN"}]
      /\ ref_count \in [Devs -> Nat] /\ tmp \in [Clients -> Nat]
      /\ opened \in SUBSET Clients /\ unclosed \in SUBSET Devs
  BY RegisteredDevs DEF DeviceInv, DeviceTypes, TurnsOK, At, OpenFlag, Goto
<1>d. dev[c] \in Devs
  BY <1>0 DEF ListOK, At, OpenFlag, Goto
<1>1. DeviceTypes'
  <2>1. open_flag[dev[c]] \cup {"OPEN"} \in SUBSET {"OPEN"} /\ ref_count[dev[c]] \in Nat
    BY <1>0, <1>d
  <2>2. open_flag' \in [Devs -> SUBSET {"OPEN"}] /\ tmp' \in [Clients -> Nat]
    BY <1>0, <1>d, <2>1 DEF OpenFlag
  <2> QED BY <1>0, <2>2 DEF DeviceTypes, Places, OpenFlag, Goto
<1>2. TurnsOK'
  BY <1>0 DEF TurnsOK, At, OpenFlag, Goto
<1>3. ListOK'
  BY <1>0 DEF ListOK, At, Registered, OpenFlag, Goto
<1>4. ClientsOK'
  BY <1>0 DEF ClientsOK, At, OpenFlag, Goto
<1>5. \A e \in Devs : Holders(e)' = Holders(e)
  BY <1>0 DEF ClientsOK, Holders, At, OpenFlag, Goto
<1>6. CountsOK'
  BY <1>0, <1>5 DEF CountsOK, At, OpenFlag, Goto
<1>7. FlagsOK'
  <2>1. \A e \in Devs : FlagsRight(e, Holders(e), flag[e], open_flag[e], unclosed,
                                    IF dev[c] = e THEN dpc[c] ELSE "idle")
    BY <1>0 DEF FlagsOK, Alone, At
  <2>2. \A x \in Clients : x # c => dpc'[x] = "idle"
    BY <1>0 DEF At, OpenFlag, Goto
  <2>3. ASSUME NEW e \in Devs
        PROVE  FlagsRight(e, Holders(e)', flag'[e], open_flag'[e], unclosed',
                          IF dev'[c] = e THEN dpc'[c] ELSE "idle")
    <3>1. FlagsRight(e, Holders(e), flag[e], open_flag[e], unclosed,
                     IF dev[c] = e THEN dpc[c] ELSE "idle")
      BY <2>1
    <3>2. CASE e # dev[c]
      BY <1>0, <1>5, <3>1, <3>2 DEF FlagsRight, OpenFlag, At, Goto
    <3>3. CASE e = dev[c]
      BY <1>0, <1>5, <3>1, <3>3 DEF FlagsRight, At, CountsOK, ClientsOK, OpenFlag, Goto
    <3> QED BY <3>2, <3>3
  <2> QED BY <2>2, <2>3, Zenon DEF FlagsOK, Alone, At
<1> QED BY <1>1, <1>2, <1>3, <1>4, <1>6, <1>7 DEF DeviceInv

-----------------------------------------------------------------------------
\* The count, one more than it was loaded.
LEMMA OpenCountInv ==
  ASSUME TakeTurns, DeviceInv, NEW c \in Clients, OpenCount(c)
  PROVE  DeviceInv'
<1>0. /\ DeviceTypes /\ TurnsOK /\ ListOK /\ ClientsOK /\ CountsOK /\ FlagsOK
      /\ OpenCount(c)
      /\ \A e : Registered(e) => e \in Devs
      /\ \A x \in Clients : x # c => dpc[x] = "idle"
      /\ dpc \in [Clients -> Places] /\ dev \in [Clients -> Devs \cup {nodev}]
      /\ flag \in [Devs -> SUBSET {"STANDALONE", "ACTIVATED"}]
      /\ open_flag \in [Devs -> SUBSET {"OPEN"}]
      /\ ref_count \in [Devs -> Nat] /\ tmp \in [Clients -> Nat]
      /\ opened \in SUBSET Clients /\ unclosed \in SUBSET Devs
  BY RegisteredDevs DEF DeviceInv, DeviceTypes, TurnsOK, At, OpenCount, Goto
<1>d. dev[c] \in Devs
  BY <1>0 DEF ListOK, At, OpenCount, Goto
<1>1. DeviceTypes'
  <2>1. tmp[c] + 1 \in Nat
    BY <1>0
  <2>2. ref_count' \in [Devs -> Nat]
    BY <1>0, <1>d, <2>1 DEF OpenCount
  <2>3. opened' \in SUBSET Clients /\ unclosed' \in SUBSET Devs
    BY <1>0 DEF OpenCount
  <2> QED BY <1>0, <2>2, <2>3 DEF DeviceTypes, Places, OpenCount, Goto
<1>2. TurnsOK'
  BY <1>0 DEF TurnsOK, At, OpenCount, Goto
<1>3. ListOK'
  BY <1>0 DEF ListOK, At, Registered, OpenCount, Goto
<1>4. ClientsOK'
  BY <1>0 DEF ClientsOK, At, OpenCount, Goto
<1>5. /\ Holders(dev[c])' = Holders(dev[c]) \cup {c}
      /\ \A e \in Devs : e # dev[c] => Holders(e)' = Holders(e)
      /\ \A e \in Devs : c \notin Holders(e) /\ IsFiniteSet(Holders(e))
  <2>1. c \notin opened /\ opened' = opened \cup {c} /\ dev' = dev
    BY <1>0 DEF ClientsOK, At, OpenCount
  <2>2. \A e \in Devs : IsFiniteSet(Holders(e))
    BY <1>0, FS_Subset DEF CountsOK, Holders
  <2> QED BY <2>1, <2>2 DEF Holders
<1>6. CountsOK'
  <2>1. \A e \in Devs : Cardinality(Holders(e)') =
          IF e = dev[c] THEN Cardinality(Holders(e)) + 1 ELSE Cardinality(Holders(e))
    <3> DEFINE S == Holders(dev[c])
    <3>1. IsFiniteSet(S) /\ c \notin S /\ Holders(dev[c])' = S \cup {c}
      BY <1>d, <1>5
    <3> HIDE DEF S
    <3>2. Cardinality(S \cup {c}) = Cardinality(S) + 1
      BY <3>1, FS_AddElement
    <3>3. Cardinality(Holders(dev[c])') = Cardinality(Holders(dev[c])) + 1
      BY <3>1, <3>2 DEF S
    <3>4. dev' = dev
      BY <1>0 DEF OpenCount
    <3> QED BY <1>5, <3>3, <3>4
  <2>2. \A e \in Devs : ref_count'[e] = IF e = dev[c] THEN ref_count[e] + 1 ELSE ref_count[e]
    BY <1>0, <1>d DEF CountsOK, OpenCount, At
  <2>3. IsFiniteSet(opened')
    BY <1>0, FS_AddElement DEF CountsOK, OpenCount
  <2> QED BY <1>0, <2>1, <2>2, <2>3 DEF CountsOK, OpenCount, Goto
<1>7. FlagsOK'
  <2>1. \A e \in Devs : FlagsRight(e, Holders(e), flag[e], open_flag[e], unclosed,
                                    IF dev[c] = e THEN dpc[c] ELSE "idle")
    BY <1>0 DEF FlagsOK, Alone, At
  <2>2. \A x \in Clients : x # c => dpc'[x] = "idle"
    BY <1>0 DEF At, OpenCount, Goto
  <2>3. ASSUME NEW e \in Devs
        PROVE  FlagsRight(e, Holders(e)', flag'[e], open_flag'[e], unclosed',
                          IF dev'[c] = e THEN dpc'[c] ELSE "idle")
    <3>1. FlagsRight(e, Holders(e), flag[e], open_flag[e], unclosed,
                     IF dev[c] = e THEN dpc[c] ELSE "idle")
      BY <2>1
    <3>2. CASE e # dev[c]
      BY <1>0, <1>5, <3>1, <3>2 DEF FlagsRight, OpenCount, At, Goto
    <3>3. CASE e = dev[c]
      <4>1. /\ dpc[c] = "count" /\ dev[c] = e /\ dpc'[c] = "idle" /\ dev' = dev
            /\ flag' = flag /\ open_flag' = open_flag /\ Holders(e)' = Holders(e) \cup {c}
        BY <1>0, <1>5, <3>3 DEF OpenCount, At, Goto
      <4>2. "ACTIVATED" \in flag[e] /\ "OPEN" \in open_flag[e] /\ ("STANDALONE" \in flag[e] => Holders(e) = {})
        BY <3>1, <4>1 DEF FlagsRight
      <4> QED BY <4>1, <4>2 DEF FlagsRight
    <3> QED BY <3>2, <3>3
  <2> QED BY <2>2, <2>3, Zenon DEF FlagsOK, Alone, At
<1> QED BY <1>1, <1>2, <1>3, <1>4, <1>6, <1>7 DEF DeviceInv

-----------------------------------------------------------------------------
\* The count of a device that is open is not 0.
LEMMA CloseStartInv ==
  ASSUME TakeTurns, DeviceInv, NEW c \in Clients, CloseStart(c)
  PROVE  DeviceInv'
<1>0. /\ DeviceTypes /\ TurnsOK /\ ListOK /\ ClientsOK /\ CountsOK /\ FlagsOK
      /\ CloseStart(c)
      /\ \A e : Registered(e) => e \in Devs
      /\ \A x \in Clients : x # c => dpc[x] = "idle"
      /\ dpc \in [Clients -> Places] /\ dev \in [Clients -> Devs \cup {nodev}]
      /\ flag \in [Devs -> SUBSET {"STANDALONE", "ACTIVATED"}]
      /\ open_flag \in [Devs -> SUBSET {"OPEN"}]
      /\ ref_count \in [Devs -> Nat] /\ tmp \in [Clients -> Nat]
      /\ opened \in SUBSET Clients /\ unclosed \in SUBSET Devs
  BY RegisteredDevs DEF DeviceInv, DeviceTypes, TurnsOK, At, CloseStart, Begin, Turn, Goto
<1>a. dev[c] \in Devs /\ ref_count[dev[c]] # 0
  <2>1. c \in Holders(dev[c]) /\ dev[c] \in Devs
    BY <1>0 DEF ListOK, Holders, CloseStart
  <2>2. IsFiniteSet(Holders(dev[c]))
    BY <1>0, FS_Subset DEF CountsOK, Holders
  <2> QED BY <1>0, <2>1, <2>2, FS_EmptySet DEF CountsOK
<1>1. DeviceTypes'
  <2>1. tmp' \in [Clients -> Nat]
    BY <1>0, <1>a DEF CloseStart
  <2> QED BY <1>0, <1>a, <2>1 DEF DeviceTypes, Places, CloseStart, Goto
<1>2. TurnsOK'
  BY <1>0 DEF TurnsOK, At, CloseStart, Begin, Turn, Goto
<1>3. ListOK'
  <2>1. /\ devices' = devices /\ dev' = dev /\ opened' \subseteq opened
        /\ dpc[c] = "idle" /\ dpc' = [dpc EXCEPT ![c] = "uncount"] /\ c \in opened
    BY <1>0, <1>a DEF CloseStart, Begin, At, Goto
  <2>2. Registered(dev[c])
    BY <1>0, <2>1 DEF ListOK
  <2>3. \A x \in Clients : x # c => dpc'[x] = dpc[x]
    BY <1>0, <2>1
  <2> QED BY <1>0, <2>1, <2>2, <2>3 DEF ListOK, Registered, At
<1>4. ClientsOK'
  BY <1>0 DEF ClientsOK, At, CloseStart, Begin, Turn, Goto
<1>5. \A e \in Devs : Holders(e)' = Holders(e)
  BY <1>0, <1>a DEF Holders, CloseStart
<1>6. CountsOK'
  BY <1>0, <1>a, <1>5 DEF CountsOK, CloseStart, Begin, Turn, At, Goto
<1>7. FlagsOK'
  <2>1. \A e \in Devs : FlagsRight(e, Holders(e), flag[e], open_flag[e], unclosed,
                                    IF dev[c] = e THEN dpc[c] ELSE "idle")
    BY <1>0 DEF FlagsOK, Alone, At
  <2>2. \A x \in Clients : x # c => dpc'[x] = "idle"
    BY <1>0 DEF At, CloseStart, Begin, Turn, Goto
  <2>3. ASSUME NEW e \in Devs
        PROVE  FlagsRight(e, Holders(e)', flag'[e], open_flag'[e], unclosed',
                          IF dev'[c] = e THEN dpc'[c] ELSE "idle")
    <3>1. FlagsRight(e, Holders(e), flag[e], open_flag[e], unclosed,
                     IF dev[c] = e THEN dpc[c] ELSE "idle")
      BY <2>1
    <3>2. CASE e # dev[c]
      BY <1>0, <1>5, <3>1, <3>2 DEF FlagsRight, CloseStart, Begin, Turn, At, Goto
    <3>3. CASE e = dev[c]
      BY <1>0, <1>5, <3>1, <3>3 DEF FlagsRight, At, CountsOK, ClientsOK, CloseStart, Begin, Turn, Goto
    <3> QED BY <3>2, <3>3
  <2> QED BY <2>2, <2>3, Zenon DEF FlagsOK, Alone, At
<1> QED BY <1>1, <1>2, <1>3, <1>4, <1>6, <1>7 DEF DeviceInv

-----------------------------------------------------------------------------
\* One less.
LEMMA CloseCountInv ==
  ASSUME TakeTurns, DeviceInv, NEW c \in Clients, CloseCount(c)
  PROVE  DeviceInv'
<1>0. /\ DeviceTypes /\ TurnsOK /\ ListOK /\ ClientsOK /\ CountsOK /\ FlagsOK
      /\ CloseCount(c)
      /\ \A e : Registered(e) => e \in Devs
      /\ \A x \in Clients : x # c => dpc[x] = "idle"
      /\ dpc \in [Clients -> Places] /\ dev \in [Clients -> Devs \cup {nodev}]
      /\ flag \in [Devs -> SUBSET {"STANDALONE", "ACTIVATED"}]
      /\ open_flag \in [Devs -> SUBSET {"OPEN"}]
      /\ ref_count \in [Devs -> Nat] /\ tmp \in [Clients -> Nat]
      /\ opened \in SUBSET Clients /\ unclosed \in SUBSET Devs
  BY RegisteredDevs DEF DeviceInv, DeviceTypes, TurnsOK, At, CloseCount, Goto
<1>d. dev[c] \in Devs
  BY <1>0 DEF ListOK, At, CloseCount, Goto
<1>c. tmp[c] = ref_count[dev[c]]
  BY <1>0 DEF CountsOK, CloseCount, At
<1>1. DeviceTypes'
  <2>1. tmp[c] = Cardinality(Holders(dev[c])) /\ Holders(dev[c]) # {} /\ IsFiniteSet(Holders(dev[c]))
    <3>1. c \in Holders(dev[c])
      BY <1>0 DEF ClientsOK, Holders, CloseCount, At
    <3> QED BY <1>0, <1>d, <1>c, <3>1, FS_Subset DEF CountsOK, Holders
  <2>2. tmp[c] - 1 \in Nat
    BY <1>0, <2>1, FS_EmptySet
  <2>3. ref_count' \in [Devs -> Nat]
    BY <1>0, <1>d, <2>2 DEF CloseCount
  <2>4. opened' \in SUBSET Clients
    BY <1>0 DEF CloseCount
  <2> QED BY <1>0, <2>3, <2>4 DEF DeviceTypes, Places, CloseCount, Goto
<1>2. TurnsOK'
  BY <1>0 DEF TurnsOK, At, CloseCount, Goto
<1>3. ListOK'
  BY <1>0 DEF ListOK, At, Registered, CloseCount, Goto
<1>4. ClientsOK'
  BY <1>0 DEF ClientsOK, At, CloseCount, Goto
<1>5. /\ Holders(dev[c])' = Holders(dev[c]) \ {c} /\ c \in Holders(dev[c])
      /\ \A e \in Devs : e # dev[c] => Holders(e)' = Holders(e)
      /\ \A e \in Devs : IsFiniteSet(Holders(e))
  <2>1. c \in opened /\ opened' = opened \ {c} /\ dev' = dev
    BY <1>0 DEF ClientsOK, At, CloseCount
  <2>2. \A e \in Devs : IsFiniteSet(Holders(e))
    BY <1>0, FS_Subset DEF CountsOK, Holders
  <2> QED BY <2>1, <2>2 DEF Holders
<1>6. CountsOK'
  <2>1. \A e \in Devs : Cardinality(Holders(e)') =
          IF e = dev[c] THEN Cardinality(Holders(e)) - 1 ELSE Cardinality(Holders(e))
    <3> DEFINE S == Holders(dev[c])
    <3>1. IsFiniteSet(S) /\ c \in S /\ Holders(dev[c])' = S \ {c}
      BY <1>d, <1>5
    <3> HIDE DEF S
    <3>2. Cardinality(S \ {c}) = Cardinality(S) - 1
      BY <3>1, FS_RemoveElement
    <3>3. Cardinality(Holders(dev[c])') = Cardinality(Holders(dev[c])) - 1
      BY <3>1, <3>2 DEF S
    <3>4. dev' = dev
      BY <1>0 DEF CloseCount
    <3> QED BY <1>5, <3>3, <3>4
  <2>2. \A e \in Devs : ref_count'[e] = IF e = dev[c] THEN ref_count[e] - 1 ELSE ref_count[e]
    BY <1>0, <1>d, <1>c DEF CloseCount
  <2>3. IsFiniteSet(opened')
    BY <1>0, FS_RemoveElement DEF CountsOK, CloseCount
  <2> QED BY <1>0, <2>1, <2>2, <2>3 DEF CountsOK, CloseCount, Goto
<1>7. FlagsOK'
  <2>1. \A e \in Devs : FlagsRight(e, Holders(e), flag[e], open_flag[e], unclosed,
                                    IF dev[c] = e THEN dpc[c] ELSE "idle")
    BY <1>0 DEF FlagsOK, Alone, At
  <2>2. \A x \in Clients : x # c => dpc'[x] = "idle"
    BY <1>0 DEF At, CloseCount, Goto
  <2>3. ASSUME NEW e \in Devs
        PROVE  FlagsRight(e, Holders(e)', flag'[e], open_flag'[e], unclosed',
                          IF dev'[c] = e THEN dpc'[c] ELSE "idle")
    <3>1. FlagsRight(e, Holders(e), flag[e], open_flag[e], unclosed,
                     IF dev[c] = e THEN dpc[c] ELSE "idle")
      BY <2>1
    <3>2. CASE e # dev[c]
      BY <1>0, <1>5, <3>1, <3>2 DEF FlagsRight, CloseCount, At, Goto
    <3>3. CASE e = dev[c]
      BY <1>0, <1>5, <3>1, <3>3 DEF FlagsRight, At, CountsOK, ClientsOK, CloseCount, Goto
    <3> QED BY <3>2, <3>3
  <2> QED BY <2>2, <2>3, Zenon DEF FlagsOK, Alone, At
<1> QED BY <1>1, <1>2, <1>3, <1>4, <1>6, <1>7 DEF DeviceInv

-----------------------------------------------------------------------------
\* The last client closes the driver.
LEMMA CloseDeviceInv ==
  ASSUME TakeTurns, DeviceInv, NEW c \in Clients, CloseDevice(c)
  PROVE  DeviceInv'
<1>0. /\ DeviceTypes /\ TurnsOK /\ ListOK /\ ClientsOK /\ CountsOK /\ FlagsOK
      /\ CloseDevice(c)
      /\ \A e : Registered(e) => e \in Devs
      /\ \A x \in Clients : x # c => dpc[x] = "idle"
      /\ dpc \in [Clients -> Places] /\ dev \in [Clients -> Devs \cup {nodev}]
      /\ flag \in [Devs -> SUBSET {"STANDALONE", "ACTIVATED"}]
      /\ open_flag \in [Devs -> SUBSET {"OPEN"}]
      /\ ref_count \in [Devs -> Nat] /\ tmp \in [Clients -> Nat]
      /\ opened \in SUBSET Clients /\ unclosed \in SUBSET Devs
  BY RegisteredDevs DEF DeviceInv, DeviceTypes, TurnsOK, At, CloseDevice, Goto
<1>d. dev[c] \in Devs
  BY <1>0 DEF ListOK, At, CloseDevice, Goto
<1>e. ref_count[dev[c]] = 0 <=> Holders(dev[c]) = {}
  <2>1. IsFiniteSet(Holders(dev[c]))
    BY <1>0, FS_Subset DEF CountsOK, Holders
  <2> QED BY <1>0, <1>d, <2>1, FS_EmptySet DEF CountsOK
<1>1. DeviceTypes'
  <2>1. open_flag' \in [Devs -> SUBSET {"OPEN"}] /\ unclosed' \in SUBSET Devs
    BY <1>0, <1>d DEF CloseDevice
  <2> QED BY <1>0, <2>1 DEF DeviceTypes, Places, CloseDevice, Goto
<1>2. TurnsOK'
  BY <1>0 DEF TurnsOK, At, CloseDevice, Goto
<1>3. ListOK'
  BY <1>0 DEF ListOK, At, Registered, CloseDevice, Goto
<1>4. ClientsOK'
  BY <1>0 DEF ClientsOK, At, CloseDevice, Goto
<1>5. \A e \in Devs : Holders(e)' = Holders(e)
  BY <1>0 DEF ClientsOK, Holders, At, CloseDevice, Goto
<1>6. CountsOK'
  BY <1>0, <1>5 DEF CountsOK, At, CloseDevice, Goto
<1>7. FlagsOK'
  <2>1. \A e \in Devs : FlagsRight(e, Holders(e), flag[e], open_flag[e], unclosed,
                                    IF dev[c] = e THEN dpc[c] ELSE "idle")
    BY <1>0 DEF FlagsOK, Alone, At
  <2>2. \A x \in Clients : x # c => dpc'[x] = "idle"
    BY <1>0 DEF At, CloseDevice, Goto
  <2>3. ASSUME NEW e \in Devs
        PROVE  FlagsRight(e, Holders(e)', flag'[e], open_flag'[e], unclosed',
                          IF dev'[c] = e THEN dpc'[c] ELSE "idle")
    <3>1. FlagsRight(e, Holders(e), flag[e], open_flag[e], unclosed,
                     IF dev[c] = e THEN dpc[c] ELSE "idle")
      BY <2>1
    <3>2. CASE e # dev[c]
      BY <1>0, <1>5, <3>1, <3>2 DEF FlagsRight, CloseDevice, At, Goto
    <3>3. CASE e = dev[c]
      <4>1. /\ dpc[c] = "last" /\ dev[c] = e /\ dpc'[c] = "idle" /\ dev' = dev
            /\ flag' = flag /\ Holders(e)' = Holders(e)
        BY <1>0, <1>5, <3>3 DEF CloseDevice, At, Goto
      <4>2. CASE ref_count[e] # 0
        <5>1. open_flag' = open_flag /\ unclosed' = unclosed /\ Holders(e) # {}
          BY <1>0, <1>e, <3>3, <4>2 DEF CloseDevice
        <5> QED BY <3>1, <4>1, <5>1 DEF FlagsRight
      <4>3. CASE ref_count[e] = 0
        <5>1. Holders(e) = {}
          BY <1>e, <3>3, <4>3
        <5>2. open_flag'[e] = {} \/ e \in unclosed'
          BY <1>0, <1>d, <3>3, <4>3 DEF CloseDevice
        <5> QED BY <3>1, <4>1, <5>1, <5>2 DEF FlagsRight
      <4> QED BY <4>2, <4>3
    <3> QED BY <3>2, <3>3
  <2> QED BY <2>2, <2>3, Zenon DEF FlagsOK, Alone, At
<1> QED BY <1>1, <1>2, <1>3, <1>4, <1>6, <1>7 DEF DeviceInv

-----------------------------------------------------------------------------
\* Looking up a device changes what the client uses, and nothing else.
LEMMA FindInv ==
  ASSUME DeviceInv, NEW c \in Clients, rt_device_find(c)
  PROVE  DeviceInv'
<1>0. /\ DeviceTypes /\ TurnsOK /\ ListOK /\ ClientsOK /\ CountsOK /\ FlagsOK
      /\ dpc[c] = "idle" /\ c \notin opened
      /\ dev' = [dev EXCEPT ![c] = IF devices = <<>> THEN nodev ELSE Head(devices)]
      /\ UNCHANGED <<devices, flag, open_flag, ref_count, dpc, tmp, opened, unclosed>>
  BY DEF DeviceInv, rt_device_find, At
<1>1. DeviceTypes'
  <2>1. devices # <<>> => Head(devices) \in Devs
    BY <1>0 DEF DeviceTypes
  <2> QED BY <1>0, <2>1 DEF DeviceTypes
<1>2. TurnsOK'
  BY <1>0 DEF TurnsOK, At
<1>3. \A x \in Clients : x # c => dev'[x] = dev[x]
  BY <1>0 DEF DeviceTypes
<1>4. ListOK'
  BY <1>0, <1>3 DEF ListOK, At, Registered, DeviceTypes
<1>5. ClientsOK'
  BY <1>0 DEF ClientsOK, At
<1>6. \A e : Holders(e)' = Holders(e)
  BY <1>0, <1>3 DEF Holders, DeviceTypes
<1>7. CountsOK'
  BY <1>0, <1>3, <1>6 DEF CountsOK
<1>8. FlagsOK'
  <2> SUFFICES ASSUME NEW x \in Clients, Alone(x), NEW d \in Devs
               PROVE  FlagsRight(d, Holders(d), flag[d], open_flag[d], unclosed,
                                 IF dev'[x] = d THEN dpc[x] ELSE "idle")
    BY <1>0, <1>6 DEF FlagsOK, Alone, At
  <2>1. FlagsRight(d, Holders(d), flag[d], open_flag[d], unclosed,
                   IF dev[x] = d THEN dpc[x] ELSE "idle")
    BY <1>0 DEF FlagsOK
  <2>2. CASE x # c
    BY <1>3, <2>1, <2>2
  <2>3. CASE x = c
    BY <1>0, <2>1, <2>3
  <2> QED BY <2>2, <2>3
<1> QED BY <1>1, <1>2, <1>4, <1>5, <1>7, <1>8 DEF DeviceInv

LEMMA NextInv ==
  ASSUME TakeTurns, DeviceInv, [DeviceNext]_device_vars
  PROVE  DeviceInv'
<1>1. CASE UNCHANGED device_vars
  <2> USE <1>1 DEF device_vars
  <2>1. DeviceTypes' /\ TurnsOK' /\ ListOK' /\ ClientsOK'
    BY DEF DeviceInv, DeviceTypes, TurnsOK, ListOK, ClientsOK, At, Registered
  <2>2. \A d : Holders(d)' = Holders(d)
    BY DEF Holders
  <2>3. CountsOK' /\ FlagsOK'
    BY <2>2 DEF DeviceInv, CountsOK, FlagsOK, Alone, At
  <2> QED BY <2>1, <2>3 DEF DeviceInv
<1>2. ASSUME NEW c \in Clients, NEW d \in Devs, RegisterFind(c, d) \/ Unregister(c, d)
      PROVE  DeviceInv'
  BY <1>2, RegisterFindInv, UnregisterInv
<1>3. ASSUME NEW c \in Clients, RegisterInit(c) \/ RegisterFields(c) \/ rt_device_find(c)
      PROVE  DeviceInv'
  BY <1>3, RegisterInitInv, RegisterFieldsInv, FindInv
<1>4. ASSUME NEW c \in Clients,
             \/ OpenInit(c) \/ OpenActivate(c) \/ OpenCheck(c) \/ OpenDevice(c)
             \/ OpenFlag(c) \/ OpenCount(c)
      PROVE  DeviceInv'
  BY <1>4, OpenInitInv, OpenActivateInv, OpenCheckInv, OpenDeviceInv, OpenFlagInv,
     OpenCountInv
<1>5. ASSUME NEW c \in Clients, CloseStart(c) \/ CloseCount(c) \/ CloseDevice(c)
      PROVE  DeviceInv'
  BY <1>5, CloseStartInv, CloseCountInv, CloseDeviceInv
<1> QED BY <1>1, <1>2, <1>3, <1>4, <1>5 DEF DeviceNext

\* Between calls the list holds at most one device, the counts are exact, and
\* the flags of a registered device are those of the state without a caller.
LEMMA InvCounts == DeviceInv => CountExact
<1> SUFFICES ASSUME DeviceInv, Quiet PROVE
      /\ Len(devices) <= 1
      /\ \A d \in Devs : Registered(d) =>
           /\ ref_count[d] = Cardinality(Holders(d))
           /\ Holders(d) # {} => "OPEN" \in open_flag[d] /\ "ACTIVATED" \in flag[d]
           /\ "STANDALONE" \in flag[d] => Cardinality(Holders(d)) <= 1
           /\ Holders(d) = {} /\ d \notin unclosed => open_flag[d] = {}
  BY DEF CountExact
<1>1. Len(devices) <= 1
  <2>1. /\ devices \in Seq(Devs) /\ Distinct(devices)
        /\ \A d, e : Registered(d) /\ Registered(e) => d = e
    BY DEF DeviceInv, DeviceTypes, ListOK
  <2>2. \A i \in DOMAIN devices : Registered(devices[i])
    BY DEF Registered, Linked
  <2> SUFFICES ASSUME Len(devices) > 1 PROVE FALSE
    BY <2>1, LenProperties
  <2>3. 1 \in DOMAIN devices /\ 2 \in DOMAIN devices
    BY <2>1, LenProperties
  <2> QED BY <2>1, <2>2, <2>3 DEF Distinct
<1>2. PICK c \in Clients : TRUE
  BY DeviceAssumption
<1>3. ASSUME NEW d \in Devs
      PROVE  FlagsRight(d, Holders(d), flag[d], open_flag[d], unclosed, "idle")
  BY <1>2 DEF DeviceInv, FlagsOK, Alone, Quiet, At
<1>4. ASSUME NEW d \in Devs, "STANDALONE" \in flag[d]
      PROVE  Cardinality(Holders(d)) <= 1
  <2>1. \A x, y \in Holders(d) : x = y
    BY <1>3, <1>4 DEF FlagsRight
  <2>2. CASE Holders(d) = {}
    BY <2>2, FS_EmptySet
  <2>3. ASSUME NEW x \in Holders(d) PROVE Cardinality(Holders(d)) <= 1
    <3>1. Holders(d) = {x}
      BY <2>1, <2>3
    <3>2. Cardinality({x}) = 1
      BY FS_Singleton
    <3> QED BY <3>1, <3>2
  <2> QED BY <2>2, <2>3
<1>5. \A d \in Devs : ref_count[d] = Cardinality(Holders(d))
  BY DEF DeviceInv, CountsOK
<1> QED BY <1>1, <1>3, <1>4, <1>5 DEF FlagsRight

-----------------------------------------------------------------------------
(* The invariant behind CountExact: whoever is inside a call is alone, the *)
(* count is that of the clients at every step, and the flags follow the    *)
(* place of the one caller (device.c:60-76, 204-310).                      *)
THEOREM DeviceInvariant == TakeTurns => (DeviceSpec => []DeviceInv)
<1> SUFFICES ASSUME TakeTurns PROVE DeviceSpec => []DeviceInv
  OBVIOUS
<1>1. DeviceInit => DeviceInv
  BY InitInv
<1>2. DeviceInv /\ [DeviceNext]_device_vars => DeviceInv'
  BY NextInv
<1> QED BY <1>1, <1>2, PTL DEF DeviceSpec

(* Callers that do not overlap keep the reference count and the flags of   *)
(* every registered device exact, whichever driver functions are missing   *)
(* or fail (device.c:239-266, 289-306).                                    *)
THEOREM DeviceCounts == TakeTurns => (DeviceSpec => []CountExact)
<1> SUFFICES ASSUME TakeTurns PROVE DeviceSpec => []CountExact
  OBVIOUS
<1>1. DeviceSpec => []DeviceInv
  BY DeviceInvariant
<1>2. DeviceInv => CountExact
  BY InvCounts
<1> QED BY <1>1, <1>2, PTL

-----------------------------------------------------------------------------
(* The SPI bus, when callers share no device, send no empty message and do *)
(* not use three wires: data only go over a bus that is set up for their   *)
(* device, and a chip select does not outlive the call or the session that *)
(* pulled it low.                                                          *)
CarefulCallers ==
  /\ ~SharedDevices /\ ~EmptyMessages
  /\ "zero" \notin SpiConfigs /\ "3wire" \notin SpiConfigs

MessageFlags == {"take", "release", "recv", "empty"}
SpiPlaces == {"idle", "apply", "select", "data", "exit"}

\* The messages of a call: the chip is released by the last one only.
WellFormed(ms) ==
  /\ ms \in Seq(SUBSET MessageFlags) /\ Len(ms) > 0
  /\ \A i \in 1 .. Len(ms) : "empty" \notin ms[i]
  /\ \A i \in 1 .. Len(ms) : "release" \in ms[i] => i = Len(ms)

SpiTypes ==
  /\ config \in [SpiDevs -> SpiConfigs \cup {"zero"}]
  /\ owner \in SpiDevs \cup {nobody}
  /\ lock \in [by : SpiThreads \cup {nobody}, count : Nat]
  /\ enabled \in BOOLEAN /\ low \in SUBSET SpiDevs
  /\ spc \in [SpiThreads -> SpiPlaces]
  /\ sdev \in [SpiThreads -> SpiDevs \cup {nobody}]
  /\ DOMAIN msgs = SpiThreads

Moving(t) == spc[t] \in {"select", "data", "exit"}
Using(t) == ~SpiIdle(t) \/ InSession(t)

\* Whoever holds the lock holds the bus for its device.
LockOK ==
  /\ lock.count = 0 <=> lock.by = nobody
  /\ \A t \in SpiThreads : Moving(t) => lock.by = t
  /\ \A t \in SpiThreads : lock.by = t => sdev[t] \in SpiDevs /\ owner = sdev[t]

\* No two threads use one device.
ApartOK ==
  \A t, x \in SpiThreads :
    t # x /\ Using(t) /\ Using(x) => sdev[t] # sdev[x]

ChipsOK ==
  \A d \in low : lock.by # nobody /\ sdev[lock.by] = d /\ ~NoCs(config[d])

\* The registers hold the configuration of the owner, unless somebody who has
\* just written it is about to apply it.
AppliedOK ==
  /\ \A t \in SpiThreads :
       spc[t] = "apply" => sdev[t] \in SpiDevs /\ config[sdev[t]] \in SpiConfigs
  /\ owner # nobody =>
       \/ hw = config[owner] /\ enabled
       \/ \E x \in SpiThreads : spc[x] = "apply" /\ sdev[x] = owner

\* What the rest of a call does to the chip select.
CallOK(t) ==
  /\ spc[t] \in {"select", "data"} =>
       WellFormed(msgs[t]) /\ (lock.count = 1 => "release" \in msgs[t][Len(msgs[t])])
  /\ spc[t] = "select" =>
       "take" \in Head(msgs[t]) \/ sdev[t] \in low \/ NoCs(config[sdev[t]])
  /\ spc[t] = "data" => sdev[t] \in low \/ NoCs(config[sdev[t]])
  /\ spc[t] = "exit" /\ lock.count = 1 => low = {}

SpiInv ==
  /\ SpiTypes /\ LockOK /\ ApartOK /\ ChipsOK /\ AppliedOK
  /\ \A t \in SpiThreads : CallOK(t)

-----------------------------------------------------------------------------
\* The lists of messages of the framework's functions are well formed.
LEMMA MessageLists ==
  ASSUME CarefulCallers, NEW ms \in Messages
  PROVE  WellFormed(ms) /\ "take" \in Head(ms) /\ "release" \in ms[Len(ms)]
<1>1. ms \in {<<{"take", "release"}>>, <<{"take"}, {"release"}>>,
              <<{"take"}, {"release", "recv"}>>}
  BY DEF Messages, CarefulCallers
<1>2. CASE ms = <<{"take", "release"}>>
  BY <1>2 DEF WellFormed, MessageFlags
<1>3. CASE ms = <<{"take"}, {"release"}>>
  BY <1>3 DEF WellFormed, MessageFlags
<1>4. CASE ms = <<{"take"}, {"release", "recv"}>>
  BY <1>4 DEF WellFormed, MessageFlags
<1> QED BY <1>1, <1>2, <1>3, <1>4

\* The message of a session, which leaves the chip select alone.
LEMMA SessionMessage == WellFormed(<<{}>>)
  BY DEF WellFormed, MessageFlags

\* What is left of a list after its first message.
LEMMA RestOfList ==
  ASSUME NEW ms, WellFormed(ms), Len(ms) # 1
  PROVE  /\ WellFormed(Tail(ms)) /\ "release" \notin Head(ms)
         /\ Tail(ms)[Len(Tail(ms))] = ms[Len(ms)]
<1> DEFINE n == Len(ms)
           r == Tail(ms)
<1>1. ms \in Seq(SUBSET MessageFlags) /\ n > 0
  BY Zenon DEF WellFormed
<1>2. \A i \in 1 .. n : "empty" \notin ms[i] /\ ("release" \in ms[i] => i = n)
  BY Zenon DEF WellFormed
<1>3. n \in Nat
  BY <1>1, LenProperties, Zenon
<1>4. n # 1 /\ ms # <<>>
  BY <1>1
<1>5. r \in Seq(SUBSET MessageFlags) /\ Len(r) = n - 1 /\ \A i \in 1 .. Len(r) : r[i] = ms[i + 1]
  BY <1>1, <1>4, HeadTailProperties, Zenon
<1>6. Head(ms) = ms[1]
  BY <1>1, <1>4
<1> HIDE DEF n, r
<1>7. Len(r) > 0 /\ r[Len(r)] = ms[n]
  BY <1>1, <1>3, <1>4, <1>5
<1>8. "release" \notin Head(ms)
  BY <1>1, <1>2, <1>3, <1>4, <1>6
<1>9. \A i \in 1 .. Len(r) :
        "empty" \notin r[i] /\ ("release" \in r[i] => i = Len(r))
  BY <1>2, <1>3, <1>5
<1>10. WellFormed(r)
  BY <1>5, <1>7, <1>9, Zenon DEF WellFormed
<1> QED BY <1>7, <1>8, <1>10 DEF n, r

LEMMA SpiInitInv == SpiInit => SpiInv
<1> SUFFICES ASSUME SpiInit PROVE SpiInv
  OBVIOUS
<1>1. SpiTypes
  BY DEF SpiInit, SpiTypes, SpiPlaces
<1>2. LockOK /\ ApartOK /\ ChipsOK /\ AppliedOK
  BY SpiAssumption DEF SpiInit, LockOK, ApartOK, ChipsOK, AppliedOK, Moving, Using, SpiIdle, InSession
<1>3. \A t \in SpiThreads : CallOK(t)
  BY DEF SpiInit, CallOK
<1> QED BY <1>1, <1>2, <1>3 DEF SpiInv
-----------------------------------------------------------------------------
\* Writing the configuration: the device is not in use by others.
LEMMA WriteConfigInv ==
  ASSUME CarefulCallers, SpiInv, NEW t \in SpiThreads, NEW d \in SpiDevs, NEW c \in SpiConfigs,
         SpiWriteConfig(t, d, c)
  PROVE  SpiInv'
<1> USE SpiAssumption
<1>1. SpiTypes'
  BY DEF SpiInv, SpiTypes, SpiPlaces, SpiWriteConfig, Mine, SpiIdle, InSession
<1>2. LockOK'
  BY DEF SpiInv, SpiTypes, LockOK, Moving, SpiIdle, SpiWriteConfig, Mine, InSession
<1>3. ApartOK'
  BY DEF SpiInv, SpiTypes, LockOK, Moving, ApartOK, Using, CarefulCallers, SpiWriteConfig, Mine, SpiIdle, InSession
<1>4. ChipsOK'
  BY DEF SpiInv, SpiTypes, LockOK, Moving, ChipsOK, SpiWriteConfig, Mine, SpiIdle, InSession
<1>5. AppliedOK'
  BY DEF SpiInv, SpiTypes, LockOK, ApartOK, Using, Moving, AppliedOK, CarefulCallers, SpiWriteConfig, Mine, SpiIdle, InSession
<1>6. \A x \in SpiThreads : CallOK(x)'
  <2> SUFFICES ASSUME NEW x \in SpiThreads PROVE CallOK(x)'
    OBVIOUS
  <2>1. CASE x = t
    BY <2>1 DEF SpiInv, SpiTypes, CallOK, SpiWriteConfig
  <2>2. CASE x # t /\ Moving(x)
    <3>1. lock.by = x /\ x # t /\ CallOK(x) /\ ~SpiIdle(x)
      BY <2>2 DEF SpiInv, LockOK, Moving, SpiIdle
    <3>2. sdev[x] # d
      BY <3>1 DEF SpiWriteConfig, Mine, CarefulCallers
    <3>3. /\ config'[sdev[x]] = config[sdev[x]] /\ sdev'[x] = sdev[x]
          /\ spc'[x] = spc[x] /\ msgs' = msgs /\ lock' = lock /\ low' = low
      BY <3>1, <3>2 DEF SpiInv, SpiTypes, LockOK, SpiWriteConfig
    <3> QED BY <3>1, <3>3 DEF CallOK, NoCs
  <2>3. CASE x # t /\ ~Moving(x)
    BY <2>3 DEF SpiInv, SpiTypes, CallOK, Moving, SpiWriteConfig
  <2> QED BY <2>1, <2>2, <2>3
<1> QED BY <1>1, <1>2, <1>3, <1>4, <1>5, <1>6 DEF SpiInv

-----------------------------------------------------------------------------
\* Applying it: the registers agree with the owner's configuration again.
LEMMA ApplyInv ==
  ASSUME CarefulCallers, SpiInv, NEW t \in SpiThreads, SpiApply(t)
  PROVE  SpiInv'
<1> USE SpiAssumption
<1>1. SpiTypes'
  BY DEF SpiInv, SpiTypes, SpiPlaces, SpiApply, CanLock, Configure, Valid, SpiIdle, InSession
<1>2. LockOK'
  BY DEF SpiInv, SpiTypes, LockOK, Moving, SpiIdle, SpiApply, CanLock, Configure, Valid, InSession
<1>3. ApartOK'
  BY DEF SpiInv, SpiTypes, LockOK, Moving, ApartOK, Using, CarefulCallers, SpiApply, CanLock, Configure, Valid, SpiIdle, InSession
<1>4. ChipsOK'
  BY DEF SpiInv, SpiTypes, LockOK, Moving, ChipsOK, SpiApply, CanLock, Configure, Valid, SpiIdle, InSession
<1>5. AppliedOK'
  BY DEF SpiInv, SpiTypes, LockOK, ApartOK, Using, Moving, AppliedOK, CarefulCallers, SpiApply, CanLock, Configure, Valid, SpiIdle, InSession
<1>6. \A x \in SpiThreads : CallOK(x)'
  BY DEF SpiInv, SpiTypes, LockOK, ApartOK, ChipsOK, Moving, Using, CallOK, SpiApply, CanLock, Configure, Valid, SpiIdle, InSession
<1> QED BY <1>1, <1>2, <1>3, <1>4, <1>5, <1>6 DEF SpiInv

-----------------------------------------------------------------------------
\* The begin of a transfer: afterwards the bus is set up for the device.
LEMMA TransferInv ==
  ASSUME CarefulCallers, SpiInv, NEW t \in SpiThreads, NEW d \in SpiDevs, NEW ms,
         SpiTransfer(t, d, ms)
  PROVE  SpiInv'
<1> USE SpiAssumption
<1>1. SpiTypes'
  <2>1. lock.by \in SpiThreads \cup {nobody} /\ lock.count \in Nat
    BY DEF SpiInv, SpiTypes
  <2>2. lock' \in [by : SpiThreads \cup {nobody}, count : Nat]
    BY <2>1 DEF SpiTransfer, OwnBus, Take
  <2> QED BY <2>2 DEF SpiInv, SpiTypes, SpiPlaces, SpiTransfer, OwnBus, Configure
<1>2. LockOK'
  BY DEF SpiInv, SpiTypes, LockOK, Moving, SpiIdle, SpiTransfer, OwnBus, Take, Configure, Valid, Mine, InSession, CanLock
<1>3. ApartOK'
  BY DEF SpiInv, SpiTypes, LockOK, Moving, ApartOK, Using, CarefulCallers, SpiTransfer, OwnBus, Take, Configure, Valid, Mine, SpiIdle, InSession, CanLock
<1>4. ChipsOK'
  BY DEF SpiInv, SpiTypes, LockOK, Moving, ChipsOK, SpiTransfer, OwnBus, Take, Configure, Valid, Mine, SpiIdle, InSession, CanLock
<1>5. AppliedOK'
  BY DEF SpiInv, SpiTypes, LockOK, ApartOK, Using, Moving, AppliedOK, CarefulCallers, SpiTransfer, OwnBus, Take, Configure, Valid, Mine, SpiIdle, InSession, CanLock
<1>6. \A x \in SpiThreads : CallOK(x)'
  <2>1. lock.by \in {nobody, t} /\ lock.count \in Nat /\ lock' = [by |-> t, count |-> lock.count + 1]
    BY DEF SpiInv, SpiTypes, SpiTransfer, OwnBus, Take, CanLock
  <2>2. ASSUME NEW x \in SpiThreads, x # t PROVE CallOK(x)'
    BY <2>1, <2>2 DEF SpiInv, SpiTypes, LockOK, Moving, CallOK, SpiTransfer
  <2>3. CASE d \in low
    <3>1. ms = <<{}>> /\ lock.count # 0
      BY <2>1, <2>3 DEF SpiInv, LockOK, ChipsOK, SpiTransfer
    <3>2. lock'.count # 1
      BY <2>1, <3>1
    <3>3. spc'[t] = "select" /\ sdev'[t] = d /\ msgs'[t] = ms /\ d \in low'
      BY <2>3 DEF SpiInv, SpiTypes, SpiTransfer, OwnBus
    <3> QED BY <2>2, <3>1, <3>2, <3>3, SessionMessage DEF CallOK
  <2>4. CASE d \notin low
    <3>1. WellFormed(ms) /\ "take" \in Head(ms) /\ "release" \in ms[Len(ms)]
      BY <2>4, MessageLists DEF SpiTransfer
    <3>2. spc'[t] = "select" /\ msgs'[t] = ms
      BY DEF SpiInv, SpiTypes, SpiTransfer, OwnBus
    <3> QED BY <2>2, <3>1, <3>2 DEF CallOK
  <2> QED BY <2>3, <2>4
<1> QED BY <1>1, <1>2, <1>3, <1>4, <1>5, <1>6 DEF SpiInv

-----------------------------------------------------------------------------
\* Selecting the chip, or not if the configuration has no chip select.
LEMMA SelectInv ==
  ASSUME CarefulCallers, SpiInv, NEW t \in SpiThreads, SpiSelect(t)
  PROVE  SpiInv'
<1> USE SpiAssumption
<1>1. SpiTypes'
  BY DEF SpiInv, SpiTypes, SpiPlaces, LockOK, Moving, SpiSelect
<1>2. LockOK'
  BY DEF SpiInv, SpiTypes, LockOK, Moving, SpiIdle, SpiSelect, NoCs, InSession
<1>3. ApartOK'
  BY DEF SpiInv, SpiTypes, LockOK, Moving, ApartOK, Using, CarefulCallers, SpiSelect, NoCs, SpiIdle, InSession
<1>4. ChipsOK'
  BY DEF SpiInv, SpiTypes, LockOK, Moving, ChipsOK, SpiSelect, NoCs, SpiIdle, InSession
<1>5. AppliedOK'
  BY DEF SpiInv, SpiTypes, LockOK, ApartOK, Using, Moving, AppliedOK, CarefulCallers, SpiSelect, NoCs, SpiIdle, InSession
<1>6. \A x \in SpiThreads : CallOK(x)'
  BY DEF SpiInv, SpiTypes, LockOK, ApartOK, ChipsOK, Moving, Using, CallOK, SpiSelect, NoCs, SpiIdle, InSession
<1> QED BY <1>1, <1>2, <1>3, <1>4, <1>5, <1>6 DEF SpiInv

-----------------------------------------------------------------------------
\* The data and the release of the chip.
LEMMA XferInv ==
  ASSUME CarefulCallers, SpiInv, NEW t \in SpiThreads, SpiXfer(t)
  PROVE  SpiInv'
<1> USE SpiAssumption
<1>1. SpiTypes'
  BY DEF SpiInv, SpiTypes, SpiPlaces, SpiXfer, NoCs, ThreeWire, SpiIdle, InSession
<1>2. LockOK'
  BY DEF SpiInv, SpiTypes, LockOK, Moving, SpiIdle, SpiXfer, NoCs, ThreeWire, InSession
<1>3. ApartOK'
  BY DEF SpiInv, SpiTypes, LockOK, Moving, ApartOK, Using, CarefulCallers, SpiXfer, NoCs, ThreeWire, SpiIdle, InSession
<1>4. ChipsOK'
  BY DEF SpiInv, SpiTypes, LockOK, Moving, ChipsOK, SpiXfer, NoCs, ThreeWire, SpiIdle, InSession
<1>5. AppliedOK'
  BY DEF SpiInv, SpiTypes, LockOK, ApartOK, Using, Moving, AppliedOK, CarefulCallers, SpiXfer, NoCs, ThreeWire, SpiIdle, InSession
<1>6. \A x \in SpiThreads : CallOK(x)'
  <2>1. /\ spc[t] = "data" /\ CallOK(t) /\ lock.by = t /\ sdev[t] \in SpiDevs
        /\ config' = config /\ lock' = lock /\ sdev' = sdev
        /\ \A x \in SpiThreads : Moving(x) => x = t
    BY DEF SpiInv, LockOK, Moving, SpiXfer
  <2>2. ASSUME NEW x \in SpiThreads, x # t PROVE CallOK(x)'
    <3>1. spc'[x] = spc[x] /\ ~Moving(x)
      BY <2>1, <2>2 DEF SpiInv, SpiTypes, SpiXfer
    <3> QED BY <3>1 DEF CallOK, Moving
  <2>3. /\ WellFormed(msgs[t]) /\ (sdev[t] \in low \/ NoCs(config[sdev[t]]))
        /\ lock.count = 1 => "release" \in msgs[t][Len(msgs[t])]
        /\ msgs'[t] = Tail(msgs[t])
    BY <2>1 DEF CallOK, SpiInv, SpiTypes, SpiXfer
  <2>4. msgs[t] \in Seq(SUBSET MessageFlags) /\ Len(msgs[t]) \in Nat /\ Len(msgs[t]) > 0
    <3>1. msgs[t] \in Seq(SUBSET MessageFlags) /\ Len(msgs[t]) > 0
      BY <2>3, Zenon DEF WellFormed
    <3> QED BY <3>1, LenProperties, Zenon
  <2>5. Head(msgs[t]) = msgs[t][1]
    BY <2>4
  <2>6. "empty" \notin Head(msgs[t])
    <3>1. \A i \in 1 .. Len(msgs[t]) : "empty" \notin msgs[t][i]
      BY <2>3, Zenon DEF WellFormed
    <3>2. 1 \in 1 .. Len(msgs[t])
      BY <2>4
    <3> QED BY <2>5, <3>1, <3>2
  <2>7. CASE Len(msgs[t]) # 1
    <3>1. /\ WellFormed(Tail(msgs[t])) /\ "release" \notin Head(msgs[t])
          /\ Tail(msgs[t])[Len(Tail(msgs[t]))] = msgs[t][Len(msgs[t])]
      BY <2>3, <2>7, RestOfList
    <3>2. spc'[t] = "select" /\ low' = low
      BY <2>6, <2>7, <3>1 DEF SpiInv, SpiTypes, SpiXfer
    <3>3. CallOK(t)'
      BY <2>1, <2>3, <3>1, <3>2 DEF CallOK, NoCs
    <3> QED BY <2>2, <3>3
  <2>8. CASE Len(msgs[t]) = 1
    <3>1. spc'[t] = "exit"
      BY <2>8 DEF SpiInv, SpiTypes, SpiXfer
    <3>2. ASSUME lock.count = 1 PROVE low' = {}
      <4>1. "release" \in Head(msgs[t])
        BY <2>3, <2>5, <2>8, <3>2
      <4>2. low' = IF ~NoCs(config[sdev[t]]) THEN low \ {sdev[t]} ELSE low
        BY <4>1 DEF SpiXfer
      <4> QED BY <2>1, <4>2 DEF SpiInv, ChipsOK
    <3>3. CallOK(t)'
      BY <2>1, <3>1, <3>2 DEF CallOK
    <3> QED BY <2>2, <3>3
  <2> QED BY <2>7, <2>8
<1> QED BY <1>1, <1>2, <1>3, <1>4, <1>5, <1>6 DEF SpiInv

-----------------------------------------------------------------------------
\* The end of a transfer.
LEMMA ExitInv ==
  ASSUME CarefulCallers, SpiInv, NEW t \in SpiThreads, SpiExit(t)
  PROVE  SpiInv'
<1> USE SpiAssumption
<1>1. SpiTypes'
  <2>1. /\ lock \in [by : SpiThreads \cup {nobody}, count : Nat] /\ lock.by = t
        /\ lock.count \in Nat /\ lock.count > 0
    BY DEF SpiInv, SpiTypes, LockOK, Moving, SpiExit
  <2>2. lock' \in [by : SpiThreads \cup {nobody}, count : Nat]
    BY <2>1 DEF SpiExit, Release
  <2> QED BY <2>2 DEF SpiInv, SpiTypes, SpiPlaces, SpiExit
<1>2. LockOK'
  BY DEF SpiInv, SpiTypes, LockOK, Moving, SpiIdle, SpiExit, Release, InSession
<1>3. ApartOK'
  BY DEF SpiInv, SpiTypes, LockOK, Moving, ApartOK, Using, CarefulCallers, SpiExit, Release, SpiIdle, InSession
<1>4. ChipsOK'
  <2>1. /\ lock.by = t /\ low' = low /\ config' = config /\ sdev' = sdev
        /\ lock.count = 1 => low = {}
    BY DEF SpiInv, LockOK, Moving, CallOK, SpiExit
  <2>2. lock.count # 1 => lock'.by = t
    BY <2>1 DEF SpiInv, SpiTypes, SpiExit, Release
  <2> QED BY <2>1, <2>2 DEF SpiInv, ChipsOK, NoCs
<1>5. AppliedOK'
  BY DEF SpiInv, SpiTypes, LockOK, ApartOK, Using, Moving, AppliedOK, CarefulCallers, SpiExit, Release, SpiIdle, InSession
<1>6. \A x \in SpiThreads : CallOK(x)'
  BY DEF SpiInv, SpiTypes, LockOK, ApartOK, ChipsOK, Moving, Using, CallOK, SpiExit, Release, SpiIdle, InSession
<1> QED BY <1>1, <1>2, <1>3, <1>4, <1>5, <1>6 DEF SpiInv

-----------------------------------------------------------------------------
\* The begin of a session.
LEMMA TakeBusInv ==
  ASSUME CarefulCallers, SpiInv, NEW t \in SpiThreads, NEW d \in SpiDevs,
         rt_spi_take_bus(t, d)
  PROVE  SpiInv'
<1> USE SpiAssumption
<1>1. SpiTypes'
  <2>1. lock.by \in SpiThreads \cup {nobody} /\ lock.count \in Nat
    BY DEF SpiInv, SpiTypes
  <2>2. lock' \in [by : SpiThreads \cup {nobody}, count : Nat]
    BY <2>1 DEF rt_spi_take_bus, OwnBus, Take
  <2> QED BY <2>2 DEF SpiInv, SpiTypes, SpiPlaces, rt_spi_take_bus, OwnBus, Configure
<1>2. LockOK'
  BY DEF SpiInv, SpiTypes, LockOK, Moving, SpiIdle, rt_spi_take_bus, OwnBus, Take, Configure, Valid, Mine, InSession, CanLock
<1>3. ApartOK'
  BY DEF SpiInv, SpiTypes, LockOK, Moving, ApartOK, Using, CarefulCallers, rt_spi_take_bus, OwnBus, Take, Configure, Valid, Mine, SpiIdle, InSession, CanLock
<1>4. ChipsOK'
  BY DEF SpiInv, SpiTypes, LockOK, Moving, ChipsOK, rt_spi_take_bus, OwnBus, Take, Configure, Valid, Mine, SpiIdle, InSession, CanLock
<1>5. AppliedOK'
  BY DEF SpiInv, SpiTypes, LockOK, ApartOK, Using, Moving, AppliedOK, CarefulCallers, rt_spi_take_bus, OwnBus, Take, Configure, Valid, Mine, SpiIdle, InSession, CanLock
<1>6. \A x \in SpiThreads : CallOK(x)'
  BY DEF SpiInv, SpiTypes, LockOK, ApartOK, ChipsOK, Moving, Using, CallOK, rt_spi_take_bus, OwnBus, Take, Configure, Valid, Mine, SpiIdle, InSession, CanLock
<1> QED BY <1>1, <1>2, <1>3, <1>4, <1>5, <1>6 DEF SpiInv

-----------------------------------------------------------------------------
\* Selecting the chip in a session.
LEMMA TakeInv ==
  ASSUME CarefulCallers, SpiInv, NEW t \in SpiThreads, rt_spi_take(t)
  PROVE  SpiInv'
<1> USE SpiAssumption
<1>1. SpiTypes'
  BY DEF SpiInv, SpiTypes, LockOK, rt_spi_take, InSession
<1>2. LockOK'
  BY DEF SpiInv, SpiTypes, LockOK, Moving, SpiIdle, rt_spi_take, NoCs, InSession
<1>3. ApartOK'
  BY DEF SpiInv, SpiTypes, LockOK, Moving, ApartOK, Using, CarefulCallers, rt_spi_take, NoCs, SpiIdle, InSession
<1>4. ChipsOK'
  BY DEF SpiInv, SpiTypes, LockOK, Moving, ChipsOK, rt_spi_take, NoCs, SpiIdle, InSession
<1>5. AppliedOK'
  BY DEF SpiInv, SpiTypes, LockOK, ApartOK, Using, Moving, AppliedOK, CarefulCallers, rt_spi_take, NoCs, SpiIdle, InSession
<1>6. \A x \in SpiThreads : CallOK(x)'
  BY DEF SpiInv, SpiTypes, LockOK, ApartOK, ChipsOK, Moving, Using, CallOK, rt_spi_take, NoCs, SpiIdle, InSession
<1> QED BY <1>1, <1>2, <1>3, <1>4, <1>5, <1>6 DEF SpiInv

-----------------------------------------------------------------------------
\* Releasing it.
LEMMA ReleaseInv ==
  ASSUME CarefulCallers, SpiInv, NEW t \in SpiThreads, rt_spi_release(t)
  PROVE  SpiInv'
<1> USE SpiAssumption
<1>1. SpiTypes'
  BY DEF SpiInv, SpiTypes, SpiPlaces, rt_spi_release, NoCs, SpiIdle, InSession
<1>2. LockOK'
  BY DEF SpiInv, SpiTypes, LockOK, Moving, SpiIdle, rt_spi_release, NoCs, InSession
<1>3. ApartOK'
  BY DEF SpiInv, SpiTypes, LockOK, Moving, ApartOK, Using, CarefulCallers, rt_spi_release, NoCs, SpiIdle, InSession
<1>4. ChipsOK'
  BY DEF SpiInv, SpiTypes, LockOK, Moving, ChipsOK, rt_spi_release, NoCs, SpiIdle, InSession
<1>5. AppliedOK'
  BY DEF SpiInv, SpiTypes, LockOK, ApartOK, Using, Moving, AppliedOK, CarefulCallers, rt_spi_release, NoCs, SpiIdle, InSession
<1>6. \A x \in SpiThreads : CallOK(x)'
  BY DEF SpiInv, SpiTypes, LockOK, ApartOK, ChipsOK, Moving, Using, CallOK, rt_spi_release, NoCs, SpiIdle, InSession
<1> QED BY <1>1, <1>2, <1>3, <1>4, <1>5, <1>6 DEF SpiInv

-----------------------------------------------------------------------------
\* The end of a session.
LEMMA ReleaseBusInv ==
  ASSUME CarefulCallers, SpiInv, NEW t \in SpiThreads, rt_spi_release_bus(t)
  PROVE  SpiInv'
<1> USE SpiAssumption
<1>1. SpiTypes'
  <2>1. /\ lock \in [by : SpiThreads \cup {nobody}, count : Nat] /\ lock.by = t
        /\ lock.count \in Nat /\ lock.count > 0
    BY DEF SpiInv, SpiTypes, LockOK, Moving, rt_spi_release_bus, InSession
  <2>2. lock' \in [by : SpiThreads \cup {nobody}, count : Nat]
    BY <2>1 DEF rt_spi_release_bus, Release
  <2> QED BY <2>2 DEF SpiInv, SpiTypes, SpiPlaces, rt_spi_release_bus
<1>2. LockOK'
  BY DEF SpiInv, SpiTypes, LockOK, Moving, SpiIdle, rt_spi_release_bus, Release, InSession
<1>3. ApartOK'
  BY DEF SpiInv, SpiTypes, LockOK, Moving, ApartOK, Using, CarefulCallers, rt_spi_release_bus, Release, SpiIdle, InSession
<1>4. ChipsOK'
  BY DEF SpiInv, SpiTypes, LockOK, Moving, ChipsOK, rt_spi_release_bus, Release, SpiIdle, InSession
<1>5. AppliedOK'
  BY DEF SpiInv, SpiTypes, LockOK, ApartOK, Using, Moving, AppliedOK, CarefulCallers, rt_spi_release_bus, Release, SpiIdle, InSession
<1>6. \A x \in SpiThreads : CallOK(x)'
  BY DEF SpiInv, SpiTypes, LockOK, ApartOK, ChipsOK, Moving, Using, CallOK, rt_spi_release_bus, Release, SpiIdle, InSession
<1> QED BY <1>1, <1>2, <1>3, <1>4, <1>5, <1>6 DEF SpiInv
-----------------------------------------------------------------------------
LEMMA SpiNextInv ==
  ASSUME CarefulCallers, SpiInv, [SpiNext]_spi_vars
  PROVE  SpiInv'
<1>1. ASSUME NEW t \in SpiThreads, NEW d \in SpiDevs, NEW c \in SpiConfigs, SpiWriteConfig(t, d, c)
      PROVE  SpiInv'
  BY <1>1, WriteConfigInv
<1>2. ASSUME NEW t \in SpiThreads, NEW d \in SpiDevs, NEW ms, SpiTransfer(t, d, ms)
      PROVE  SpiInv'
  BY <1>2, TransferInv
<1>3. ASSUME NEW t \in SpiThreads, NEW d \in SpiDevs, rt_spi_take_bus(t, d)
      PROVE  SpiInv'
  BY <1>3, TakeBusInv
<1>4. ASSUME NEW t \in SpiThreads, SpiApply(t) \/ SpiSelect(t) \/ SpiXfer(t) \/ SpiExit(t)
      PROVE  SpiInv'
  BY <1>4, ApplyInv, SelectInv, XferInv, ExitInv
<1>5. ASSUME NEW t \in SpiThreads, rt_spi_take(t) \/ rt_spi_release(t) \/ rt_spi_release_bus(t)
      PROVE  SpiInv'
  BY <1>5, TakeInv, ReleaseInv, ReleaseBusInv
<1>6. CASE UNCHANGED spi_vars
  BY <1>6 DEF spi_vars, SpiInv, SpiTypes, LockOK, ApartOK, ChipsOK, AppliedOK, CallOK,
              Moving, Using, SpiIdle, InSession
<1> QED BY <1>1, <1>2, <1>3, <1>4, <1>5, <1>6 DEF SpiNext

\* Who holds the lock of the bus holds the bus, registers, chip select and
\* messages agree with the configuration of its device, or are about to.
THEOREM SpiInvariant == CarefulCallers => (SpiSpec => []SpiInv)
<1> SUFFICES ASSUME CarefulCallers PROVE SpiSpec => []SpiInv
  OBVIOUS
<1>1. SpiInv /\ [SpiNext]_spi_vars => SpiInv'
  BY SpiNextInv
<1> QED BY SpiInitInv, <1>1, PTL DEF SpiSpec

\* Data go over the wires with the configuration of the device they are for,
\* and to that device alone (rt_spi_transfer, rt_spi_transfer_message, spixfer).
THEOREM SpiData == CarefulCallers => (SpiSpec => []SpiWireRight)
<1> SUFFICES ASSUME CarefulCallers PROVE SpiSpec => []SpiWireRight
  OBVIOUS
<1>1. ASSUME SpiInv, NEW t \in SpiThreads, spc[t] = "data"
      PROVE  /\ hw = config[sdev[t]] /\ enabled /\ owner = sdev[t]
             /\ low = IF NoCs(config[sdev[t]]) THEN {} ELSE {sdev[t]}
  <2>1. lock.by = t /\ owner = sdev[t] /\ sdev[t] \in SpiDevs /\ CallOK(t)
    BY <1>1 DEF SpiInv, LockOK, Moving
  <2>2. ~ \E x \in SpiThreads : spc[x] = "apply" /\ sdev[x] = owner
    BY <1>1, <2>1 DEF SpiInv, ApartOK, Using, SpiIdle
  <2>3. hw = config[sdev[t]] /\ enabled
    BY <1>1, <2>1, <2>2, SpiAssumption DEF SpiInv, AppliedOK
  <2>4. low = IF NoCs(config[sdev[t]]) THEN {} ELSE {sdev[t]}
    BY <1>1, <2>1 DEF SpiInv, ChipsOK, CallOK
  <2> QED BY <2>1, <2>3, <2>4
<1>2. SpiInv => SpiWireRight
  BY <1>1 DEF SpiWireRight
<1> QED BY <1>2, SpiInvariant, PTL

\* The chip select does not outlive the call or the session of the thread that
\* pulled it low (rt_spi_transfer_message, rt_spi_release_bus).
THEOREM SpiChipSelect == CarefulCallers => (SpiSpec => []SpiReleased)
<1> SUFFICES ASSUME CarefulCallers PROVE SpiSpec => []SpiReleased
  OBVIOUS
<1>1. SpiInv => SpiReleased
  BY DEF SpiInv, SpiTypes, LockOK, ChipsOK, Moving, SpiReleased
<1> QED BY <1>1, SpiInvariant, PTL

-----------------------------------------------------------------------------
(* The bit-banged bus, for any number of retries and a device that may     *)
(* hold the clock at any time: the bus is free whenever its lock is, after *)
(* transfers that fail as after those that succeed.  No message asks for   *)
(* the stop condition to be left out, and the driver did not leave the     *)
(* clock low when it started.                                              *)
StopsAlways == "no_stop" \notin I2cFaults /\ "locked" \notin I2cFaults

LinesFree == sda = 1 /\ scl = 1 /\ wire = Off

Stopping ==
  [dev : I2cDevs, flags : SUBSET {"RD", "NO_START", "IGNORE_NACK", "ADDR_10BIT"},
   len : 1 .. 2]

\* A call that is working on one of its messages, all of which end in a stop.
I2cCall(x) ==
  /\ x = [at |-> x.at, msgs |-> x.msgs, i |-> x.i, left |-> x.left,
          tries |-> x.tries, moved |-> x.moved, ret |-> x.ret]
  /\ x.at # "idle"
  /\ x.msgs \in Seq(Stopping) /\ x.i \in 1 .. Len(x.msgs)

\* A thread inside a transfer holds the lock, and has freed the lines when it
\* is about to return.
InTransfer(t) ==
  ~I2cAt(t, "idle") =>
    i2c_lock = t /\ I2cCall(xfer[t]) /\ (I2cAt(t, "done") => LinesFree)

I2cInv ==
  /\ xfer = [t \in I2cThreads |-> xfer[t]]
  /\ \A t \in I2cThreads : InTransfer(t)
  /\ i2c_lock = anyone => LinesFree

-----------------------------------------------------------------------------
\* The lists of messages the framework's callers build end in a stop.
LEMMA ListsStop ==
  ASSUME StopsAlways, NEW d \in I2cDevs, NEW ms \in I2cLists(d)
  PROVE  ms \in Seq(Stopping) /\ 1 \in 1 .. Len(ms)
<1>1. /\ I2cMsg(d, {}, 2) \in Stopping /\ I2cMsg(d, {"RD"}, 2) \in Stopping
      /\ I2cMsg(d, {}, 1) \in Stopping /\ I2cMsg(d, {"NO_START"}, 1) \in Stopping
      /\ I2cMsg(d, {"IGNORE_NACK"}, 2) \in Stopping
  BY DEF I2cMsg, Stopping
<1>2. \/ ms = <<I2cMsg(d, {}, 2)>> \/ ms = <<I2cMsg(d, {"RD"}, 2)>>
      \/ ms = <<I2cMsg(d, {}, 1), I2cMsg(d, {"RD"}, 2)>>
      \/ ms = <<I2cMsg(d, {}, 1), I2cMsg(d, {"NO_START"}, 1)>>
      \/ ms = <<I2cMsg(d, {"IGNORE_NACK"}, 2)>>
  BY DEF I2cLists, StopsAlways
<1>3. (\E m \in Stopping : ms = <<m>>) \/ (\E m, n \in Stopping : ms = <<m, n>>)
  BY <1>1, <1>2, Zenon
<1>4. ASSUME NEW m \in Stopping, ms = <<m>>
      PROVE  ms \in Seq(Stopping) /\ Len(ms) = 1
  BY <1>4
<1>5. ASSUME NEW m \in Stopping, NEW n \in Stopping, ms = <<m, n>>
      PROVE  ms \in Seq(Stopping) /\ Len(ms) = 2
  BY <1>5
<1>6. ms \in Seq(Stopping) /\ Len(ms) \in {1, 2}
  BY <1>3, <1>4, <1>5
<1> QED BY <1>6

\* The next byte, the next message or the end of the transfer.
LEMMA AdvanceCall ==
  ASSUME NEW x, I2cCall(x), x.at = "data"
  PROVE  I2cCall(Advance(x)) /\ Advance(x).at # "done"
<1>1. Len(x.msgs) \in Nat /\ x.i \in 1 .. Len(x.msgs)
  BY DEF I2cCall
<1>2. CASE x.left > 1
  BY <1>2 DEF I2cCall, Advance
<1>3. CASE ~(x.left > 1) /\ x.i = Len(x.msgs)
  BY <1>3 DEF I2cCall, Advance
<1>4. CASE ~(x.left > 1) /\ x.i # Len(x.msgs)
  <2>1. x.i + 1 \in 1 .. Len(x.msgs)
    BY <1>1, <1>4
  <2> QED BY <1>4, <2>1 DEF I2cCall, Advance
<1> QED BY <1>2, <1>3, <1>4

LEMMA FailedCall ==
  ASSUME NEW x, I2cCall(x)
  PROVE  I2cCall(Failed(x)) /\ Failed(x).at # "done"
<1>1. PICK y : y = [x EXCEPT !.at = "stop", !.ret = "error"]
  OBVIOUS
<1>2. I2cCall(y) /\ y.at # "done"
  BY <1>1 DEF I2cCall
<1> QED BY <1>1, <1>2, Zenon DEF Failed

\* A step of the thread that holds the lock, which neither starts nor ends its
\* transfer.
LEMMA HolderStep ==
  ASSUME I2cInv, NEW t \in I2cThreads, ~I2cAt(t, "idle"), NEW r, I2cCall(r),
         UNCHANGED i2c_lock, xfer' = [xfer EXCEPT ![t] = r], r.at = "done" => LinesFree'
  PROVE  I2cInv'
<1>1. i2c_lock = t /\ i2c_lock # anyone
  BY I2cAssumption DEF I2cInv, InTransfer
<1>2. xfer'[t] = r /\ \A x \in I2cThreads : x # t => xfer'[x] = xfer[x]
  BY DEF I2cInv
<1>3. \A x \in I2cThreads : x # t => I2cAt(x, "idle")
  BY <1>1 DEF I2cInv, InTransfer
<1>4. xfer' = [x \in I2cThreads |-> xfer'[x]]
  BY DEF I2cInv
<1>5. ASSUME NEW x \in I2cThreads PROVE InTransfer(x)'
  <2>1. CASE x = t
    BY <1>1, <1>2, <2>1 DEF InTransfer, I2cAt
  <2>2. CASE x # t
    BY <1>2, <1>3, <2>2 DEF InTransfer, I2cAt
  <2> QED BY <2>1, <2>2
<1> QED BY <1>1, <1>4, <1>5 DEF I2cInv

-----------------------------------------------------------------------------
\* Conditions and addresses leave the thread inside its transfer.
LEMMA ConditionInv ==
  ASSUME I2cInv, NEW t \in I2cThreads, BitStart(t) \/ BitRestart(t)
  PROVE  I2cInv'
<1>1. UNCHANGED i2c_lock /\ ~I2cAt(t, "idle")
  BY DEF BitStart, BitRestart, I2cRestart, I2cAt
<1>2. PICK l \in {"addr", "addr_r"} : xfer' = [xfer EXCEPT ![t].at = l]
  BY DEF BitStart, BitRestart, I2cRestart, I2cGoto
<1>3. I2cCall([xfer[t] EXCEPT !.at = l])
  BY <1>1 DEF I2cInv, InTransfer, I2cCall
<1>4. PICK r : r = [xfer[t] EXCEPT !.at = l]
  OBVIOUS
<1>5. I2cCall(r) /\ r.at # "done" /\ xfer' = [xfer EXCEPT ![t] = r]
  BY <1>1, <1>2, <1>3, <1>4 DEF I2cInv, InTransfer, I2cCall
<1> QED BY <1>1, <1>5, HolderStep

LEMMA AddressInv ==
  ASSUME I2cInv, NEW t \in I2cThreads, NEW stage \in {"addr", "addr_2", "addr_r"},
         NEW out, BitAddress(t, stage, out) \/ BitRetry(t, stage, out)
  PROVE  I2cInv'
<1>1. UNCHANGED i2c_lock /\ ~I2cAt(t, "idle")
  BY DEF BitAddress, BitRetry, I2cAt
<1>2. I2cCall(xfer[t]) /\ xfer[t].at = stage
  BY <1>1 DEF I2cInv, InTransfer, BitAddress, BitRetry, I2cAt
<1>3. AfterAddress(t, stage) \in {"data", "addr_2", "addr_10r"}
  BY DEF AfterAddress
<1>4. PICK r : /\ xfer' = [xfer EXCEPT ![t] = r]
               /\ \/ r = [xfer[t] EXCEPT !.at = AfterAddress(t, stage), !.tries = 0]
                  \/ r = Failed(xfer[t])
                  \/ r = [xfer[t] EXCEPT !.tries = @ + 1]
  BY DEF BitAddress, BitRetry
<1>5. I2cCall(r) /\ r.at # "done"
  BY <1>2, <1>3, <1>4, FailedCall DEF I2cCall
<1> QED BY <1>1, <1>4, <1>5, HolderStep

\* A byte, which may be the last of its message or of the transfer.
LEMMA DataInv ==
  ASSUME I2cInv, NEW t \in I2cThreads, NEW out, BitSend(t, out) \/ BitRecv(t, out)
  PROVE  I2cInv'
<1>1. UNCHANGED i2c_lock /\ ~I2cAt(t, "idle") /\ xfer[t].at = "data"
  BY DEF BitSend, BitRecv, I2cAt
<1>2. I2cCall(xfer[t])
  BY <1>1 DEF I2cInv, InTransfer
<1>3. PICK r : /\ xfer' = [xfer EXCEPT ![t] = r]
               /\ r \in {Advance(Counted(t)), Advance(xfer[t]), Failed(xfer[t])}
  BY DEF BitSend, BitRecv
<1>4. I2cCall(Counted(t)) /\ Counted(t).at = "data"
  BY <1>1, <1>2 DEF I2cCall, Counted
<1>5. I2cCall(r) /\ r.at # "done"
  BY <1>1, <1>2, <1>3, <1>4, AdvanceCall, FailedCall
<1> QED BY <1>1, <1>3, <1>5, HolderStep

\* The stop condition frees the lines.
LEMMA StopInv ==
  ASSUME I2cInv, NEW t \in I2cThreads, BitStop(t)
  PROVE  I2cInv'
<1>1. UNCHANGED i2c_lock /\ xfer[t].at = "stop" /\ ~I2cAt(t, "idle")
      /\ xfer' = [xfer EXCEPT ![t].at = "done"]
  BY DEF BitStop, I2cAt, I2cGoto
<1>2. I2cCall(xfer[t])
  BY <1>1 DEF I2cInv, InTransfer
<1>3. "NO_STOP" \notin Msg(t).flags
  <2>1. xfer[t].msgs[xfer[t].i] \in Stopping
    BY <1>2 DEF I2cCall
  <2> QED BY <2>1 DEF Msg, Stopping
<1>4. LinesFree'
  BY <1>3 DEF BitStop, LinesFree, Off
<1>5. PICK r : r = [xfer[t] EXCEPT !.at = "done"]
  OBVIOUS
<1>6. I2cCall(r) /\ xfer' = [xfer EXCEPT ![t] = r]
  BY <1>1, <1>2, <1>5 DEF I2cCall
<1> QED BY <1>1, <1>4, <1>6, HolderStep

\* Taking and giving back the lock.
LEMMA LockInv ==
  ASSUME StopsAlways, I2cInv, NEW t \in I2cThreads,
         \/ \E d \in I2cDevs : \E ms \in I2cLists(d) : rt_i2c_transfer(t, ms)
         \/ I2cReturn(t)
  PROVE  I2cInv'
<1>1. CASE I2cReturn(t)
  <2>1. i2c_lock = t /\ LinesFree /\ UNCHANGED <<sda, scl, wire>> /\ i2c_lock' = anyone
        /\ xfer' = [xfer EXCEPT ![t] = I2cIdle]
    BY <1>1 DEF I2cInv, InTransfer, I2cReturn, I2cAt
  <2>2. \A x \in I2cThreads : I2cAt(x, "idle")'
    BY <2>1, I2cAssumption DEF I2cInv, InTransfer, I2cAt, I2cIdle
  <2>3. xfer' = [x \in I2cThreads |-> xfer'[x]]
    BY <2>1 DEF I2cInv
  <2> QED BY <2>1, <2>2, <2>3 DEF I2cInv, InTransfer, LinesFree
<1>2. ASSUME NEW d \in I2cDevs, NEW ms \in I2cLists(d), rt_i2c_transfer(t, ms)
      PROVE  I2cInv'
  <2> DEFINE r == NewCall(ms)
  <2>1. i2c_lock = anyone /\ i2c_lock' = t /\ xfer' = [xfer EXCEPT ![t] = r]
    BY <1>2 DEF rt_i2c_transfer
  <2>2. \A x \in I2cThreads : I2cAt(x, "idle")
    BY <2>1, I2cAssumption DEF I2cInv, InTransfer
  <2>3. I2cCall(r) /\ r.at = "start"
    <3>1. ms \in Seq(Stopping) /\ 1 \in 1 .. Len(ms)
      BY ListsStop
    <3> QED BY <3>1 DEF I2cCall, NewCall
  <2> HIDE DEF r
  <2>4. xfer'[t] = r /\ \A x \in I2cThreads : x # t => xfer'[x] = xfer[x]
    BY <2>1 DEF I2cInv
  <2>5. ASSUME NEW x \in I2cThreads PROVE InTransfer(x)'
    <3>1. CASE x = t
      BY <2>1, <2>3, <2>4, <3>1 DEF InTransfer, I2cAt
    <3>2. CASE x # t
      BY <2>2, <2>4, <3>2 DEF InTransfer, I2cAt
    <3> QED BY <3>1, <3>2
  <2>6. xfer' = [x \in I2cThreads |-> xfer'[x]] /\ i2c_lock' # anyone
    BY <2>1, I2cAssumption DEF I2cInv
  <2> QED BY <2>5, <2>6 DEF I2cInv
<1> QED BY <1>1, <1>2

LEMMA I2cInvariant == StopsAlways => (I2cSpec => []I2cInv)
<1> SUFFICES ASSUME StopsAlways PROVE I2cSpec => []I2cInv
  OBVIOUS
<1>1. I2cInit => I2cInv
  BY DEF I2cInit, I2cInv, InTransfer, I2cAt, I2cIdle, LinesFree, StopsAlways
<1>2. I2cInv /\ [I2cNext]_i2c_vars => I2cInv'
  <2> SUFFICES ASSUME I2cInv, [I2cNext]_i2c_vars PROVE I2cInv'
    OBVIOUS
  <2>1. CASE UNCHANGED i2c_vars
    BY <2>1 DEF i2c_vars, I2cInv, InTransfer, I2cAt, LinesFree
  <2>2. CASE I2cNext
    BY <2>2, ConditionInv, AddressInv, DataInv, StopInv, LockInv DEF I2cNext
  <2> QED BY <2>1, <2>2
<1> QED BY <1>1, <1>2, PTL DEF I2cSpec

(* Both lines are high and the devices have seen a stop condition whenever *)
(* nobody holds the lock of the bus (i2c_core.c:71-91,                     *)
(* i2c-bit-ops.c:438-443).                                                 *)
THEOREM I2cBusFreed == StopsAlways => (I2cSpec => []I2cFreed)
<1> SUFFICES ASSUME StopsAlways PROVE I2cSpec => []I2cFreed
  OBVIOUS
<1>1. I2cInv => I2cFreed
  BY DEF I2cInv, I2cFreed, LinesFree
<1> QED BY <1>1, I2cInvariant, PTL
-----------------------------------------------------------------------------
\* The sum of LenTotal, which takes the last message first.
LEMMA LenTotalOK ==
  ASSUME NEW ms, Len(ms) \in {1, 2}, ms \in Seq(Stopping)
  PROVE  LenTotal(ms) = ms[1].len + (IF Len(ms) = 1 THEN 0 ELSE ms[2].len)
<1> DEFINE D == DOMAIN ms
           Sums(g) == g = [s \in SUBSET D |->
                            IF s = {} THEN 0 ELSE g[s \ {Max(s)}] + ms[Max(s)].len]
           h == [s \in SUBSET D |-> (IF 1 \in s THEN ms[1].len ELSE 0)
                                    + (IF 2 \in s THEN ms[2].len ELSE 0)]
<1>1. LenTotal(ms) = (CHOOSE g : Sums(g))[D]
  BY DEF LenTotal, FoldLeft, MapThenFoldSet
<1>2. D \in {{1}, {1, 2}} /\ (D = {1} <=> Len(ms) = 1)
  OBVIOUS
<1>3. \A s \in SUBSET D : s # {} => Max(s) = IF 2 \in s THEN 2 ELSE 1
  BY <1>2 DEF Max
<1>4. \A i \in D : ms[i].len \in Nat
  <2>1. \A i \in D : ms[i] \in Stopping
    OBVIOUS
  <2> QED BY <2>1 DEF Stopping
<1>5. Sums(h)
  <2> SUFFICES ASSUME NEW s \in SUBSET D
               PROVE  h[s] = IF s = {} THEN 0 ELSE h[s \ {Max(s)}] + ms[Max(s)].len
    OBVIOUS
  <2>1. s \in {{}, {1}, {2}, {1, 2}}
    BY <1>2
  <2> QED BY <1>2, <1>3, <1>4, <2>1
<1>6. Sums(CHOOSE g : Sums(g))
  <2> HIDE DEF Sums
  <2> QED BY <1>5
<1>7. PICK g : Sums(g) /\ LenTotal(ms) = g[D]
  <2> HIDE DEF Sums
  <2> QED BY <1>1, <1>6
<1> HIDE DEF h
<1>8. g[{}] = 0 /\ g[{1}] = g[{}] + ms[1].len
  <2>1. {} \in SUBSET D /\ {1} \in SUBSET D /\ {1} \ {1} = {} /\ {1} # {}
    BY <1>2
  <2>2. Max({1}) = 1
    BY <1>3, <2>1
  <2>3. g[{}] = 0
    BY <1>7, <2>1
  <2>4. g[{1}] = g[{1} \ {Max({1})}] + ms[Max({1})].len
    BY <1>7, <2>1
  <2> QED BY <2>1, <2>2, <2>3, <2>4
<1>9. D = {1, 2} => g[D] = g[{1}] + ms[2].len
  <2>1. D = {1, 2} => D \in SUBSET D /\ D \ {2} = {1} /\ Max(D) = 2 /\ D # {}
    BY <1>3
  <2>2. D # {} => g[D] = g[D \ {Max(D)}] + ms[Max(D)].len
    BY <1>7
  <2> HIDE DEF D
  <2> QED BY <2>1, <2>2
<1> QED BY <1>2, <1>4, <1>7, <1>8, <1>9

-----------------------------------------------------------------------------
\* A later message is for the same device, and goes on without a start only
\* where bytes are written.
Lists(ms) ==
  \/ Len(ms) = 1 /\ "NO_START" \notin ms[1].flags
  \/ /\ Len(ms) = 2 /\ ms[1].dev = ms[2].dev
     /\ ms[1].flags \cap {"RD", "NO_START", "IGNORE_NACK"} = {}
     /\ "IGNORE_NACK" \notin ms[2].flags
     /\ "NO_START" \in ms[2].flags => "RD" \notin ms[2].flags

\* The bytes of the earlier messages, and those of this one.
Due(x) == (IF x.i = 1 THEN 0 ELSE x.msgs[1].len) + (x.msgs[x.i].len - x.left)

\* What the devices have seen before each step of a call that minds its answers.
Following(x) ==
  LET m == x.msgs[x.i]
  IN
  /\ x.at \in {"start", "addr", "addr_2", "addr_10r", "addr_r", "data", "stop", "done"}
  /\ x.at \notin {"stop", "done"} =>
       x.left \in 1 .. m.len /\ x.moved = Due(x) /\ x.ret = "none"
  /\ x.at = "start" /\ x.i = 1 => LinesFree
  /\ x.at \in {"addr", "addr_r"} => wire.st = "start"
  /\ x.at = "addr_2" => wire.st = "ten" /\ m.dev \in TenBit
  /\ x.at \in {"addr_10r", "addr_r"} => "RD" \in m.flags
  /\ x.at = "data" => wire = [st |-> Direction(m), d |-> m.dev]
  /\ x.ret = "all" => x.moved = LenTotal(x.msgs)

Minds(x) == "IGNORE_NACK" \notin x.msgs[x.i].flags

Followed(x) == Lists(x.msgs) /\ (Minds(x) => Following(x))

I2cFollowed == \A t \in I2cThreads : ~I2cAt(t, "idle") => Followed(xfer[t])

LEMMA ListsOK ==
  ASSUME StopsAlways, NEW d \in I2cDevs, NEW ms \in I2cLists(d)
  PROVE  Lists(ms)
<1>1. \/ ms = <<I2cMsg(d, {}, 2)>> \/ ms = <<I2cMsg(d, {"RD"}, 2)>>
      \/ ms = <<I2cMsg(d, {}, 1), I2cMsg(d, {"RD"}, 2)>>
      \/ ms = <<I2cMsg(d, {}, 1), I2cMsg(d, {"NO_START"}, 1)>>
      \/ ms = <<I2cMsg(d, {"IGNORE_NACK"}, 2)>>
  BY DEF I2cLists, StopsAlways
<1>2. ASSUME NEW m, ms = <<m>> PROVE Len(ms) = 1 /\ ms[1] = m
  BY <1>2
<1>3. ASSUME NEW m, NEW n, ms = <<m, n>> PROVE Len(ms) = 2 /\ ms[1] = m /\ ms[2] = n
  BY <1>3
<1>4. CASE ms = <<I2cMsg(d, {}, 2)>>
  BY <1>2, <1>4 DEF Lists, I2cMsg
<1>5. CASE ms = <<I2cMsg(d, {"RD"}, 2)>>
  BY <1>2, <1>5 DEF Lists, I2cMsg
<1>6. CASE ms = <<I2cMsg(d, {}, 1), I2cMsg(d, {"RD"}, 2)>>
  BY <1>3, <1>6 DEF Lists, I2cMsg
<1>7. CASE ms = <<I2cMsg(d, {}, 1), I2cMsg(d, {"NO_START"}, 1)>>
  BY <1>3, <1>7 DEF Lists, I2cMsg
<1>8. CASE ms = <<I2cMsg(d, {"IGNORE_NACK"}, 2)>>
  BY <1>2, <1>8 DEF Lists, I2cMsg
<1> QED BY <1>1, <1>4, <1>5, <1>6, <1>7, <1>8

\* Only the thread that holds the lock moves the lines.
LEMMA FollowedStep ==
  ASSUME I2cInv, I2cFollowed, NEW t \in I2cThreads, ~I2cAt(t, "idle"), NEW r,
         xfer' = [xfer EXCEPT ![t] = r], Followed(r)'
  PROVE  I2cFollowed'
<1>1. i2c_lock = t /\ i2c_lock # anyone
  BY I2cAssumption DEF I2cInv, InTransfer
<1>2. xfer'[t] = r /\ \A x \in I2cThreads : x # t => xfer'[x] = xfer[x]
  BY DEF I2cInv
<1>3. \A x \in I2cThreads : x # t => I2cAt(x, "idle")
  BY <1>1 DEF I2cInv, InTransfer
<1>4. ASSUME NEW x \in I2cThreads, ~I2cAt(x, "idle")' PROVE Followed(xfer[x])'
  <2>1. x = t
    BY <1>2, <1>3, <1>4 DEF I2cAt
  <2>2. xfer'[x] = r
    BY <1>2, <2>1
  <2> QED BY <2>2 DEF Followed, Following, Minds, Due, LinesFree
<1> QED BY <1>4 DEF I2cFollowed

\* The call of a thread at work, field by field.
LEMMA CallFacts ==
  ASSUME I2cInv, I2cFollowed, NEW t \in I2cThreads, ~I2cAt(t, "idle")
  PROVE  /\ I2cCall(xfer[t]) /\ Followed(xfer[t])
         /\ Msg(t) = xfer[t].msgs[xfer[t].i] /\ Msg(t) \in Stopping
         /\ xfer[t].i \in 1 .. Len(xfer[t].msgs) /\ Len(xfer[t].msgs) \in {1, 2}
         /\ IgnoreNack(t) <=> ~Minds(xfer[t])
<1>1. I2cCall(xfer[t]) /\ Followed(xfer[t])
  BY DEF I2cInv, InTransfer, I2cFollowed
<1>2. xfer[t].msgs[xfer[t].i] \in Stopping
  BY <1>1 DEF I2cCall
<1> QED BY <1>1, <1>2 DEF I2cCall, Followed, Lists, Msg, IgnoreNack, Minds

\* Every start condition is seen: the first one of a call finds both lines high.
LEMMA ConditionFollowed ==
  ASSUME "stretch_restart" \notin I2cFaults, I2cInv, I2cFollowed, NEW t \in I2cThreads,
         BitStart(t) \/ BitRestart(t)
  PROVE  I2cFollowed'
<1>1. ~I2cAt(t, "idle")
  BY DEF BitStart, BitRestart, I2cAt
<1>2. PICK l \in {"addr", "addr_r"} : xfer' = [xfer EXCEPT ![t].at = l]
                                      /\ (l = "addr_r" => xfer[t].at = "addr_10r")
                                      /\ xfer[t].at \in {"start", "addr_10r"}
  BY DEF BitStart, BitRestart, I2cRestart, I2cGoto, I2cAt
<1>3. Minds(xfer[t]) => wire'.st = "start"
  <2>1. Followed(xfer[t])
    BY <1>1, CallFacts
  <2>2. CASE BitStart(t)
    BY <2>1, <2>2 DEF BitStart, Started, Followed, Following, LinesFree, I2cAt
  <2>3. CASE BitRestart(t)
    BY <2>1, <2>3 DEF BitRestart, I2cRestart, Started, Followed, Following, LinesFree, I2cAt
  <2> QED BY <2>2, <2>3
<1>4. PICK r : r = [xfer[t] EXCEPT !.at = l]
  OBVIOUS
<1>5. I2cCall(xfer[t]) /\ Followed(xfer[t])
  BY <1>1, CallFacts
<1>6. /\ r.at = l /\ r.msgs = xfer[t].msgs /\ r.i = xfer[t].i /\ r.left = xfer[t].left
      /\ r.moved = xfer[t].moved /\ r.ret = xfer[t].ret
      /\ xfer' = [xfer EXCEPT ![t] = r]
  BY <1>2, <1>4, <1>5 DEF I2cCall
<1>7. Followed(r)'
  <2>1. Lists(r.msgs) /\ (Minds(r) <=> Minds(xfer[t])) /\ Due(r) = Due(xfer[t])
    BY <1>5, <1>6 DEF Followed, Minds, Due
  <2>2. r.at = "addr_r" => xfer[t].at = "addr_10r"
    BY <1>2, <1>6
  <2>3. ASSUME Minds(r)
        PROVE  Following(r)'
    <3>1. Following(xfer[t]) /\ wire'.st = "start" /\ xfer[t].at \in {"start", "addr_10r"}
      BY <1>2, <1>3, <1>5, <2>1, <2>3 DEF Followed
    <3>2. r.at \in {"addr", "addr_r"}
      BY <1>6
    <3> QED BY <1>6, <2>1, <2>2, <3>1, <3>2 DEF Following, Due
  <2> QED BY <2>1, <2>3 DEF Followed, Minds
<1> QED BY <1>1, <1>6, <1>7, FollowedStep

\* Whatever the devices have seen, a call that failed is not misled.
LEMMA FailedFollowed ==
  ASSUME NEW x, I2cCall(x), Lists(x.msgs), NEW r, r = Failed(x)
  PROVE  Followed(r)'
<1>1. r.at = "stop" /\ r.ret = "error" /\ r.msgs = x.msgs /\ r.i = x.i
  BY DEF I2cCall, Failed
<1> QED BY <1>1 DEF Followed, Following

\* A byte that is acknowledged was taken as what the master meant.
LEMMA AddressTaken ==
  ASSUME NEW m, NEW stage \in {"addr", "addr_2", "addr_r"}, Taken(m, stage) # Unheard,
         wire.st = IF stage = "addr_2" THEN "ten" ELSE "start",
         stage = "addr_2" => m.dev \in TenBit, stage = "addr_r" => "RD" \in m.flags
  PROVE  /\ stage = "addr" /\ m.dev \in TenBit => Taken(m, stage).st = "ten"
         /\ stage = "addr" /\ m.dev \notin TenBit =>
              Taken(m, stage) = [st |-> Direction(m), d |-> m.dev]
         /\ stage = "addr_2" /\ "RD" \notin m.flags =>
              Taken(m, stage) = [st |-> Direction(m), d |-> m.dev]
         /\ stage = "addr_r" => Taken(m, stage) = [st |-> Direction(m), d |-> m.dev]
BY DEF Taken, Direction

LEMMA AddressFollowed ==
  ASSUME I2cInv, I2cFollowed, NEW t \in I2cThreads, NEW stage \in {"addr", "addr_2", "addr_r"},
         NEW out, BitAddress(t, stage, out) \/ BitRetry(t, stage, out)
  PROVE  I2cFollowed'
<1> DEFINE m == Msg(t)
<1>1. ~I2cAt(t, "idle") /\ xfer[t].at = stage
  BY DEF BitAddress, BitRetry, I2cAt
<1>2. /\ I2cCall(xfer[t]) /\ Followed(xfer[t]) /\ m = xfer[t].msgs[xfer[t].i]
      /\ IgnoreNack(t) <=> ~Minds(xfer[t])
  BY <1>1, CallFacts
<1>3. ASSUME Minds(xfer[t])
      PROVE  /\ wire.st = IF stage = "addr_2" THEN "ten" ELSE "start"
             /\ stage = "addr_2" => m.dev \in TenBit
             /\ stage = "addr_r" => "RD" \in m.flags
  BY <1>1, <1>2, <1>3 DEF Followed, Following
<1> HIDE DEF m
<1>4. CASE BitRetry(t, stage, out)
  <2>1. PICK r : r = [xfer[t] EXCEPT !.tries = @ + 1]
    OBVIOUS
  <2>2. /\ r.at = stage /\ r.msgs = xfer[t].msgs /\ r.i = xfer[t].i
        /\ r.left = xfer[t].left /\ r.moved = xfer[t].moved /\ r.ret = xfer[t].ret
        /\ xfer' = [xfer EXCEPT ![t] = r]
    BY <1>1, <1>2, <1>4, <2>1 DEF I2cCall, BitRetry
  <2>3. wire'.st = "start" /\ stage # "addr_2"
    BY <1>4 DEF BitRetry, Started
  <2>4. Followed(r)'
    BY <1>1, <1>2, <2>2, <2>3 DEF Followed, Following, Minds, Due
  <2> QED BY <1>1, <2>2, <2>4, FollowedStep
<1>5. CASE BitAddress(t, stage, out) /\ ~(out = "ack" \/ IgnoreNack(t))
  <2>1. PICK r : r = Failed(xfer[t]) /\ xfer' = [xfer EXCEPT ![t] = r]
    BY <1>5 DEF BitAddress
  <2>2. Followed(r)'
    BY <1>2, <2>1, FailedFollowed DEF Followed
  <2> QED BY <1>1, <2>1, <2>2, FollowedStep
<1>6. CASE BitAddress(t, stage, out) /\ (out = "ack" \/ IgnoreNack(t))
  <2> DEFINE l == AfterAddress(t, stage)
  <2>1. PICK r : r = [xfer[t] EXCEPT !.at = l, !.tries = 0]
    OBVIOUS
  <2>2. /\ r.at = l /\ r.msgs = xfer[t].msgs /\ r.i = xfer[t].i
        /\ r.left = xfer[t].left /\ r.moved = xfer[t].moved /\ r.ret = xfer[t].ret
    BY <1>2, <2>1 DEF I2cCall
  <2>3. xfer' = [xfer EXCEPT ![t] = r]
    BY <1>6, <2>1 DEF BitAddress
  <2>4. CASE ~Minds(xfer[t])
    <3>1. Followed(r)'
      BY <1>2, <2>2, <2>4 DEF Followed, Minds
    <3> QED BY <1>1, <2>3, <3>1, FollowedStep
  <2>5. CASE Minds(xfer[t])
    <3>1. wire' = Taken(m, stage) /\ Taken(m, stage) # Unheard
      BY <1>2, <1>6, <2>5 DEF BitAddress, WriteByte, m
    <3>2. /\ l = IF m.dev \notin TenBit \/ stage = "addr_r" THEN "data"
                 ELSE IF stage = "addr" THEN "addr_2"
                 ELSE IF "RD" \in m.flags THEN "addr_10r" ELSE "data"
      BY DEF AfterAddress, m
    <3>3. /\ l = "data" => wire' = [st |-> Direction(m), d |-> m.dev]
          /\ l = "addr_2" => wire'.st = "ten" /\ m.dev \in TenBit
          /\ l = "addr_10r" => "RD" \in m.flags
          /\ l \in {"data", "addr_2", "addr_10r"}
      BY <1>3, <2>5, <3>1, <3>2, AddressTaken
    <3>4. Followed(r)'
      BY <1>1, <1>2, <2>2, <3>3 DEF Followed, Following, Minds, Due
    <3> QED BY <1>1, <2>3, <3>4, FollowedStep
  <2> QED BY <2>4, <2>5
<1> QED BY <1>4, <1>5, <1>6

\* A byte more, which was the right device's: the call goes on, to the next message,
\* or ends with all of them.
LEMMA AdvanceFollowed ==
  ASSUME NEW x, I2cCall(x), Followed(x), x.at = "data", NEW n,
         Minds(x) => /\ n = 1
                     /\ x.left > 1 \/ "RD" \notin x.msgs[x.i].flags => wire' = wire,
         NEW r, r = Advance([x EXCEPT !.moved = @ + n])
  PROVE  Followed(r)'
<1> DEFINE m == x.msgs[x.i]
<1>1. PICK y : y = [x EXCEPT !.moved = @ + n]
  OBVIOUS
<1>2. /\ I2cCall(y) /\ y.at = "data" /\ y.msgs = x.msgs /\ y.i = x.i /\ y.left = x.left
      /\ y.moved = x.moved + n /\ y.ret = x.ret
  BY <1>1 DEF I2cCall
<1>3. /\ Len(x.msgs) \in {1, 2} /\ x.i \in 1 .. Len(x.msgs) /\ x.msgs \in Seq(Stopping)
      /\ Len(x.msgs) = 2 => ~("IGNORE_NACK" \in x.msgs[1].flags)
                              /\ ~("IGNORE_NACK" \in x.msgs[2].flags)
  BY DEF I2cCall, Followed, Lists
<1>4. \A i \in 1 .. Len(x.msgs) : x.msgs[i] \in Stopping
  BY <1>3
<1>5. /\ x.i = 1 \/ (x.i = 2 /\ Len(x.msgs) = 2)
      /\ \A i \in 1 .. Len(x.msgs) : x.msgs[i].len \in 1 .. 2
  <2>1. \A e \in Stopping : e.len \in 1 .. 2
    BY DEF Stopping
  <2>2. Len(x.msgs) = 1 => x.i \in 1 .. 1
    BY <1>3
  <2>3. Len(x.msgs) = 2 => x.i \in 1 .. 2
    BY <1>3
  <2>4. Len(x.msgs) = 1 \/ Len(x.msgs) = 2
    BY <1>3
  <2>5. x.i = 1 \/ (x.i = 2 /\ Len(x.msgs) = 2)
    BY <2>2, <2>3, <2>4
  <2> QED BY <1>4, <2>1, <2>5
<1>6. ASSUME Minds(x)
      PROVE  /\ x.left \in 1 .. m.len /\ x.moved = Due(x) /\ x.ret = "none"
             /\ wire = [st |-> Direction(m), d |-> m.dev]
  BY <1>6 DEF Followed, Following
<1>7. r = Advance(y)
  BY <1>1
<1>8. CASE x.left > 1
  <2>1. /\ r.at = "data" /\ r.msgs = x.msgs /\ r.i = x.i /\ r.left = x.left - 1
        /\ r.moved = x.moved + n /\ r.ret = x.ret
    BY <1>2, <1>7, <1>8 DEF Advance, I2cCall
  <2>2. CASE Minds(x)
    <3>1. r.left \in 1 .. m.len /\ r.moved = Due(r)
      <4> DEFINE b == IF x.i = 1 THEN 0 ELSE x.msgs[1].len
      <4>1. m.len \in 1 .. 2 /\ b \in 0 .. 2
        BY <1>3, <1>5
      <4>2. x.moved = b + (m.len - x.left) /\ Due(r) = b + (m.len - r.left)
        BY <1>6, <2>1, <2>2 DEF Due
      <4> HIDE DEF b, m
      <4> QED BY <1>6, <1>8, <2>1, <2>2, <4>1, <4>2
    <3>2. wire' = [st |-> Direction(m), d |-> m.dev]
      BY <1>6, <1>8, <2>2
    <3> QED BY <1>6, <2>1, <2>2, <3>1, <3>2 DEF Followed, Following, Minds, Due
  <2>3. CASE ~Minds(x)
    BY <2>1, <2>3 DEF Followed, Minds
  <2> QED BY <2>2, <2>3
<1>9. CASE ~(x.left > 1) /\ x.i = Len(x.msgs)
  <2>1. /\ r.at = "stop" /\ r.msgs = x.msgs /\ r.i = x.i
        /\ r.moved = x.moved + n /\ r.ret = "all"
    BY <1>2, <1>7, <1>9 DEF Advance, I2cCall
  <2>2. Minds(x) => r.moved = LenTotal(x.msgs)
    <3> SUFFICES ASSUME Minds(x) PROVE r.moved = LenTotal(x.msgs)
      OBVIOUS
    <3>1. x.left = 1 /\ n = 1
      BY <1>5, <1>6, <1>9
    <3>2. LenTotal(x.msgs) = x.msgs[1].len + (IF Len(x.msgs) = 1 THEN 0 ELSE x.msgs[2].len)
      BY <1>3, LenTotalOK
    <3>3. r.moved = (IF x.i = 1 THEN 0 ELSE x.msgs[1].len) + (x.msgs[x.i].len - 1) + 1
      BY <1>6, <2>1, <3>1 DEF Due
    <3> QED BY <1>5, <1>9, <3>2, <3>3
  <2> QED BY <2>1, <2>2 DEF Followed, Following, Minds
<1>10. CASE ~(x.left > 1) /\ x.i # Len(x.msgs)
  <2> DEFINE k == x.msgs[2]
             l == IF "NO_START" \in k.flags THEN "data" ELSE "start"
  <2>1. x.i = 1 /\ Len(x.msgs) = 2 /\ Minds(x)
    BY <1>3, <1>5, <1>10 DEF Minds
  <2>2. /\ r.at = l /\ r.msgs = x.msgs /\ r.i = 2 /\ r.left = k.len
        /\ r.moved = x.moved + n /\ r.ret = x.ret
    BY <1>2, <1>7, <1>10, <2>1 DEF Advance, I2cCall
  <2>3. x.left = 1 /\ n = 1 /\ x.moved = x.msgs[1].len - 1
    BY <1>5, <1>6, <1>10, <2>1 DEF Due
  <2>4. r.left \in 1 .. k.len /\ r.moved = Due(r) /\ r.ret = "none"
    <3>1. k.len \in 1 .. 2 /\ x.msgs[1].len \in 1 .. 2
      BY <1>5, <2>1
    <3>2. Due(r) = x.msgs[1].len + (k.len - r.left)
      BY <2>2 DEF Due
    <3> QED BY <1>6, <2>1, <2>2, <2>3, <3>1, <3>2
  <2>5. l = "data" => wire' = [st |-> Direction(k), d |-> k.dev]
    BY <1>6, <2>1 DEF Followed, Lists, Direction
  <2> QED BY <2>1, <2>2, <2>4, <2>5 DEF Followed, Following, Minds, Due
<1> QED BY <1>8, <1>9, <1>10

LEMMA DataFollowed ==
  ASSUME I2cInv, I2cFollowed, NEW t \in I2cThreads, NEW out,
         BitSend(t, out) \/ BitRecv(t, out)
  PROVE  I2cFollowed'
<1> DEFINE m == Msg(t)
<1>1. ~I2cAt(t, "idle") /\ xfer[t].at = "data"
  BY DEF BitSend, BitRecv, I2cAt
<1>2. /\ I2cCall(xfer[t]) /\ Followed(xfer[t]) /\ m = xfer[t].msgs[xfer[t].i]
      /\ IgnoreNack(t) <=> ~Minds(xfer[t])
  BY <1>1, CallFacts
<1>3. Minds(xfer[t]) => wire = [st |-> Direction(m), d |-> m.dev]
  BY <1>1, <1>2 DEF Followed, Following
<1>4. PICK r : /\ xfer' = [xfer EXCEPT ![t] = r]
               /\ \/ out = "ack" /\ r = Advance(Counted(t))
                  \/ IgnoreNack(t) /\ r = Advance(xfer[t])
                  \/ r = Failed(xfer[t])
  BY DEF BitSend, BitRecv
<1>5. CASE out = "ack" /\ r = Advance(Counted(t))
  <2>1. PICK n : /\ r = Advance([xfer[t] EXCEPT !.moved = @ + n])
                 /\ wire = [st |-> Direction(m), d |-> m.dev] => n = 1
    BY <1>5 DEF Counted
  <2>2. Minds(xfer[t]) /\ (xfer[t].left > 1 \/ "RD" \notin m.flags) => wire' = wire
    <3>1. CASE BitSend(t, out)
      BY <1>3, <1>5, <3>1 DEF BitSend, WriteByte, Taken, Direction
    <3>2. CASE BitRecv(t, out)
      BY <1>5, <3>2 DEF BitRecv
    <3> QED BY <3>1, <3>2
  <2>3. Followed(r)'
    BY <1>1, <1>2, <1>3, <2>1, <2>2, AdvanceFollowed
  <2> QED BY <1>1, <1>4, <2>3, FollowedStep
<1>6. CASE IgnoreNack(t) /\ r = Advance(xfer[t])
  <2>1. Len(xfer[t].msgs) = 1 /\ xfer[t].i = 1 /\ ~Minds(xfer[t])
    BY <1>2, <1>6 DEF Followed, Lists, Minds, I2cCall
  <2>2. r.msgs = xfer[t].msgs /\ r.i = xfer[t].i
    BY <1>2, <1>6, <2>1 DEF Advance, I2cCall
  <2>3. Followed(r)'
    BY <1>2, <2>1, <2>2 DEF Followed, Minds
  <2> QED BY <1>1, <1>4, <2>3, FollowedStep
<1>7. CASE r = Failed(xfer[t])
  <2>1. Followed(r)'
    BY <1>2, <1>7, FailedFollowed DEF Followed
  <2> QED BY <1>1, <1>4, <2>1, FollowedStep
<1> QED BY <1>4, <1>5, <1>6, <1>7

LEMMA StopFollowed ==
  ASSUME I2cInv, I2cFollowed, NEW t \in I2cThreads, BitStop(t)
  PROVE  I2cFollowed'
<1>1. ~I2cAt(t, "idle") /\ xfer[t].at = "stop" /\ xfer' = [xfer EXCEPT ![t].at = "done"]
  BY DEF BitStop, I2cAt, I2cGoto
<1>2. I2cCall(xfer[t]) /\ Followed(xfer[t])
  BY <1>1, CallFacts
<1>3. PICK r : r = [xfer[t] EXCEPT !.at = "done"]
  OBVIOUS
<1>4. /\ r.at = "done" /\ r.msgs = xfer[t].msgs /\ r.i = xfer[t].i
      /\ r.moved = xfer[t].moved /\ r.ret = xfer[t].ret /\ xfer' = [xfer EXCEPT ![t] = r]
  BY <1>1, <1>2, <1>3 DEF I2cCall
<1>5. Followed(r)'
  BY <1>1, <1>2, <1>4 DEF Followed, Following, Minds
<1> QED BY <1>1, <1>4, <1>5, FollowedStep

\* A call starts when the lock, and with it the bus, is free.
LEMMA LockFollowed ==
  ASSUME StopsAlways, I2cInv, I2cFollowed, NEW t \in I2cThreads,
         \/ \E d \in I2cDevs : \E ms \in I2cLists(d) : rt_i2c_transfer(t, ms)
         \/ I2cReturn(t)
  PROVE  I2cFollowed'
<1>1. CASE I2cReturn(t)
  <2>1. i2c_lock = t /\ xfer' = [xfer EXCEPT ![t] = I2cIdle]
    BY <1>1 DEF I2cInv, InTransfer, I2cReturn, I2cAt
  <2>2. \A x \in I2cThreads : I2cAt(x, "idle")'
    BY <2>1, I2cAssumption DEF I2cInv, InTransfer, I2cAt, I2cIdle
  <2> QED BY <2>2 DEF I2cFollowed
<1>2. ASSUME NEW d \in I2cDevs, NEW ms \in I2cLists(d), rt_i2c_transfer(t, ms)
      PROVE  I2cFollowed'
  <2>1. /\ i2c_lock = anyone /\ xfer' = [xfer EXCEPT ![t] = NewCall(ms)]
        /\ UNCHANGED <<sda, scl, wire>> /\ LinesFree
    BY <1>2 DEF rt_i2c_transfer, I2cInv
  <2>2. PICK r : r = NewCall(ms)
    OBVIOUS
  <2>3. /\ r.at = "start" /\ r.msgs = ms /\ r.i = 1 /\ r.left = ms[1].len
        /\ r.moved = 0 /\ r.ret = "none"
    BY <2>2 DEF NewCall
  <2>4. ms \in Seq(Stopping) /\ 1 \in 1 .. Len(ms) /\ Lists(ms)
    BY ListsStop, ListsOK
  <2>5. ms[1] \in Stopping
    BY <2>4
  <2>6. r.left \in 1 .. ms[1].len /\ r.moved = Due(r)
    BY <2>3, <2>5 DEF Stopping, Due
  <2>7. LinesFree'
    BY <2>1 DEF LinesFree
  <2>8. Followed(r)'
    BY <2>3, <2>4, <2>6, <2>7 DEF Followed, Following, Due
  <2>9. xfer'[t] = r /\ \A x \in I2cThreads : x # t => I2cAt(x, "idle")'
    BY <2>1, <2>2, I2cAssumption DEF I2cInv, InTransfer, I2cAt
  <2>10. ASSUME NEW x \in I2cThreads, ~I2cAt(x, "idle")' PROVE Followed(xfer[x])'
    <3>1. xfer'[x] = r
      BY <2>9, <2>10
    <3> QED BY <2>8, <3>1 DEF Followed, Following, Minds, Due, LinesFree
  <2> QED BY <2>10 DEF I2cFollowed
<1> QED BY <1>1, <1>2

\* A transfer that returns the number of its messages has moved each of their bytes
\* to or from the device it names (I2cDelivered), provided that no device holds the
\* clock while the master makes a restart condition, which it does not look at.
THEOREM I2cAllMoved ==
  StopsAlways /\ "stretch_restart" \notin I2cFaults => (I2cSpec => []I2cDelivered)
<1> SUFFICES ASSUME StopsAlways, "stretch_restart" \notin I2cFaults
             PROVE  I2cSpec => []I2cDelivered
  OBVIOUS
<1>1. I2cInit => I2cFollowed
  BY DEF I2cInit, I2cFollowed, I2cAt, I2cIdle
<1>2. I2cInv /\ I2cFollowed /\ [I2cNext]_i2c_vars => I2cFollowed'
  <2> SUFFICES ASSUME I2cInv, I2cFollowed, [I2cNext]_i2c_vars PROVE I2cFollowed'
    OBVIOUS
  <2>1. CASE UNCHANGED i2c_vars
    <3> SUFFICES ASSUME NEW x \in I2cThreads, ~I2cAt(x, "idle")' PROVE Followed(xfer[x])'
      BY DEF I2cFollowed
    <3>1. xfer' = xfer /\ Followed(xfer[x])
      BY <2>1 DEF i2c_vars, I2cFollowed, I2cAt
    <3>2. Following(xfer[x]) => Following(xfer[x])'
      BY <2>1 DEF i2c_vars, Following, Due, LinesFree
    <3> QED BY <3>1, <3>2 DEF Followed, Minds
  <2>2. CASE I2cNext
    BY <2>2, ConditionFollowed, AddressFollowed, DataFollowed, StopFollowed, LockFollowed
       DEF I2cNext
  <2> QED BY <2>1, <2>2
<1>3. I2cInv /\ I2cFollowed => I2cDelivered
  <2> SUFFICES ASSUME I2cInv, I2cFollowed, NEW t \in I2cThreads,
                      I2cAt(t, "done"), xfer[t].ret = "all", ~IgnoreNack(t)
               PROVE  xfer[t].moved = LenTotal(xfer[t].msgs)
    BY DEF I2cDelivered
  <2>1. ~I2cAt(t, "idle")
    BY DEF I2cAt
  <2> QED BY <2>1, CallFacts DEF Followed, Following
<1> QED BY <1>1, <1>2, <1>3, I2cInvariant, PTL DEF I2cSpec

-----------------------------------------------------------------------------
(* The converter: when the threads take turns.                             *)
AdcPlaces == {"idle", "convert", "start", "wait", "get", "clear"}

\* Only the thread whose call it is has a conversion under way, and it is one of
\* the channel that the call asks for.
AdcInv ==
  /\ apc \in [AdcThreads -> AdcPlaces] /\ eoc \in BOOLEAN /\ on \in BOOLEAN
  /\ DOMAIN value = AdcThreads /\ DOMAIN result = AdcThreads /\ DOMAIN pos = AdcThreads
  /\ \A t, x \in AdcThreads : apc[t] # "idle" /\ apc[x] # "idle" => t = x
  /\ eoc \/ busy # none => \E t \in AdcThreads : apc[t] \in {"wait", "get"}
  /\ \A t \in AdcThreads :
       /\ apc[t] # "idle" => on
       /\ apc[t] = "start" => selected = pos[t]
       /\ apc[t] = "wait" => IF eoc THEN busy = none /\ dr = pos[t] ELSE busy = pos[t]
       /\ apc[t] = "get" => eoc /\ busy = none /\ dr = pos[t]
       /\ apc[t] = "clear" => value[t] = result[t]

LEMMA AdcNextInv ==
  ASSUME AdcTurns, AdcInv, AdcNext
  PROVE  AdcInv'
<1>1. CASE AdcConvert
  BY <1>1 DEF AdcConvert, AdcInv, Call
<1>2. ASSUME NEW t \in AdcThreads, NEW enable \in BOOLEAN, AdcEnabled(t, enable) PROVE AdcInv'
  BY <1>2 DEF AdcEnabled, AdcBegin, AdcInv, Call
<1>3. ASSUME NEW t \in AdcThreads, NEW c \in Inputs, NEW n \in {1, 2}, AdcRead(t, c, n) PROVE AdcInv'
  BY <1>3 DEF AdcRead, AdcBegin, AdcGoto, AdcInv, AdcPlaces
<1>4. ASSUME NEW t \in AdcThreads, AdcSelect(t) PROVE AdcInv'
  BY <1>4 DEF AdcSelect, AdcGoto, AdcInv, AdcPlaces, Call
<1>5. ASSUME NEW t \in AdcThreads, AdcStart(t) PROVE AdcInv'
  BY <1>5 DEF AdcStart, AdcGoto, AdcInv, AdcPlaces, Call
<1>6. ASSUME NEW t \in AdcThreads, AdcWait(t) PROVE AdcInv'
  BY <1>6 DEF AdcWait, AdcGoto, AdcInv, AdcPlaces, Call
<1>7. ASSUME NEW t \in AdcThreads, AdcGet(t) PROVE AdcInv'
  BY <1>7 DEF AdcGet, AdcGoto, AdcInv, AdcPlaces, Call
<1>8. ASSUME NEW t \in AdcThreads, AdcClear(t) PROVE AdcInv'
  <2>1. /\ eoc' = FALSE /\ DOMAIN pos' = AdcThreads
        /\ \A x \in AdcThreads : x # t => pos'[x] = pos[x]
        /\ UNCHANGED <<on, selected, busy, dr, value, result>>
    BY <1>8 DEF AdcClear, AdcInv
  <2>2. PICK l \in {"idle", "convert"} : apc' = [apc EXCEPT ![t] = l]
    BY <1>8 DEF AdcClear, AdcGoto
  <2>3. apc' \in [AdcThreads -> AdcPlaces] /\ apc[t] = "clear" /\ apc'[t] = l
        /\ \A x \in AdcThreads : x # t => apc[x] = "idle" /\ apc'[x] = "idle"
    BY <1>8, <2>2 DEF AdcClear, AdcInv, AdcPlaces
  <2>4. ~eoc' /\ busy' = none
    BY <1>8, <2>1, <2>3 DEF AdcInv
  <2>5. on /\ on' = on /\ on \in BOOLEAN
    BY <2>1, <2>3 DEF AdcInv
  <2>6. DOMAIN value' = AdcThreads /\ DOMAIN result' = AdcThreads
    BY <2>1 DEF AdcInv
  <2>7. \A x, y \in AdcThreads : apc'[x] # "idle" /\ apc'[y] # "idle" => x = y
    BY <2>3
  <2>8. \A x \in AdcThreads : apc'[x] \in {"idle", "convert"} /\ (apc'[x] # "idle" => on')
    BY <2>2, <2>3, <2>5
  <2> QED BY <2>1, <2>3, <2>4, <2>5, <2>6, <2>7, <2>8 DEF AdcInv
<1> QED BY <1>1, <1>2, <1>3, <1>4, <1>5, <1>6, <1>7, <1>8 DEF AdcNext

\* A read returns a conversion of the channel it asked for (AdcRight).
THEOREM AdcReads == AdcTurns => (AdcSpec => []AdcRight)
<1> SUFFICES ASSUME AdcTurns PROVE AdcSpec => []AdcRight
  OBVIOUS
<1>1. AdcInit => AdcInv
  BY DEF AdcInit, AdcInv, AdcPlaces
<1>2. AdcInv /\ [AdcNext]_adc_vars => AdcInv'
  BY AdcNextInv DEF AdcInv, adc_vars
<1>3. AdcInv => AdcRight
  BY DEF AdcInv, AdcRight
<1> QED BY <1>1, <1>2, <1>3, PTL DEF AdcSpec

-----------------------------------------------------------------------------
(* The watchdog: for any clock and any timeouts that the reload register   *)
(* holds.                                                                  *)

\* The division that the driver makes of a timeout is undone to a second.
LEMMA Times ==
  ASSUME NEW n \in Nat, NEW a \in Int, NEW b \in Int, a <= b
  PROVE  n * a <= n * b
<1>1. b - a \in Nat /\ n * (b - a) >= 0
  OBVIOUS
<1>2. n * (b - a) = n * b - n * a
  OBVIOUS
<1> QED BY <1>1, <1>2

LEMMA DivBetween ==
  ASSUME NEW n \in Nat \ {0}, NEW t \in Nat, NEW z \in Nat, n * (t - 1) <= z, z <= n * t
  PROVE  (z \div n) \in {t - 1, t}
<1> DEFINE d == z \div n
<1>1. d \in Int /\ n * d <= z /\ z < n * (d + 1)
  OBVIOUS
<1> HIDE DEF d
<1>2. ~ (d >= t + 1)
  <2> SUFFICES ASSUME d >= t + 1 PROVE FALSE
    OBVIOUS
  <2>1. n * (t + 1) <= n * d
    BY <1>1, Times
  <2>2. n * (t + 1) = n * t + n
    OBVIOUS
  <2> QED BY <1>1, <2>1, <2>2
<1>3. ~ (d + 1 <= t - 1)
  <2> SUFFICES ASSUME d + 1 <= t - 1 PROVE FALSE
    OBVIOUS
  <2>1. n * (d + 1) <= n * (t - 1)
    BY <1>1, Times
  <2> QED BY <1>1, <2>1
<1> QED BY <1>1, <1>2, <1>3 DEF d

LEMMA ReportedTimeout ==
  ASSUME NEW t \in Nat \ {0}
  PROVE  ((ReloadOf(t) * 256) \div LSI_VALUE) \in {t - 1, t} /\ ReloadOf(t) \in Nat
<1> DEFINE x == t * LSI_VALUE
           y == x \div 256
<1>1. x \in Nat /\ LSI_VALUE \in Nat \ {0} /\ x = LSI_VALUE * t
  BY WatchdogAssumption
<1>2. y \in Nat /\ y * 256 <= x /\ x < y * 256 + 256
  <2> HIDE DEF x
  <2> QED BY <1>1
<1>3. LSI_VALUE * (t - 1) = LSI_VALUE * t - LSI_VALUE
  BY <1>1
<1> HIDE DEF x, y
<1>4. LSI_VALUE * (t - 1) <= y * 256 /\ y * 256 <= LSI_VALUE * t
  <2>1. LSI_VALUE * t \in Nat /\ LSI_VALUE >= 256
    BY <1>1, WatchdogAssumption
  <2> QED BY <1>1, <1>2, <1>3, <2>1
<1>5. y * 256 \in Nat
  BY <1>2
<1>6. ((y * 256) \div LSI_VALUE) \in {t - 1, t}
  BY <1>1, <1>4, <1>5, DivBetween
<1>7. ReloadOf(t) = y
  BY DEF ReloadOf, x, y
<1> QED BY <1>2, <1>6, <1>7

\* What the counter is loaded with for a timeout; without one it is full.
CountOf(timeout) == IF timeout = 0 THEN FULL ELSE ReloadOf(timeout)

WdtInv ==
  /\ agreed \in Nat /\ reload \in 0 .. FULL /\ is_start \in BOOLEAN
  /\ reload = CountOf(agreed)
  /\ is_start => rlr = CountOf(agreed)
  /\ fed # -1 => counter = CountOf(fed)

LEMMA WdtNextInv ==
  ASSUME ~ TryTooLong, WdtInv, WdtNext
  PROVE  WdtInv'
<1>1. ASSUME NEW timeout \in Timeouts, WdtSetTimeout(timeout) PROVE WdtInv'
  <2>1. timeout \in Nat \ {0}
    BY WatchdogAssumption
  <2>2. ReloadOf(timeout) \in Nat /\ ReloadOf(timeout) <= FULL /\ FULL \in Nat
    BY <1>1, <2>1, ReportedTimeout DEF WdtSetTimeout, FULL
  <2>3. /\ reload' = ReloadOf(timeout) /\ agreed' = timeout
        /\ rlr' = (IF is_start THEN reload' ELSE rlr)
        /\ UNCHANGED <<is_start, counter, fed>>
    BY <1>1, <2>2 DEF WdtSetTimeout
  <2>4. CountOf(timeout) = ReloadOf(timeout)
    BY <2>1 DEF CountOf
  <2>5. reload' \in 0 .. FULL /\ agreed' \in Nat /\ reload' = CountOf(agreed')
    BY <2>1, <2>2, <2>3, <2>4
  <2>6. is_start' => rlr' = CountOf(agreed')
    BY <2>3, <2>5
  <2> QED BY <2>3, <2>5, <2>6 DEF WdtInv
<1>2. CASE WdtStart
  <2>1. reload % (FULL + 1) = reload
    <3>1. reload \in 0 .. FULL
      BY DEF WdtInv
    <3>2. FULL = 4095
      BY DEF FULL
    <3>3. reload \in Nat /\ reload <= 4095
      BY <3>1, <3>2
    <3> QED BY <3>2, <3>3
  <2> QED BY <1>2, <2>1 DEF WdtStart, WdtInv
<1>3. CASE WdtKeepAlive
  BY <1>3 DEF WdtKeepAlive, WdtInv
<1> QED BY <1>1, <1>2, <1>3 DEF WdtNext

\* A running watchdog is reloaded with the timeout that was last accepted, which
\* is the one reported, to a second (WdtAsSet).
THEOREM WatchdogAsSet == ~ TryTooLong => (WdtSpec => []WdtAsSet)
<1> SUFFICES ASSUME ~ TryTooLong PROVE WdtSpec => []WdtAsSet
  OBVIOUS
<1>1. WdtInit => WdtInv
  <2> SUFFICES ASSUME WdtInit PROVE WdtInv
    OBVIOUS
  <2>1. agreed \in Nat /\ reload \in 0 .. FULL /\ reload = CountOf(agreed)
    BY DEF WdtInit, CountOf, FULL
  <2>2. is_start = FALSE /\ fed = -1
    BY DEF WdtInit
  <2> QED BY <2>1, <2>2 DEF WdtInv
<1>2. WdtInv /\ [WdtNext]_wdt_vars => WdtInv'
  BY WdtNextInv DEF WdtInv, wdt_vars
<1>3. WdtInv => WdtAsSet
  <2> SUFFICES ASSUME WdtInv PROVE WdtAsSet
    OBVIOUS
  <2>1. agreed # 0 => GetTimeout \in {agreed - 1, agreed}
    BY ReportedTimeout DEF WdtInv, CountOf, GetTimeout
  <2> QED BY <2>1 DEF WdtInv, WdtAsSet, CountOf
<1> QED BY <1>1, <1>2, <1>3, PTL DEF WdtSpec

-----------------------------------------------------------------------------
(* The object container: a walk of the list of a class meets every object  *)
(* that stays on it, for any number of threads, objects and names.         *)

\* y is x or comes after it.
Upto(s, x, y) == \E i, j \in DOMAIN s : s[i] = x /\ s[j] = y /\ i <= j

LEMMA UptoInsert ==
  ASSUME NEW S, NEW s \in Seq(S), NEW z \in S
  PROVE  \A x, y : Upto(s, x, y) => Upto(rt_list_insert_after(s, z), x, y)
<1> DEFINE r == rt_list_insert_after(s, z)
<1>1. /\ Len(s) \in Nat /\ DOMAIN s = 1 .. Len(s) /\ DOMAIN r = 1 .. (Len(s) + 1)
      /\ \A i \in 1 .. Len(s) : r[i + 1] = s[i]
  <2>1. <<z>> \in Seq(S) /\ Len(<<z>>) = 1
    OBVIOUS
  <2>2. /\ r \in Seq(S) /\ Len(r) = Len(s) + 1
        /\ \A i \in 1 .. Len(r) : r[i] = IF i <= 1 THEN <<z>>[i] ELSE s[i - 1]
    BY <2>1, ConcatProperties DEF rt_list_insert_after
  <2>3. Len(s) \in Nat /\ DOMAIN s = 1 .. Len(s) /\ DOMAIN r = 1 .. Len(r)
    BY <2>2, LenProperties
  <2> HIDE DEF r
  <2>4. \A i \in 1 .. Len(s) : r[i + 1] = s[i]
    <3> SUFFICES ASSUME NEW i \in 1 .. Len(s) PROVE r[i + 1] = s[i]
      OBVIOUS
    <3>1. i + 1 \in 1 .. Len(r) /\ ~(i + 1 <= 1) /\ (i + 1) - 1 = i
      BY <2>2, <2>3
    <3> QED BY <2>2, <3>1
  <2> QED BY <2>2, <2>3, <2>4
<1> HIDE DEF r
<1>2. ASSUME NEW x, NEW y, Upto(s, x, y) PROVE Upto(r, x, y)
  <2>1. PICK i, j \in DOMAIN s : s[i] = x /\ s[j] = y /\ i <= j
    BY <1>2 DEF Upto
  <2>2. i + 1 \in DOMAIN r /\ j + 1 \in DOMAIN r /\ i + 1 <= j + 1
    BY <1>1, <2>1
  <2>3. r[i + 1] = x /\ r[j + 1] = y
    BY <1>1, <2>1
  <2> QED BY <2>2, <2>3 DEF Upto
<1> QED BY <1>2 DEF r

LEMMA UptoRemove ==
  ASSUME NEW S, NEW s \in Seq(S), NEW z
  PROVE  \A x, y : Upto(s, x, y) /\ x # z /\ y # z => Upto(rt_list_remove(s, z), x, y)
<1>1. CASE ~Linked(s, z)
  BY <1>1 DEF rt_list_remove
<1>2. CASE Linked(s, z)
  <2> DEFINE p == PlaceOf(s, z)
             r == RemoveAt(s, p)
  <2>1. Len(s) \in Nat /\ DOMAIN s = 1 .. Len(s)
    BY LenProperties
  <2>2. p \in 1 .. Len(s) /\ s[p] = z /\ rt_list_remove(s, z) = r
    BY <1>2, <2>1 DEF Linked, PlaceOf, rt_list_remove
  <2> HIDE DEF p
  <2>3. /\ DOMAIN r = 1 .. (Len(s) - 1)
        /\ \A j \in 1 .. (Len(s) - 1) : r[j] = IF j < p THEN s[j] ELSE s[j + 1]
    BY <2>2, RemoveAtPlaces, LenProperties
  <2> HIDE DEF r
  <2>4. ASSUME NEW x, NEW y, Upto(s, x, y), x # z, y # z PROVE Upto(r, x, y)
    <3>1. PICK i, j \in 1 .. Len(s) : s[i] = x /\ s[j] = y /\ i <= j
      BY <2>1, <2>4 DEF Upto
    <3> DEFINE Down(k) == IF k < p THEN k ELSE k - 1
    <3>2. ASSUME NEW k \in 1 .. Len(s), s[k] # z
          PROVE  Down(k) \in DOMAIN r /\ r[Down(k)] = s[k]
      <4>1. k # p
        BY <2>2, <3>2
      <4>2. CASE k < p
        <5>1. k \in 1 .. (Len(s) - 1)
          BY <2>1, <2>2, <4>2
        <5> QED BY <2>3, <4>2, <5>1
      <4>3. CASE ~(k < p)
        <5>1. k - 1 \in 1 .. (Len(s) - 1) /\ ~(k - 1 < p) /\ (k - 1) + 1 = k
          BY <2>1, <2>2, <4>1, <4>3
        <5> QED BY <2>3, <4>3, <5>1
      <4> QED BY <4>2, <4>3
    <3>3. Down(i) <= Down(j)
      BY <2>1, <2>2, <3>1
    <3> HIDE DEF Down
    <3>4. /\ Down(i) \in DOMAIN r /\ r[Down(i)] = x
          /\ Down(j) \in DOMAIN r /\ r[Down(j)] = y
      BY <2>4, <3>1, <3>2
    <3> QED BY <3>3, <3>4 DEF Upto
  <2> QED BY <2>2, <2>4
<1> QED BY <1>1, <1>2

LEMMA UptoFirst ==
  ASSUME NEW S, NEW s \in Seq(S), NEW y, Linked(s, y)
  PROVE  s # <<>> /\ Linked(s, Head(s)) /\ Upto(s, Head(s), y)
<1>1. Len(s) \in Nat /\ DOMAIN s = 1 .. Len(s)
  BY LenProperties
<1>2. PICK j \in 1 .. Len(s) : s[j] = y
  BY <1>1 DEF Linked
<1>3. 1 \in 1 .. Len(s) /\ s # <<>> /\ Head(s) = s[1]
  BY <1>1, <1>2, HeadTailProperties
<1> QED BY <1>1, <1>2, <1>3 DEF Linked, Upto

LEMMA UptoNext ==
  ASSUME list \in Seq(Objs), Distinct(list), NEW x, Linked(list, x)
  PROVE  /\ NextNode(x) = nil \/ Linked(list, NextNode(x))
         /\ \A y : Upto(list, x, y) /\ x # y =>
              Linked(list, NextNode(x)) /\ Upto(list, NextNode(x), y)
<1> DEFINE p == PlaceOf(list, x)
           n == Len(list)
<1>1. n \in Nat /\ DOMAIN list = 1 .. n
  BY LenProperties
<1>2. p \in 1 .. n /\ list[p] = x
  BY <1>1 DEF Linked, PlaceOf
<1>3. NextNode(x) = IF p = n THEN nil ELSE list[p + 1]
  BY DEF NextNode
<1> HIDE DEF p, n
<1>4. NextNode(x) = nil \/ Linked(list, NextNode(x))
  <2>1. p # n => p + 1 \in 1 .. n
    BY <1>1, <1>2
  <2> QED BY <1>1, <1>3, <2>1 DEF Linked
<1>5. ASSUME NEW y, Upto(list, x, y), x # y
      PROVE  Linked(list, NextNode(x)) /\ Upto(list, NextNode(x), y)
  <2>1. PICK i, j \in 1 .. n : list[i] = x /\ list[j] = y /\ i <= j
    BY <1>1, <1>5 DEF Upto
  <2>2. i = p
    BY <1>1, <1>2, <2>1 DEF Distinct
  <2>3. i # j
    BY <1>5, <2>1
  <2>4. p + 1 \in 1 .. n /\ p + 1 <= j /\ p # n
    BY <1>1, <1>2, <2>1, <2>2, <2>3
  <2>5. NextNode(x) = list[p + 1]
    BY <1>3, <2>4
  <2> QED BY <1>1, <2>1, <2>4, <2>5 DEF Linked, Upto
<1> QED BY <1>4, <1>5

-----------------------------------------------------------------------------
Changing == {"init", "link", "unlink"}

ObjCalls == [op : {"none", "ret", "find"} \cup Changing, obj : Objs \cup {nil},
             nm : Names \cup {nil}, met : SUBSET Objs]

ObjTypes ==
  /\ list \in Seq(Objs) /\ Distinct(list)
  /\ type \in [Objs -> {"null", "static", "dynamic"}] /\ name \in [Objs -> Names \cup {nil}]
  /\ locker \in Users \cup {nil} /\ node \in Objs \cup {nil}
  /\ call \in [Users -> ObjCalls]

Owns(t, o) == call[t].op \in Changing /\ call[t].obj = o

\* A listed object has its type, or a thread is about to unlink it.
OwnersOK ==
  /\ \A o \in Objs : Linked(list, o) => type[o] # "null" \/ \E t \in Users : Owns(t, o)
  /\ \A t \in Users : \A o \in Objs : Owns(t, o) =>
       /\ type[o] = "null" /\ (Linked(list, o) <=> call[t].op = "unlink")
       /\ \A u \in Users : Owns(u, o) => u = t
  /\ \A t \in Users : call[t].op \in Changing => call[t].obj \in Objs

\* A walk stands on a listed object, and has not passed one it would have found.
WalkOK ==
  /\ node # nil => locker # nil /\ Linked(list, node)
  /\ \A t \in Users :
       /\ call[t].op = "find" => locker = t
       /\ locker = t => call[t].op \in {"find", "init"}
  /\ \A t \in Users : call[t].op = "find" =>
       \A o \in call[t].met :
         name[o] = call[t].nm /\ Linked(list, o) /\ node # nil /\ Upto(list, node, o)

ObjInv == ObjTypes /\ OwnersOK /\ WalkOK

\* Only the call of one thread changes.
LEMMA OneCall ==
  ASSUME ObjTypes, NEW t \in Users, NEW c \in ObjCalls, call' = [call EXCEPT ![t] = c]
  PROVE  /\ call' \in [Users -> ObjCalls] /\ call'[t] = c
         /\ \A u \in Users : u # t => call'[u] = call[u]
BY DEF ObjTypes

LEMMA NoCallOK == NoCall \in ObjCalls /\ NoCall.op = "none"
BY DEF NoCall, ObjCalls, Changing

LEMMA LinkedObjs ==
  ASSUME ObjTypes, NEW o
  PROVE  (Linked(list, o) <=> o \in Range(list)) /\ (Linked(list, o) => o \in Objs)
<1>1. \A i \in DOMAIN list : list[i] \in Objs
  BY DEF ObjTypes
<1> QED BY <1>1 DEF Linked, Range

\* Two kinds of walk begin: for a name, and to see that an object is not listed.
LEMMA StartInv ==
  ASSUME ObjInv, NEW t \in Users, NEW n \in Names,
         FindStart(t, n) \/ \E o \in Objs : InitStart(t, o, n)
  PROVE  ObjInv'
<1>0. ObjTypes /\ OwnersOK /\ WalkOK /\ nil \notin Objs \cup Users
  BY ObjectsAssumption DEF ObjInv
<1>1. /\ locker' = t /\ node' = FirstNode /\ UNCHANGED <<list, type, name>>
      /\ locker \in {nil, t} /\ call[t].op \in {"none", "ret"}
  BY DEF FindStart, InitStart, Free
<1>2. locker = nil /\ \A u \in Users : call[u].op # "find"
  BY <1>0, <1>1 DEF WalkOK
<1>3. node' = nil \/ (node' \in Objs /\ Linked(list, node'))
  <2>1. list \in Seq(Objs)
    BY <1>0 DEF ObjTypes
  <2> QED BY <1>1, <2>1, ListHead DEF FirstNode
<1>4. CASE FindStart(t, n)
  <2> DEFINE all == {e \in Range(list) : name[e] = n}
             c == [op |-> "find", obj |-> nil, nm |-> n, met |-> all]
  <2>1. all \subseteq Objs
    BY <1>0, LinkedObjs
  <2>2. c \in ObjCalls /\ c.op = "find" /\ c.nm = n /\ c.met = all
    BY <2>1 DEF ObjCalls
  <2>3. call' = [call EXCEPT ![t] = c]
    BY <1>4 DEF FindStart
  <2>4. \A e \in all : name[e] = n /\ Linked(list, e)
    BY <1>0, LinkedObjs
  <2> HIDE DEF c, all
  <2>5. /\ call' \in [Users -> ObjCalls] /\ call'[t] = c
        /\ \A u \in Users : u # t => call'[u] = call[u]
    BY <1>0, <2>2, <2>3, OneCall
  <2>6. ObjTypes'
    BY <1>0, <1>1, <1>3, <2>5 DEF ObjTypes
  <2>7. OwnersOK'
    BY <1>0, <1>1, <2>2, <2>5 DEF OwnersOK, Owns, Changing
  <2>8. \A e \in all : node' # nil /\ Upto(list, node', e)
    <3> SUFFICES ASSUME NEW e \in all PROVE node' # nil /\ Upto(list, node', e)
      OBVIOUS
    <3>1. list \in Seq(Objs) /\ Linked(list, e)
      BY <1>0, <2>4 DEF ObjTypes
    <3>2. list # <<>> /\ Linked(list, Head(list)) /\ Upto(list, Head(list), e)
      BY <3>1, UptoFirst
    <3>3. Head(list) \in Objs
      BY <1>0, <3>2, LinkedObjs
    <3> QED BY <1>0, <1>1, <3>2, <3>3 DEF FirstNode
  <2>9. WalkOK'
    BY <1>0, <1>1, <1>2, <1>3, <2>2, <2>4, <2>5, <2>8 DEF WalkOK
  <2> QED BY <2>6, <2>7, <2>9 DEF ObjInv
<1>5. ASSUME NEW o \in Objs, InitStart(t, o, n) PROVE ObjInv'
  <2> DEFINE c == [NoCall EXCEPT !.op = "init", !.obj = o, !.nm = n]
  <2>1. c \in ObjCalls /\ c.op = "init" /\ c.obj = o
    BY DEF ObjCalls, NoCall, Changing
  <2>2. /\ call' = [call EXCEPT ![t] = c] /\ type[o] = "null"
        /\ \A u \in Users : ~Owns(u, o)
    BY <1>5 DEF InitStart, Owns, Changing
  <2> HIDE DEF c
  <2>3. /\ call' \in [Users -> ObjCalls] /\ call'[t] = c
        /\ \A u \in Users : u # t => call'[u] = call[u]
    BY <1>0, <2>1, <2>2, OneCall
  <2>4. ObjTypes'
    BY <1>0, <1>1, <1>3, <2>3 DEF ObjTypes
  <2>5. OwnersOK'
    BY <1>0, <1>1, <2>1, <2>2, <2>3 DEF OwnersOK, Owns, Changing
  <2>6. WalkOK'
    BY <1>0, <1>1, <1>2, <1>3, <2>1, <2>3 DEF WalkOK
  <2> QED BY <2>4, <2>5, <2>6 DEF ObjInv
<1> QED BY <1>4, <1>5

\* One turn of a walk.
LEMMA WalkInv ==
  ASSUME ObjInv, NEW t \in Users, rt_object_find(t) \/ InitWalk(t)
  PROVE  ObjInv'
<1>0. /\ ObjTypes /\ OwnersOK /\ WalkOK /\ nil \notin Objs \cup Users
      /\ list \in Seq(Objs) /\ Distinct(list)
  BY ObjectsAssumption DEF ObjInv, ObjTypes
<1>1. locker = t /\ call[t].op \in {"find", "init"} /\ UNCHANGED <<list, type, name>>
  BY DEF rt_object_find, InitWalk
<1>2. \A u \in Users : call[u].op = "find" => u = t
  BY <1>0, <1>1 DEF WalkOK
<1>3. CASE node' = NextNode(node) /\ node # nil /\ UNCHANGED <<locker, call>>
           /\ (call[t].op = "find" => name[node] # call[t].nm)
  <2>1. /\ node' = nil \/ (Linked(list, node') /\ node' \in Objs)
        /\ \A y : Upto(list, node, y) /\ node # y => Linked(list, node') /\ Upto(list, node', y)
    <3>1. Linked(list, node)
      BY <1>0, <1>3 DEF WalkOK
    <3> QED BY <1>0, <1>3, <3>1, UptoNext, LinkedObjs
  <2>2. ObjTypes' /\ OwnersOK'
    BY <1>0, <1>1, <1>3, <2>1 DEF ObjTypes, OwnersOK, Owns
  <2>3. ASSUME call[t].op = "find", NEW e \in call[t].met
        PROVE  node' # nil /\ Upto(list, node', e)
    <3>1. Upto(list, node, e) /\ name[e] = call[t].nm
      BY <1>0, <2>3 DEF WalkOK
    <3>2. e # node
      BY <1>3, <2>3, <3>1
    <3>3. Linked(list, node') /\ Upto(list, node', e)
      BY <2>1, <3>1, <3>2
    <3> QED BY <1>0, <3>3, LinkedObjs
  <2>4. WalkOK'
    BY <1>0, <1>1, <1>2, <1>3, <2>1, <2>3 DEF WalkOK
  <2> QED BY <2>2, <2>4 DEF ObjInv
<1>4. CASE locker' = nil /\ node' = nil /\ call' = [call EXCEPT ![t].op = "link"]
           /\ call[t].op = "init"
  <2> DEFINE c == [call[t] EXCEPT !.op = "link"]
  <2>1. c \in ObjCalls /\ c.op = "link" /\ c.obj = call[t].obj /\ call' = [call EXCEPT ![t] = c]
    BY <1>0, <1>4 DEF ObjTypes, ObjCalls, Changing
  <2> HIDE DEF c
  <2>2. /\ call' \in [Users -> ObjCalls] /\ call'[t] = c
        /\ \A u \in Users : u # t => call'[u] = call[u]
    BY <1>0, <2>1, OneCall
  <2>3. ObjTypes'
    BY <1>0, <1>1, <1>4, <2>2 DEF ObjTypes
  <2>4. \A u \in Users : \A o : Owns(u, o)' <=> Owns(u, o)
    BY <1>4, <2>1, <2>2 DEF Owns, Changing
  <2>5. \A u \in Users : call'[u].op = "unlink" <=> call[u].op = "unlink"
    BY <1>4, <2>1, <2>2
  <2>6. OwnersOK'
    BY <1>0, <1>1, <1>4, <2>1, <2>2, <2>4, <2>5 DEF OwnersOK, Changing
  <2>7. WalkOK'
    BY <1>0, <1>1, <1>2, <1>4, <2>1, <2>2 DEF WalkOK
  <2> QED BY <2>3, <2>6, <2>7 DEF ObjInv
<1>5. CASE /\ locker' = nil /\ node' = nil /\ call[t].op = "find"
           /\ call' = [call EXCEPT ![t].op = "ret", ![t].obj = node]
  <2> DEFINE c == [call[t] EXCEPT !.op = "ret", !.obj = node]
  <2>1. c \in ObjCalls /\ c.op = "ret" /\ call' = [call EXCEPT ![t] = c]
    BY <1>0, <1>5 DEF ObjTypes, ObjCalls, Changing
  <2> HIDE DEF c
  <2>2. /\ call' \in [Users -> ObjCalls] /\ call'[t] = c
        /\ \A u \in Users : u # t => call'[u] = call[u]
    BY <1>0, <2>1, OneCall
  <2>3. ObjTypes'
    BY <1>0, <1>1, <1>5, <2>2 DEF ObjTypes
  <2>4. OwnersOK'
    BY <1>0, <1>1, <1>5, <2>1, <2>2 DEF OwnersOK, Owns, Changing
  <2>5. WalkOK'
    BY <1>0, <1>1, <1>2, <1>5, <2>1, <2>2 DEF WalkOK
  <2> QED BY <2>3, <2>4, <2>5 DEF ObjInv
<1>6. CASE InitWalk(t)
  BY <1>3, <1>4, <1>6 DEF InitWalk
<1>7. CASE rt_object_find(t)
  BY <1>3, <1>5, <1>7 DEF rt_object_find
<1> QED BY <1>6, <1>7

\* An object is added at the head, by a thread while nobody walks or by a handler.
LEMMA AddInv ==
  ASSUME ObjInv, NEW o \in Objs, NEW n \in Names \cup {nil}, NEW k \in {"static", "dynamic"},
         ~Linked(list, o), type' = [type EXCEPT ![o] = k], name' = [name EXCEPT ![o] = n],
         list' = rt_list_insert_after(list, o), UNCHANGED <<locker, node>>,
         call' \in [Users -> ObjCalls],
         \A u \in Users : \/ call'[u] = call[u] /\ ~Owns(u, o)
                          \/ /\ call'[u] = NoCall /\ locker = nil
                             /\ \A e \in Objs : Owns(u, e) => e = o
  PROVE  ObjInv'
<1>0. /\ ObjTypes /\ OwnersOK /\ WalkOK /\ nil \notin Objs \cup Users
      /\ list \in Seq(Objs) /\ Distinct(list)
  BY ObjectsAssumption DEF ObjInv, ObjTypes
<1>1. /\ list' \in Seq(Objs) /\ Distinct(list')
      /\ \A y : Linked(list', y) <=> Linked(list, y) \/ y = o
  BY <1>0, ListInsertAfter
<1>2. \A x, y : Upto(list, x, y) => Upto(list', x, y)
  BY <1>0, UptoInsert
<1>3. /\ type' \in [Objs -> {"null", "static", "dynamic"}] /\ type'[o] # "null"
      /\ name' \in [Objs -> Names \cup {nil}]
      /\ \A e \in Objs : e # o => type'[e] = type[e] /\ name'[e] = name[e]
  BY <1>0 DEF ObjTypes
<1>4. ObjTypes'
  BY <1>0, <1>1, <1>3 DEF ObjTypes
<1>5. ASSUME NEW u \in Users, NEW e \in Objs
      PROVE  Owns(u, e)' <=> Owns(u, e) /\ e # o
  BY NoCallOK DEF Owns, Changing
<1>6. ASSUME NEW u \in Users, call'[u].op # "none" PROVE call'[u] = call[u]
  BY <1>6, NoCallOK
<1>7. OwnersOK'
  <2>1. \A e \in Objs : Linked(list', e) => type'[e] # "null" \/ \E u \in Users : Owns(u, e)'
    <3> SUFFICES ASSUME NEW e \in Objs, Linked(list, e), e # o, type[e] = "null"
                 PROVE  \E u \in Users : Owns(u, e)'
      BY <1>1, <1>3
    <3>1. \E u \in Users : Owns(u, e)
      BY <1>0 DEF OwnersOK
    <3> QED BY <1>5, <3>1
  <2>2. ASSUME NEW u \in Users, NEW e \in Objs, Owns(u, e)'
        PROVE  /\ type'[e] = "null" /\ (Linked(list', e) <=> call'[u].op = "unlink")
               /\ \A x \in Users : Owns(x, e)' => x = u
    <3>1. Owns(u, e) /\ e # o /\ call'[u] = call[u]
      BY <1>5, <1>6, <2>2 DEF Owns, Changing
    <3> QED BY <1>0, <1>1, <1>3, <1>5, <3>1 DEF OwnersOK
  <2>3. \A u \in Users : call'[u].op \in Changing => call'[u].obj \in Objs
    BY <1>0, <1>6 DEF OwnersOK, Changing
  <2> QED BY <2>1, <2>2, <2>3 DEF OwnersOK
<1>8. WalkOK'
  <2>1. node' # nil => locker' # nil /\ Linked(list', node')
    BY <1>0, <1>1 DEF WalkOK
  <2>2. ASSUME NEW u \in Users
        PROVE  /\ call'[u].op = "find" => locker' = u
               /\ locker' = u => call'[u].op \in {"find", "init"}
    BY <1>0, <1>6 DEF WalkOK
  <2>3. ASSUME NEW u \in Users, call'[u].op = "find", NEW e \in call'[u].met
        PROVE  name'[e] = call'[u].nm /\ Linked(list', e) /\ node' # nil /\ Upto(list', node', e)
    <3>1. call'[u] = call[u]
      BY <1>6, <2>3
    <3>2. name[e] = call[u].nm /\ Linked(list, e) /\ node # nil /\ Upto(list, node, e)
      BY <1>0, <2>3, <3>1 DEF WalkOK
    <3>3. e # o /\ e \in Objs
      BY <1>0, <3>2, LinkedObjs
    <3> QED BY <1>1, <1>2, <1>3, <3>1, <3>2, <3>3
  <2> QED BY <2>1, <2>2, <2>3 DEF WalkOK
<1> QED BY <1>4, <1>7, <1>8 DEF ObjInv

LEMMA InsertInv ==
  ASSUME ObjInv,
         \/ \E t \in Users : rt_object_init(t)
         \/ \E t \in Users : \E o \in Objs, n \in Names : rt_object_allocate(t, o, n)
         \/ \E o \in Objs : \E n \in Names : IsrInit(o, n)
  PROVE  ObjInv'
<1>0. ObjTypes /\ OwnersOK /\ WalkOK /\ call \in [Users -> ObjCalls]
  BY DEF ObjInv, ObjTypes
<1>1. ASSUME NEW t \in Users, rt_object_init(t) PROVE ObjInv'
  <2> DEFINE b == call[t].obj
             nm == call[t].nm
  <2>1. b \in Objs /\ nm \in Names \cup {nil} /\ Owns(t, b)
    BY <1>0, <1>1 DEF rt_object_init, OwnersOK, ObjCalls, Owns, Changing
  <2>2. /\ ~Linked(list, b) /\ \A u \in Users : u # t => ~Owns(u, b)
        /\ \A e \in Objs : Owns(t, e) => e = b
    BY <1>0, <1>1, <2>1 DEF rt_object_init, OwnersOK, Owns
  <2>3. /\ locker = nil /\ UNCHANGED <<locker, node>> /\ call' = [call EXCEPT ![t] = NoCall]
        /\ type' = [type EXCEPT ![b] = "static"] /\ name' = [name EXCEPT ![b] = nm]
        /\ list' = rt_list_insert_after(list, b)
    BY <1>1 DEF rt_object_init, Unlocked
  <2> HIDE DEF b, nm
  <2>4. /\ call' \in [Users -> ObjCalls] /\ call'[t] = NoCall
        /\ \A u \in Users : u # t => call'[u] = call[u]
    BY <1>0, <2>3, OneCall, NoCallOK
  <2>5. \A u \in Users : \/ call'[u] = call[u] /\ ~Owns(u, b)
                         \/ /\ call'[u] = NoCall /\ locker = nil
                            /\ \A e \in Objs : Owns(u, e) => e = b
    BY <2>2, <2>3, <2>4
  <2> QED BY <2>1, <2>2, <2>3, <2>4, <2>5, AddInv
<1>2. ASSUME NEW t \in Users, NEW o \in Objs, NEW n \in Names, rt_object_allocate(t, o, n)
      PROVE  ObjInv'
  <2>1. locker = nil
    BY <1>0, <1>2 DEF rt_object_allocate, Free, WalkOK
  <2>2. ~Linked(list, o) /\ \A u \in Users : ~Owns(u, o)
    BY <1>0, <1>2, LinkedObjs DEF rt_object_allocate, Owns, Changing
  <2>3. /\ UNCHANGED <<locker, node>> /\ call' = [call EXCEPT ![t] = NoCall]
        /\ type' = [type EXCEPT ![o] = "dynamic"] /\ name' = [name EXCEPT ![o] = n]
        /\ list' = rt_list_insert_after(list, o)
        /\ \A e : ~Owns(t, e)
    BY <1>2 DEF rt_object_allocate, Free, Owns, Changing
  <2>4. /\ call' \in [Users -> ObjCalls] /\ call'[t] = NoCall
        /\ \A u \in Users : u # t => call'[u] = call[u]
    BY <1>0, <2>3, OneCall, NoCallOK
  <2> QED BY <2>1, <2>2, <2>3, <2>4, AddInv
<1>3. ASSUME NEW o \in Objs, NEW n \in Names, IsrInit(o, n) PROVE ObjInv'
  <2>1. ~Linked(list, o) /\ \A u \in Users : ~Owns(u, o)
    BY <1>0, <1>3, LinkedObjs DEF IsrInit, Owns, InUse, Changing
  <2> QED BY <1>0, <1>3, <2>1, AddInv DEF IsrInit
<1> QED BY <1>1, <1>2, <1>3

\* The type goes first: nobody else then takes the object.
LEMMA RemoveStartInv ==
  ASSUME ObjInv, NEW t \in Users, NEW o \in Objs, RemoveStart(t, o)
  PROVE  ObjInv'
<1>0. ObjTypes /\ OwnersOK /\ WalkOK /\ nil \notin Objs \cup Users
  BY ObjectsAssumption DEF ObjInv
<1>1. /\ locker = nil /\ Linked(list, o) /\ type[o] # "null"
      /\ UNCHANGED <<list, name, locker, node>> /\ call[t].op \in {"none", "ret"}
  BY <1>0, LinkedObjs DEF RemoveStart, Free, WalkOK
<1> DEFINE c == [NoCall EXCEPT !.op = "unlink", !.obj = o]
<1>2. c \in ObjCalls /\ c.op = "unlink" /\ c.obj = o
  BY DEF ObjCalls, NoCall, Changing
<1>3. call' = [call EXCEPT ![t] = c] /\ type' = [type EXCEPT ![o] = "null"]
  BY DEF RemoveStart
<1> HIDE DEF c
<1>4. /\ call' \in [Users -> ObjCalls] /\ call'[t] = c
      /\ \A u \in Users : u # t => call'[u] = call[u]
  BY <1>0, <1>2, <1>3, OneCall
<1>5. /\ type' \in [Objs -> {"null", "static", "dynamic"}] /\ type'[o] = "null"
      /\ \A e \in Objs : e # o => type'[e] = type[e]
  BY <1>0, <1>3 DEF ObjTypes
<1>6. ObjTypes'
  BY <1>0, <1>1, <1>4, <1>5 DEF ObjTypes
<1>7. \A u \in Users : ~Owns(u, o)
  BY <1>0, <1>1 DEF OwnersOK
<1>8. OwnersOK'
  BY <1>0, <1>1, <1>2, <1>4, <1>5, <1>7 DEF OwnersOK, Owns, Changing
<1>9. WalkOK'
  BY <1>0, <1>1, <1>2, <1>4 DEF WalkOK
<1> QED BY <1>6, <1>8, <1>9 DEF ObjInv

\* A listed object is unlinked, which no walk stands at.
LEMMA UnlinkInv ==
  ASSUME ObjInv, NEW o \in Objs, Linked(list, o), node # o,
         list' = rt_list_remove(list, o), type' = [type EXCEPT ![o] = "null"],
         UNCHANGED <<name, locker, node>>, call' \in [Users -> ObjCalls],
         \A u \in Users :
           \/ call'[u] = Lost(call, o)[u] /\ ~Owns(u, o)
           \/ call'[u] = NoCall /\ locker = nil /\ \A e \in Objs : Owns(u, e) => e = o
  PROVE  ObjInv'
<1>0. /\ ObjTypes /\ OwnersOK /\ WalkOK /\ nil \notin Objs \cup Users
      /\ list \in Seq(Objs) /\ Distinct(list)
  BY ObjectsAssumption DEF ObjInv, ObjTypes
<1>1. /\ list' \in Seq(Objs) /\ Distinct(list')
      /\ \A y : Linked(list', y) <=> Linked(list, y) /\ y # o
  BY <1>0, ListRemove
<1>2. \A x, y : Upto(list, x, y) /\ x # o /\ y # o => Upto(list', x, y)
  BY <1>0, UptoRemove
<1>3. /\ type' \in [Objs -> {"null", "static", "dynamic"}] /\ type'[o] = "null"
      /\ \A e \in Objs : e # o => type'[e] = type[e]
  BY <1>0 DEF ObjTypes
<1>4. ObjTypes'
  BY <1>0, <1>1, <1>3 DEF ObjTypes
<1>5. \A u \in Users : /\ Lost(call, o)[u].op = call[u].op /\ Lost(call, o)[u].obj = call[u].obj
                       /\ Lost(call, o)[u].nm = call[u].nm
                       /\ Lost(call, o)[u].met = call[u].met \ {o}
  BY <1>0 DEF ObjTypes, Lost, ObjCalls
<1>6. ASSUME NEW u \in Users, call'[u].op # "none"
      PROVE  /\ call'[u].op = call[u].op /\ call'[u].obj = call[u].obj
             /\ call'[u].nm = call[u].nm /\ call'[u].met = call[u].met \ {o} /\ ~Owns(u, o)
  BY <1>5, <1>6, NoCallOK
<1>7. ASSUME NEW u \in Users, NEW e \in Objs
      PROVE  Owns(u, e)' <=> Owns(u, e) /\ e # o
  BY <1>5, NoCallOK DEF Owns, Changing
<1>8. OwnersOK'
  <2>1. \A e \in Objs : Linked(list', e) => type'[e] # "null" \/ \E u \in Users : Owns(u, e)'
    <3> SUFFICES ASSUME NEW e \in Objs, Linked(list, e), e # o, type[e] = "null"
                 PROVE  \E u \in Users : Owns(u, e)'
      BY <1>1, <1>3
    <3>1. \E u \in Users : Owns(u, e)
      BY <1>0 DEF OwnersOK
    <3> QED BY <1>7, <3>1
  <2>2. ASSUME NEW u \in Users, NEW e \in Objs, Owns(u, e)'
        PROVE  /\ type'[e] = "null" /\ (Linked(list', e) <=> call'[u].op = "unlink")
               /\ \A x \in Users : Owns(x, e)' => x = u
    <3>1. Owns(u, e) /\ e # o /\ call'[u].op = call[u].op
      BY <1>6, <1>7, <2>2 DEF Owns, Changing
    <3> QED BY <1>0, <1>1, <1>3, <1>7, <3>1 DEF OwnersOK
  <2>3. \A u \in Users : call'[u].op \in Changing => call'[u].obj \in Objs
    BY <1>0, <1>6 DEF OwnersOK, Changing
  <2> QED BY <2>1, <2>2, <2>3 DEF OwnersOK
<1>9. WalkOK'
  <2>1. node' # nil => locker' # nil /\ Linked(list', node')
    BY <1>0, <1>1 DEF WalkOK
  <2>2. ASSUME NEW u \in Users
        PROVE  /\ call'[u].op = "find" => locker' = u
               /\ locker' = u => call'[u].op \in {"find", "init"}
    BY <1>0, <1>5, NoCallOK DEF WalkOK
  <2>3. ASSUME NEW u \in Users, call'[u].op = "find", NEW e \in call'[u].met
        PROVE  name'[e] = call'[u].nm /\ Linked(list', e) /\ node' # nil /\ Upto(list', node', e)
    <3>1. call[u].op = "find" /\ e \in call[u].met /\ e # o /\ call'[u].nm = call[u].nm
      BY <1>6, <2>3
    <3>2. name[e] = call[u].nm /\ Linked(list, e) /\ node # nil /\ Upto(list, node, e)
      BY <1>0, <3>1 DEF WalkOK
    <3> QED BY <1>1, <1>2, <3>1, <3>2
  <2> QED BY <2>1, <2>2, <2>3 DEF WalkOK
<1> QED BY <1>4, <1>8, <1>9 DEF ObjInv

LEMMA DetachInv ==
  ASSUME ~AnyNode, ObjInv,
         (\E t \in Users : rt_object_detach(t)) \/ \E o \in Objs : IsrDetach(o)
  PROVE  ObjInv'
<1>0. ObjTypes /\ OwnersOK /\ WalkOK /\ call \in [Users -> ObjCalls] /\ nil \notin Objs \cup Users
  BY ObjectsAssumption DEF ObjInv, ObjTypes
<1>1. \A e \in Objs : Lost(call, e) \in [Users -> ObjCalls]
  <2> SUFFICES ASSUME NEW e \in Objs, NEW u \in Users
               PROVE  [call[u] EXCEPT !.met = @ \ {e}] \in ObjCalls
    BY DEF Lost
  <2> QED BY <1>0 DEF ObjCalls
<1>2. ASSUME NEW t \in Users, rt_object_detach(t) PROVE ObjInv'
  <2> DEFINE b == call[t].obj
  <2>1. b \in Objs /\ Owns(t, b)
    BY <1>0, <1>2 DEF rt_object_detach, OwnersOK, Owns, Changing
  <2>2. /\ Linked(list, b) /\ type[b] = "null" /\ \A u \in Users : u # t => ~Owns(u, b)
        /\ \A e \in Objs : Owns(t, e) => e = b
    BY <1>0, <1>2, <2>1 DEF rt_object_detach, OwnersOK, Owns
  <2>3. /\ locker = nil /\ UNCHANGED <<type, name, locker, node>>
        /\ call' = [Lost(call, b) EXCEPT ![t] = NoCall] /\ list' = rt_list_remove(list, b)
    BY <1>2 DEF rt_object_detach, Unlocked
  <2> HIDE DEF b
  <2>4. /\ call' \in [Users -> ObjCalls] /\ call'[t] = NoCall
        /\ \A u \in Users : u # t => call'[u] = Lost(call, b)[u]
    BY <1>1, <2>1, <2>3, NoCallOK
  <2>5. type' = [type EXCEPT ![b] = "null"]
    BY <1>0, <2>1, <2>2, <2>3 DEF ObjTypes
  <2>6. node # b
    BY <1>0, <2>1, <2>3 DEF WalkOK
  <2>7. \A u \in Users :
           \/ call'[u] = Lost(call, b)[u] /\ ~Owns(u, b)
           \/ call'[u] = NoCall /\ locker = nil /\ \A e \in Objs : Owns(u, e) => e = b
    BY <2>2, <2>3, <2>4
  <2> QED BY <2>1, <2>2, <2>3, <2>4, <2>5, <2>6, <2>7, UnlinkInv
<1>3. ASSUME NEW o \in Objs, IsrDetach(o) PROVE ObjInv'
  <2>1. /\ Linked(list, o) /\ node # o /\ \A u \in Users : ~Owns(u, o)
        /\ list' = rt_list_remove(list, o) /\ type' = [type EXCEPT ![o] = "null"]
        /\ UNCHANGED <<name, locker, node>> /\ call' = Lost(call, o)
    BY <1>0, <1>3, LinkedObjs DEF IsrDetach, Owns, InUse, Changing
  <2> QED BY <1>1, <2>1, UnlinkInv
<1> QED BY <1>2, <1>3

\* The container: whatever the handlers add, and remove except where a walk stands.
LEMMA ObjectsInvariant == ~AnyNode => (ObjectsInit /\ [][ObjectsNext]_objects_vars => []ObjInv)
<1> SUFFICES ASSUME ~AnyNode
             PROVE  ObjectsInit /\ [][ObjectsNext]_objects_vars => []ObjInv
  OBVIOUS
<1>1. ObjectsInit => ObjInv
  <2> SUFFICES ASSUME ObjectsInit PROVE ObjInv
    OBVIOUS
  <2>1. ObjTypes
    BY NoCallOK DEF ObjectsInit, ObjTypes, Distinct
  <2>2. OwnersOK /\ WalkOK
    BY NoCallOK, ObjectsAssumption DEF ObjectsInit, OwnersOK, WalkOK, Owns, Changing, Linked
  <2> QED BY <2>1, <2>2 DEF ObjInv
<1>2. ObjInv /\ [ObjectsNext]_objects_vars => ObjInv'
  <2> SUFFICES ASSUME ObjInv, [ObjectsNext]_objects_vars PROVE ObjInv'
    OBVIOUS
  <2>1. CASE UNCHANGED objects_vars
    BY <2>1 DEF objects_vars, ObjInv, ObjTypes, OwnersOK, WalkOK, Owns
  <2>2. CASE ObjectsNext
    BY <2>2, StartInv, WalkInv, InsertInv, RemoveStartInv, DetachInv DEF ObjectsNext
  <2> QED BY <2>1, <2>2
<1> QED BY <1>1, <1>2, PTL

\* A search returns an object that is listed under the name, or none only if no object
\* has been so since the search began (FindRight), provided that no handler removes the
\* object at which a search stands.
THEOREM FindReturns == ~AnyNode => (ObjectsSpec => FindRight)
<1> DEFINE Right(t) ==
      call[t].op = "find" /\ call'[t].op = "ret" =>
        IF call'[t].obj = nil THEN call[t].met = {}
        ELSE call'[t].obj \in Range(list) /\ name[call'[t].obj] = call[t].nm
<1> SUFFICES ASSUME ~AnyNode PROVE ObjectsSpec => FindRight
  OBVIOUS
<1>1. ASSUME ObjInv, ObjectsNext, NEW t \in Users, call[t].op = "find", call'[t].op = "ret"
      PROVE  rt_object_find(t)
  <2>1. call \in [Users -> ObjCalls] /\ locker = t /\ t # nil
    BY <1>1, ObjectsAssumption DEF ObjInv, ObjTypes, WalkOK
  <2>2. \A u \in Users : /\ Free(u) => FALSE
                         /\ Unlocked => FALSE
                         /\ locker = u /\ call[u].op = "init" => FALSE
    BY <1>1, <2>1 DEF Free, Unlocked
  <2>3. PICK u \in Users : \/ rt_object_find(u)
                           \/ \E o \in Objs : IsrDetach(o) \/ \E n \in Names : IsrInit(o, n)
    BY <1>1, <2>1, <2>2 DEF ObjectsNext, FindStart, InitStart, rt_object_allocate,
       RemoveStart, InitWalk, rt_object_init, rt_object_detach
  <2>4. \A o : Lost(call, o)[t].op = call[t].op
    BY <2>1 DEF Lost, ObjCalls
  <2>5. rt_object_find(u)
    BY <1>1, <2>3, <2>4 DEF IsrDetach, IsrInit
  <2> QED BY <2>1, <2>5 DEF rt_object_find
<1>2. ASSUME ObjInv, NEW t \in Users, rt_object_find(t) PROVE Right(t)
  <2>1. ObjTypes /\ WalkOK /\ call \in [Users -> ObjCalls]
    BY <1>2 DEF ObjInv, ObjTypes
  <2> SUFFICES ASSUME call[t].op = "find", call'[t].op = "ret" PROVE Right(t)
    OBVIOUS
  <2>2. /\ node = nil \/ (node # nil /\ name[node] = call[t].nm)
        /\ call' = [call EXCEPT ![t].op = "ret", ![t].obj = node]
    BY <1>2 DEF rt_object_find
  <2>3. call'[t].obj = node
    BY <2>1, <2>2 DEF ObjCalls
  <2>4. node = nil => call[t].met = {}
    BY <2>1 DEF WalkOK
  <2>5. node # nil => node \in Range(list)
    BY <2>1, LinkedObjs DEF WalkOK
  <2> QED BY <2>2, <2>3, <2>4, <2>5
<1>3. ObjInv /\ [ObjectsNext]_objects_vars => [\A t \in Users : Right(t)]_objects_vars
  BY <1>1, <1>2
<1>4. ObjectsSpec => ObjectsInit /\ [][ObjectsNext]_objects_vars
  BY DEF ObjectsSpec
<1> QED BY <1>3, <1>4, ObjectsInvariant, PTL DEF FindRight

-----------------------------------------------------------------------------
(* The hardware timer: for any counter and any times asked for, the rounds *)
(* of cycles that the handler counts are those that have passed.           *)

LEMMA AtLeastOne ==
  ASSUME NEW a \in Int
  PROVE  Max({1, a}) = IF a >= 1 THEN a ELSE 1
<1> DEFINE m == IF a >= 1 THEN a ELSE 1
<1>1. m \in {1, a} /\ \A y \in {1, a} : m >= y
  OBVIOUS
<1>2. \A x \in {1, a} : (\A y \in {1, a} : x >= y) => x = m
  OBVIOUS
<1> QED BY <1>1, <1>2 DEF Max

LEMMA LeastIn ==
  ASSUME NEW T \in SUBSET Nat, T # {}
  PROVE  Min(T) \in T
<1>1. PICK p \in T : \A q \in T : p <= q
  BY LeastNatural
<1> QED BY <1>1 DEF Min

\* There is a number of cycles that fits: n of them are short enough, and exact.
LEMMA CyclesFit ==
  ASSUME NEW n \in Nat \ {0}
  PROVE  Cycles(n) \in 1 .. n
<1> DEFINE fits == {i \in 1..n : n <= i * MaxCnt}
           worse(i) == \E j \in fits : j < i /\ Deviation(n, j) < Deviation(n, i)
           ends == {i \in fits : Deviation(n, i) = 0 \/ worse(i)}
           tried == {i \in fits : i <= Min(ends)}
           best == {i \in tried : \A j \in tried : Deviation(n, i) <= Deviation(n, j)}
<1>1. n \in fits /\ Deviation(n, n) = 0
  <2>1. n <= n * MaxCnt
    <3>1. MaxCnt - 1 \in Nat /\ n * (MaxCnt - 1) >= 0
      BY HwAssumption
    <3>2. n * (MaxCnt - 1) = n * MaxCnt - n /\ n * MaxCnt \in Nat
      BY HwAssumption
    <3> QED BY <3>1, <3>2
  <2> QED BY <2>1 DEF Deviation
<1>2. Min(ends) \in ends
  <2>1. ends \in SUBSET Nat /\ n \in ends
    BY <1>1
  <2> HIDE DEF ends
  <2> QED BY <2>1, LeastIn
<1>3. Min(ends) \in tried
  BY <1>2
<1>4. \A i \in 1 .. n : Deviation(n, i) \in Nat
  BY DEF Deviation
<1>5. best # {}
  <2> DEFINE devs == {Deviation(n, i) : i \in tried}
  <2>1. devs \in SUBSET Nat /\ devs # {}
    BY <1>3, <1>4
  <2>2. PICK d \in devs : \A e \in devs : d <= e
    <3> HIDE DEF devs
    <3> QED BY <2>1, LeastNatural
  <2>3. PICK i \in tried : d = Deviation(n, i)
    BY <2>2
  <2>4. i \in best
    BY <2>2, <2>3
  <2> QED BY <2>4
<1>6. best \in SUBSET Nat /\ best \in SUBSET (1 .. n)
  OBVIOUS
<1>7. Cycles(n) = Min(best)
  BY DEF Cycles
<1> HIDE DEF best
<1> QED BY <1>5, <1>6, <1>7, LeastIn

\* The cycles together are short of the time by less than a tick each.
LEMMA CyclesSpan ==
  ASSUME NEW n \in Nat, NEW c, c = Max({1, Cycles(n)})
  PROVE  /\ Cycles(n) \in Nat /\ PeriodOf(n) \in Nat \ {0} /\ c \in Nat \ {0}
         /\ c * PeriodOf(n) <= Max({1, n}) /\ n - c * PeriodOf(n) < c
<1>1. CASE n = 0
  <2>1. Cycles(n) = 0 /\ PeriodOf(n) = 1 /\ Max({1, n}) = 1
    BY <1>1, AtLeastOne DEF Cycles, PeriodOf
  <2>2. c = 1
    BY <2>1, AtLeastOne
  <2> QED BY <1>1, <2>1, <2>2
<1>2. CASE n # 0
  <2>1. Cycles(n) \in 1 .. n
    BY <1>2, CyclesFit
  <2>2. c = Cycles(n) /\ Max({1, n}) = n
    BY <1>2, <2>1, AtLeastOne
  <2>3. PeriodOf(n) = n \div c
    BY <1>2, <2>2 DEF PeriodOf
  <2> DEFINE q == n \div c
  <2>4. c \in 1 .. n /\ q \in Int /\ c * q <= n /\ n < c * (q + 1)
    BY <2>1, <2>2
  <2> HIDE DEF q
  <2>5. q >= 1
    <3> SUFFICES ASSUME q <= 0 PROVE FALSE
      BY <2>4
    <3>1. q + 1 <= 1 /\ c * (1 - (q + 1)) >= 0
      BY <2>4
    <3>2. c * (1 - (q + 1)) = c - c * (q + 1)
      BY <2>4
    <3> QED BY <2>4, <3>1, <3>2
  <2>6. c * (q + 1) = c * q + c
    BY <2>4
  <2> QED BY <2>2, <2>3, <2>4, <2>5, <2>6 DEF q
<1> QED BY <1>1, <1>2

\* Of o updates of p ticks, k times c are complete rounds.
LEMMA RoundsElapsed ==
  ASSUME NEW c \in Nat \ {0}, NEW p \in Nat \ {0}, NEW k \in Nat, NEW l \in 1 .. c,
         NEW e \in 0 .. (p - 1), NEW o \in Nat, o = k * c + (c - l),
         NEW t \in Nat, t = o * p + e
  PROVE  /\ t \div (c * p) = k
         /\ o < c <=> k = 0
         /\ t < c * p <=> k = 0
<1> DEFINE w == c * p
           b == (c - l) * p + e
<1>1. w \in Nat \ {0} /\ b \in Nat /\ b < w
  <2>1. c - l \in Nat /\ (c - l) * p \in Nat
    OBVIOUS
  <2>2. l * p >= p /\ l * p \in Nat
    <3>1. (l - 1) * p >= 0 /\ (l - 1) * p = l * p - p
      OBVIOUS
    <3> QED BY <3>1
  <2>3. (c - l) * p = c * p - l * p
    OBVIOUS
  <2>4. w \in Nat \ {0}
    OBVIOUS
  <2> QED BY <2>1, <2>2, <2>3, <2>4
<1>2. t = k * w + b
  <2>1. o * p = (k * c) * p + (c - l) * p
    <3>1. c - l \in Int /\ k * c \in Int
      OBVIOUS
    <3> QED BY <3>1
  <2>2. (k * c) * p = k * w
    OBVIOUS
  <2> QED BY <2>1, <2>2
<1>3. k * c \in Nat /\ (k = 0 => k * c = 0) /\ (k # 0 => k * c >= c)
  <2>1. k # 0 => (k - 1) * c >= 0 /\ (k - 1) * c = k * c - c
    OBVIOUS
  <2> QED BY <2>1
<1> HIDE DEF w, b
<1>4. k * w \in Nat /\ (k = 0 => k * w = 0) /\ (k # 0 => k * w >= w)
  <2>1. k # 0 => (k - 1) * w >= 0 /\ (k - 1) * w = k * w - w
    BY <1>1
  <2> QED BY <1>1, <2>1
<1>5. o < c <=> k = 0
  BY <1>3
<1>6. t < w <=> k = 0
  BY <1>1, <1>2, <1>4
<1>7. t \div w = k
  <2> DEFINE q == t \div w
  <2>1. q \in Int /\ w * q <= t /\ t < w * (q + 1)
    BY <1>1
  <2> HIDE DEF q
  <2>2. ~(q >= k + 1)
    <3> SUFFICES ASSUME q >= k + 1 PROVE FALSE
      OBVIOUS
    <3>1. w * (q - (k + 1)) >= 0
      BY <1>1, <2>1
    <3>2. w * (q - (k + 1)) = w * q - (k * w + w)
      BY <1>1, <2>1
    <3> QED BY <1>1, <1>2, <1>4, <2>1, <3>1, <3>2
  <2>3. ~(q + 1 <= k)
    <3> SUFFICES ASSUME q + 1 <= k PROVE FALSE
      OBVIOUS
    <3>1. w * (k - (q + 1)) >= 0
      BY <1>1, <2>1
    <3>2. w * (k - (q + 1)) = k * w - w * (q + 1)
      BY <1>1, <2>1
    <3> QED BY <1>1, <1>2, <1>4, <2>1, <3>1, <3>2
  <2> QED BY <2>1, <2>2, <2>3 DEF q
<1> QED BY <1>5, <1>6, <1>7 DEF w

-----------------------------------------------------------------------------
HwTypes ==
  /\ tim \in [mode : {"oneshot", "period"}, cycles : Nat, reload : Nat, overflow : Nat,
              period : Nat \ {0}]
  /\ reg \in [running : BOOLEAN, single : BOOLEAN, cnt : Nat, uif : BOOLEAN]
  /\ hpc \in {"thread", "handler"} /\ hopen \in BOOLEAN /\ callback \in BOOLEAN
  /\ asked \in Nat \cup {-1} /\ elapsed \in Nat /\ rings \in Nat

\* An update of the counter that the handler has not counted.
Pending == hpc = "thread" /\ reg.uif

Updates == tim.overflow + (IF Pending THEN 1 ELSE 0)

\* The cycles of a round, and those left of this one.
Rounds == Max({1, tim.reload})
Left == Max({1, tim.cycles})

\* Without a write nothing is counted, and nobody is called.
HwRest ==
  /\ asked = -1 => rings = 0 /\ elapsed = 0 /\ (callback => ~reg.running /\ ~reg.uif)
  /\ ~hopen => ~callback /\ asked = -1
  /\ hpc = "handler" => reg.uif
  /\ reg.cnt < tim.period

\* After k rounds, e ticks into a cycle.
HwRound(k, e) ==
  /\ elapsed = Updates * tim.period + e /\ (reg.running => reg.cnt = e)
  /\ tim.overflow = k * Rounds + (Rounds - Left) /\ (callback => rings = k)

HwBusy ==
  /\ Whole <= Max({1, asked}) /\ asked - Whole < Rounds
  /\ reg.single <=> Rounds = 1 /\ tim.mode = "oneshot"
  /\ Left <= Rounds
  /\ \E k \in Nat : \E e \in 0 .. (tim.period - 1) : HwRound(k, e)
  /\ tim.mode = "oneshot" =>
       /\ Pending => tim.overflow < Rounds
       /\ reg.running <=> tim.overflow < Rounds /\ ~(reg.single /\ Pending)
  /\ tim.mode = "period" => reg.running

HwInv == HwTypes /\ HwRest /\ (asked >= 0 => HwBusy)

LEMMA HwNumbers ==
  ASSUME HwTypes
  PROVE  /\ Rounds \in Nat \ {0} /\ Rounds = IF tim.reload >= 1 THEN tim.reload ELSE 1
         /\ Left \in Nat \ {0} /\ Left = IF tim.cycles >= 1 THEN tim.cycles ELSE 1
         /\ Whole = Rounds * tim.period
<1>1. tim.reload \in Nat /\ tim.cycles \in Nat
  BY DEF HwTypes
<1> QED BY <1>1, AtLeastOne DEF Rounds, Left, Whole

LEMMA HwFields ==
  ASSUME HwTypes
  PROVE  /\ tim.mode \in {"oneshot", "period"} /\ tim.cycles \in Nat /\ tim.reload \in Nat
         /\ tim.overflow \in Nat /\ tim.period \in Nat \ {0}
         /\ reg.running \in BOOLEAN /\ reg.single \in BOOLEAN /\ reg.uif \in BOOLEAN
         /\ reg.cnt \in Nat
BY DEF HwTypes

\* Calls of the thread that leave nothing to count.
LEMMA UnaskedInv ==
  ASSUME "freq_late" \notin HwUses, "mode_running" \notin HwUses, HwInv,
         \/ HwOpen \/ HwSetIndicate \/ HwClose \/ HwFreqSet \/ HwStop
         \/ \E m \in {"oneshot", "period"} : HwModeSet(m)
  PROVE  HwInv'
<1>0. HwTypes /\ HwRest
  BY DEF HwInv
<1>1. CASE HwOpen
  <2>1. HwTypes'
    BY <1>0, <1>1 DEF HwOpen, HwTypes
  <2>2. HwRest' /\ asked' = -1
    BY <1>0, <1>1 DEF HwOpen, HwTypes, HwRest, HwThread
  <2> QED BY <2>1, <2>2 DEF HwInv
<1>2. CASE HwSetIndicate
  BY <1>0, <1>2 DEF HwSetIndicate, HwInv, HwTypes, HwRest, HwThread, Unasked
<1>3. CASE HwClose
  <2>1. HwTypes' /\ asked' = -1
    BY <1>0, <1>3 DEF HwClose, HwTypes, Unasked
  <2>2. HwRest'
    BY <1>0, <1>3 DEF HwClose, HwRest, HwThread, Unasked
  <2> QED BY <2>1, <2>2 DEF HwInv
<1>4. CASE HwFreqSet
  <2>1. HwTypes' /\ asked' = -1
    BY <1>0, <1>4 DEF HwFreqSet, HwTypes, Unasked
  <2>2. HwRest'
    BY <1>0, <1>4 DEF HwFreqSet, HwTypes, HwRest, HwThread, Unasked
  <2> QED BY <2>1, <2>2 DEF HwInv
<1>5. CASE HwStop
  <2>1. HwTypes' /\ asked' = -1
    BY <1>0, <1>5 DEF HwStop, HwTypes, Unasked
  <2>2. HwRest'
    BY <1>0, <1>5 DEF HwStop, HwTypes, HwRest, HwThread, Unasked
  <2> QED BY <2>1, <2>2 DEF HwInv
<1>6. ASSUME NEW m \in {"oneshot", "period"}, HwModeSet(m) PROVE HwInv'
  <2>1. HwTypes' /\ asked' = -1
    BY <1>0, <1>6 DEF HwModeSet, HwTypes, Unasked
  <2>2. HwRest'
    BY <1>0, <1>6 DEF HwModeSet, HwTypes, HwRest, HwThread, Unasked
  <2> QED BY <2>1, <2>2 DEF HwInv
<1> QED BY <1>1, <1>2, <1>3, <1>4, <1>5, <1>6

\* A write begins a new round, from the callback too.
LEMMA HwWriteInv ==
  ASSUME HwInv, NEW n \in Asks, HwWrite(n)
  PROVE  HwInv'
<1>0. HwTypes /\ HwRest /\ n \in Nat
  BY HwAssumption DEF HwInv
<1>a. PICK c : c = Max({1, Cycles(n)})
  OBVIOUS
<1>1. /\ Cycles(n) \in Nat /\ PeriodOf(n) \in Nat \ {0} /\ c \in Nat \ {0}
      /\ c * PeriodOf(n) <= Max({1, n}) /\ n - c * PeriodOf(n) < c
      /\ c = IF Cycles(n) >= 1 THEN Cycles(n) ELSE 1
  <2>1. Cycles(n) \in Nat
    BY <1>0, CyclesSpan
  <2>2. c = IF Cycles(n) >= 1 THEN Cycles(n) ELSE 1
    BY <1>a, <2>1, AtLeastOne
  <2> QED BY <1>0, <1>a, <2>2, CyclesSpan
<1>2. /\ tim'.overflow = 0 /\ tim'.cycles = Cycles(n) /\ tim'.reload = Cycles(n)
      /\ tim'.period = PeriodOf(n) /\ tim'.mode = tim.mode
      /\ reg'.running = TRUE /\ reg'.cnt = 0 /\ reg'.uif = reg.uif
      /\ reg'.single = (Cycles(n) <= 1 /\ tim.mode = "oneshot")
      /\ asked' = n /\ elapsed' = 0 /\ rings' = 0 /\ UNCHANGED <<hpc, hopen, callback>>
      /\ hopen /\ (HwThread \/ hpc = "handler")
  BY <1>0 DEF HwWrite, HwTypes
<1>3. HwTypes'
  <2>1. tim' \in [mode : {"oneshot", "period"}, cycles : Nat, reload : Nat, overflow : Nat,
                  period : Nat \ {0}]
    BY <1>0, <1>1 DEF HwWrite, HwTypes
  <2>2. reg' \in [running : BOOLEAN, single : BOOLEAN, cnt : Nat, uif : BOOLEAN]
    BY <1>0 DEF HwWrite, HwTypes
  <2> QED BY <1>0, <1>2, <2>1, <2>2 DEF HwTypes
<1>4. HwRest'
  BY <1>0, <1>1, <1>2 DEF HwRest
<1>5. ~Pending' /\ Updates' = 0
  BY <1>2 DEF Pending, Updates, HwThread
<1>6. Rounds' = c /\ Left' = c /\ Whole' = c * PeriodOf(n)
  BY <1>a, <1>2 DEF Rounds, Left, Whole
<1>7. HwRound(0, 0)'
  BY <1>1, <1>2, <1>5, <1>6 DEF HwRound
<1>8. reg'.single <=> Rounds' = 1 /\ tim'.mode = "oneshot"
  <2>1. Cycles(n) <= 1 <=> c = 1
    BY <1>1
  <2> QED BY <1>2, <1>6, <2>1, Zenon
<1>9. HwBusy'
  <2>1. \E k \in Nat : \E e \in 0 .. (tim'.period - 1) : HwRound(k, e)'
    BY <1>1, <1>2, <1>7
  <2>2. 0 < c
    BY <1>1
  <2> QED BY <1>1, <1>2, <1>5, <1>6, <1>8, <2>1, <2>2 DEF HwBusy
<1> QED BY <1>3, <1>4, <1>9 DEF HwInv

\* The counter moves, and wraps only when the update before has been handled.
LEMMA HwCountInv ==
  ASSUME HwInv, HwCount
  PROVE  HwInv'
<1>0. HwTypes /\ HwRest
  BY DEF HwInv
<1> DEFINE wraps == ~(reg.cnt + 1 < tim.period)
<1>1. /\ tim' = tim /\ hpc' = hpc /\ hopen' = hopen /\ callback' = callback
      /\ asked' = asked /\ rings' = rings
      /\ elapsed' = IF asked = -1 THEN 0 ELSE elapsed + 1
      /\ reg'.cnt = IF wraps THEN 0 ELSE reg.cnt + 1
  BY <1>0 DEF HwCount, HwTypes
<1>b. /\ reg.running /\ (reg.cnt + 1 = tim.period => ~reg.uif)
      /\ reg'.single = reg.single
      /\ ~wraps => reg'.uif = reg.uif /\ reg'.running = reg.running
      /\ wraps => reg'.uif = TRUE /\ reg'.running = ~reg.single
  <2>1. CASE wraps
    BY <1>0, <2>1 DEF HwCount, HwTypes
  <2>2. CASE ~wraps
    BY <1>0, <2>2 DEF HwCount, HwTypes
  <2> QED BY <2>1, <2>2
<1>2. HwTypes'
  <2>1. CASE wraps
    <3>1. reg.single \in BOOLEAN /\ (~reg.single) \in BOOLEAN
      BY <1>0, HwFields
    <3>2. PICK b \in BOOLEAN : reg' = [reg EXCEPT !.cnt = 0, !.uif = TRUE, !.running = b]
      BY <2>1, <3>1 DEF HwCount
    <3>3. reg' \in [running : BOOLEAN, single : BOOLEAN, cnt : Nat, uif : BOOLEAN]
      BY <1>0, <3>2 DEF HwTypes
    <3> QED BY <1>0, <1>1, <3>3 DEF HwTypes
  <2>2. CASE ~wraps
    <3>1. reg' = [reg EXCEPT !.cnt = reg.cnt + 1] /\ reg.cnt \in Nat
      BY <1>0, <2>2, HwFields DEF HwCount
    <3>2. reg' \in [running : BOOLEAN, single : BOOLEAN, cnt : Nat, uif : BOOLEAN]
      BY <1>0, <3>1 DEF HwTypes
    <3> QED BY <1>0, <1>1, <3>2 DEF HwTypes
  <2> QED BY <2>1, <2>2
<1>3. /\ tim.period \in Nat \ {0} /\ reg.cnt \in Nat /\ reg.cnt < tim.period
      /\ tim.overflow \in Nat /\ elapsed \in Nat
  BY <1>0, HwFields DEF HwTypes, HwRest
<1>4. HwRest'
  <2>1. reg'.cnt < tim'.period
    BY <1>1, <1>3
  <2>2. asked = -1 => ~callback
    BY <1>0, <1>b DEF HwRest
  <2>3. hpc = "handler" => reg'.uif
    BY <1>0, <1>b DEF HwRest
  <2> QED BY <1>0, <1>1, <2>1, <2>2, <2>3 DEF HwRest
<1>5. ASSUME asked >= 0 PROVE HwBusy'
  <2>1. HwBusy
    BY <1>5 DEF HwInv
  <2>2. PICK k \in Nat, e \in 0 .. (tim.period - 1) : HwRound(k, e)
    BY <2>1 DEF HwBusy
  <2>3. reg.cnt = e /\ elapsed' = elapsed + 1 /\ elapsed = Updates * tim.period + e
    <3>1. reg.cnt = e /\ elapsed = Updates * tim.period + e
      BY <1>b, <2>2 DEF HwRound
    <3>2. asked # -1
      BY <1>5
    <3> QED BY <1>1, <3>1, <3>2
  <2>4. Rounds' = Rounds /\ Left' = Left /\ Whole' = Whole
    BY <1>1 DEF Rounds, Left, Whole
  <2>5. /\ Whole' <= Max({1, asked'}) /\ asked' - Whole' < Rounds' /\ Left' <= Rounds'
        /\ reg'.single <=> Rounds' = 1 /\ tim'.mode = "oneshot"
    BY <1>1, <1>b, <2>1, <2>4 DEF HwBusy
  <2>6. CASE ~wraps
    <3>1. Pending' = Pending /\ Updates' = Updates /\ Updates \in Nat
      BY <1>1, <1>b, <1>3, <2>6 DEF Pending, Updates
    <3>2. elapsed' = Updates' * tim'.period + (e + 1) /\ reg'.cnt = e + 1
      <4>1. Updates * tim.period \in Nat /\ tim'.period = tim.period
        BY <1>1, <1>3, <3>1
      <4> QED BY <1>1, <1>3, <2>3, <2>6, <3>1, <4>1
    <3>3. HwRound(k, e + 1)'
      BY <1>1, <2>2, <2>4, <3>2 DEF HwRound
    <3>4. e + 1 \in 0 .. (tim'.period - 1)
      BY <1>1, <1>3, <2>3, <2>6
    <3>5. \E l \in Nat : \E d \in 0 .. (tim'.period - 1) : HwRound(l, d)'
      BY <3>3, <3>4
    <3>6. /\ Rounds' = Rounds /\ tim' = tim /\ Pending' = Pending
          /\ reg'.single = reg.single /\ reg'.running = reg.running
      BY <1>1, <1>b, <2>4, <2>6, <3>1
    <3> QED BY <2>1, <2>5, <3>5, <3>6, Zenon DEF HwBusy
  <2>7. CASE wraps
    <3>1. /\ reg.cnt + 1 = tim.period /\ ~reg.uif /\ ~Pending /\ Pending'
          /\ reg'.running = ~reg.single /\ reg'.cnt = 0
      <4>1. reg.cnt + 1 = tim.period
        BY <1>3, <2>7
      <4>2. ~reg.uif /\ hpc = "thread"
        BY <1>0, <1>b, <4>1 DEF HwRest, HwTypes
      <4> QED BY <1>1, <1>b, <2>7, <4>1, <4>2 DEF Pending
    <3>2. Updates = tim.overflow /\ Updates' = tim.overflow + 1
      BY <1>1, <1>3, <3>1 DEF Updates
    <3>3. elapsed' = Updates' * tim'.period + 0
      <4>1. tim.period = e + 1 /\ tim'.period = tim.period
        BY <1>1, <2>3, <3>1
      <4>2. (tim.overflow + 1) * tim.period = tim.overflow * tim.period + tim.period
        BY <1>3
      <4>3. tim.overflow * tim.period \in Nat
        BY <1>3
      <4> QED BY <1>3, <2>3, <3>2, <4>1, <4>2, <4>3
    <3>4. HwRound(k, 0)'
      BY <1>1, <2>2, <2>4, <3>1, <3>3 DEF HwRound
    <3>5. \E l \in Nat : \E d \in 0 .. (tim'.period - 1) : HwRound(l, d)'
      <4>1. 0 \in 0 .. (tim'.period - 1)
        BY <1>1, <1>3
      <4> QED BY <3>4, <4>1
    <3>6. tim.mode = "oneshot" => tim.overflow < Rounds
      BY <1>b, <2>1, Zenon DEF HwBusy
    <3>7. tim.mode = "period" => ~reg.single
      <4>1. "period" # "oneshot"
        OBVIOUS
      <4> QED BY <2>1, <4>1, Zenon DEF HwBusy
    <3>8. /\ Rounds' = Rounds /\ tim' = tim /\ Pending' /\ reg'.single = reg.single
          /\ reg'.running = ~reg.single
      BY <1>1, <1>b, <2>4, <3>1
    <3> QED BY <2>5, <3>5, <3>6, <3>7, <3>8, Zenon DEF HwBusy
  <2> QED BY <2>6, <2>7
<1> QED BY <1>1, <1>2, <1>4, <1>5 DEF HwInv

\* The handler counts the update, which may be the last one of its round.
LEMMA HwIsrInv ==
  ASSUME HwInv, HwIsr
  PROVE  HwInv'
<1>0. HwTypes /\ HwRest
  BY DEF HwInv
<1> DEFINE last == tim.cycles <= 1
<1>1. /\ Pending /\ ~Pending' /\ hpc' = "handler" /\ UNCHANGED <<hopen, callback, asked, elapsed>>
      /\ tim'.overflow = tim.overflow + 1 /\ tim'.cycles = CyclesLeft
      /\ tim'.mode = tim.mode /\ tim'.reload = tim.reload /\ tim'.period = tim.period
      /\ rings' = IF last /\ callback THEN rings + 1 ELSE rings
  BY <1>0 DEF HwIsr, HwTypes, Pending
<1>b. /\ reg'.uif = TRUE /\ reg'.single = reg.single
      /\ IF last /\ tim.mode = "oneshot" THEN reg'.running = FALSE /\ reg'.cnt = 0
         ELSE reg'.running = reg.running /\ reg'.cnt = reg.cnt
  BY <1>0 DEF HwIsr, HwTypes
<1>2. /\ tim.overflow \in Nat /\ tim.period \in Nat \ {0} /\ tim.cycles \in Nat
      /\ tim.reload \in Nat /\ rings \in Nat /\ reg.cnt \in Nat /\ CyclesLeft \in Nat
  BY <1>0, HwFields DEF HwTypes, CyclesLeft
<1>3. HwTypes'
  <2>1. reg' \in [running : BOOLEAN, single : BOOLEAN, cnt : Nat, uif : BOOLEAN]
    BY <1>0 DEF HwIsr, HwTypes
  <2>2. tim' \in [mode : {"oneshot", "period"}, cycles : Nat, reload : Nat, overflow : Nat,
                  period : Nat \ {0}]
    <3>1. /\ tim' = [tim EXCEPT !.overflow = tim.overflow + 1, !.cycles = CyclesLeft]
          /\ tim.overflow + 1 \in Nat
      BY <1>2 DEF HwIsr
    <3> QED BY <1>0, <1>2, <3>1 DEF HwTypes
  <2>3. rings' \in Nat
    BY <1>1, <1>2
  <2> QED BY <1>0, <1>1, <2>1, <2>2, <2>3 DEF HwTypes
<1>4. HwRest'
  <2>1. asked = -1 => ~callback
    BY <1>0, <1>1 DEF HwRest, Pending
  <2>2. reg'.cnt < tim'.period
    BY <1>0, <1>1, <1>b, <1>2 DEF HwRest
  <2> QED BY <1>0, <1>1, <1>b, <2>1, <2>2 DEF HwRest
<1>5. ASSUME asked >= 0 PROVE HwBusy'
  <2>1. HwBusy
    BY <1>5 DEF HwInv
  <2>2. PICK k \in Nat, e \in 0 .. (tim.period - 1) : HwRound(k, e)
    BY <2>1 DEF HwBusy
  <2>3. /\ Rounds \in Nat \ {0} /\ Left \in Nat \ {0} /\ Left <= Rounds
        /\ Left = 1 <=> last
    BY <1>0, <1>2, <2>1, HwNumbers DEF HwBusy
  <2>4. Rounds' = Rounds /\ Whole' = Whole /\ Updates' = Updates
    BY <1>1, <1>2 DEF Rounds, Whole, Updates
  <2>5. Left' = IF last THEN Rounds ELSE Left - 1
    <3>1. Left' = (IF CyclesLeft >= 1 THEN CyclesLeft ELSE 1)
      BY <1>1, <1>2, AtLeastOne DEF Left
    <3>2. /\ Rounds = (IF tim.reload >= 1 THEN tim.reload ELSE 1)
          /\ Left = (IF tim.cycles >= 1 THEN tim.cycles ELSE 1)
      BY <1>0, HwNumbers
    <3> QED BY <1>2, <3>1, <3>2 DEF CyclesLeft
  <2> HIDE DEF last
  <2>6. k * Rounds \in Nat /\ (k + 1) * Rounds = k * Rounds + Rounds
    BY <2>3
  <2>7. tim.overflow = k * Rounds + (Rounds - Left) /\ (callback => rings = k)
        /\ elapsed = Updates * tim.period + e /\ (reg.running => reg.cnt = e)
    BY <2>2 DEF HwRound
  <2>l. PICK l \in Nat : l = IF last THEN k + 1 ELSE k
    OBVIOUS
  <2>8. HwRound(l, e)'
    <3>1. tim'.overflow = l * Rounds + (Rounds - Left')
      BY <1>1, <2>l, <2>3, <2>5, <2>6, <2>7
    <3>2. callback => rings' = l
      BY <1>1, <2>l, <2>7
    <3>3. reg'.running => reg'.cnt = e
      BY <1>b, <2>7
    <3>4. /\ elapsed' = elapsed /\ Updates' = Updates /\ tim'.period = tim.period
          /\ Rounds' = Rounds /\ callback' = callback
      BY <1>1, <2>4
    <3> QED BY <2>7, <3>1, <3>2, <3>3, <3>4, Zenon DEF HwRound
  <2>9. \E j \in Nat : \E d \in 0 .. (tim'.period - 1) : HwRound(j, d)'
    <3>1. tim'.period = tim.period
      BY <1>1
    <3> QED BY <2>8, <3>1
  <2>10. tim.mode = "oneshot" => (tim'.overflow < Rounds <=> ~last)
    <3> SUFFICES ASSUME tim.mode = "oneshot" PROVE tim'.overflow < Rounds <=> ~last
      OBVIOUS
    <3>1. tim.overflow < Rounds
      BY <1>1, <2>1, Zenon DEF HwBusy
    <3>2. k = 0
      <4>1. k # 0 => (k - 1) * Rounds >= 0 /\ (k - 1) * Rounds = k * Rounds - Rounds
        BY <2>3
      <4> QED BY <2>3, <2>6, <2>7, <3>1, <4>1
    <3>3. tim.overflow = Rounds - Left
      BY <2>3, <2>7, <3>2
    <3> QED BY <1>1, <2>3, <3>3
  <2>11. Left' <= Rounds'
    BY <2>3, <2>4, <2>5
  <2>12. reg.single => last
    BY <2>1, <2>3 DEF HwBusy
  <2>13. /\ Whole' <= Max({1, asked'}) /\ asked' - Whole' < Rounds'
         /\ reg'.single <=> Rounds' = 1 /\ tim'.mode = "oneshot"
    BY <1>1, <1>b, <2>1, <2>4 DEF HwBusy
  <2>14. tim.mode = "oneshot" => (reg.running <=> ~reg.single)
    BY <1>1, <2>1, Zenon DEF HwBusy
  <2>15. tim.mode = "oneshot" => (reg'.running <=> ~last)
    BY <1>b, <2>12, <2>14
  <2>16. tim.mode = "period" => reg'.running
    BY <1>b, <2>1 DEF HwBusy
  <2>17. tim'.mode = tim.mode /\ Rounds' = Rounds /\ ~Pending'
    BY <1>1, <2>4
  <2> QED BY <2>9, <2>10, <2>11, <2>13, <2>15, <2>16, <2>17, Zenon DEF HwBusy
<1> QED BY <1>1, <1>3, <1>4, <1>5 DEF HwInv

LEMMA HwIsrEndInv ==
  ASSUME HwInv, HwIsrEnd
  PROVE  HwInv'
<1>0. HwTypes /\ HwRest
  BY DEF HwInv
<1>1. /\ hpc = "handler" /\ hpc' = "thread" /\ UNCHANGED <<tim, hopen, callback, asked, elapsed, rings>>
      /\ reg'.uif = FALSE /\ reg'.running = reg.running /\ reg'.single = reg.single
      /\ reg'.cnt = reg.cnt
  BY <1>0 DEF HwIsrEnd, HwTypes
<1>2. HwTypes'
  <2>1. reg' \in [running : BOOLEAN, single : BOOLEAN, cnt : Nat, uif : BOOLEAN]
    BY <1>0 DEF HwIsrEnd, HwTypes
  <2> QED BY <1>0, <1>1, <2>1 DEF HwTypes
<1>3. HwRest'
  BY <1>0, <1>1 DEF HwRest
<1>4. ~Pending /\ ~Pending' /\ Updates' = Updates /\ Rounds' = Rounds /\ Left' = Left /\ Whole' = Whole
  BY <1>1 DEF Pending, Updates, Rounds, Left, Whole
<1>5. \A k, e : HwRound(k, e) => HwRound(k, e)'
  BY <1>1, <1>4 DEF HwRound
<1>6. HwBusy => HwBusy'
  BY <1>1, <1>4, <1>5, Zenon DEF HwBusy
<1> QED BY <1>1, <1>2, <1>3, <1>6 DEF HwInv

\* The callback is called each time the time asked for has passed, and a one-shot timer
\* then stops (HwOnTime), if the frequency is set before the callback and the mode while
\* the counter stands.
THEOREM HwTimerOnTime ==
  "freq_late" \notin HwUses /\ "mode_running" \notin HwUses => (HwSpec => []HwOnTime)
<1> SUFFICES ASSUME "freq_late" \notin HwUses, "mode_running" \notin HwUses
             PROVE  HwSpec => []HwOnTime
  OBVIOUS
<1>1. HwInit => HwInv
  <2> SUFFICES ASSUME HwInit PROVE HwInv
    OBVIOUS
  <2>1. asked = -1 /\ ~(asked >= 0)
    BY DEF HwInit
  <2>2. HwTypes
    <3>1. tim \in [mode : {"oneshot", "period"}, cycles : Nat, reload : Nat, overflow : Nat,
                   period : Nat \ {0}]
      BY DEF HwInit
    <3>2. reg \in [running : BOOLEAN, single : BOOLEAN, cnt : Nat, uif : BOOLEAN]
      BY DEF HwInit
    <3> QED BY <3>1, <3>2 DEF HwInit, HwTypes
  <2>3. HwRest
    BY DEF HwInit, HwRest
  <2> QED BY <2>1, <2>2, <2>3 DEF HwInv
<1>2. HwInv /\ [HwNext]_hw_vars => HwInv'
  <2> SUFFICES ASSUME HwInv, [HwNext]_hw_vars PROVE HwInv'
    OBVIOUS
  <2>1. CASE UNCHANGED hw_vars
    <3>1. HwTypes' /\ HwRest'
      BY <2>1 DEF hw_vars, HwInv, HwTypes, HwRest
    <3>2. asked >= 0 => HwBusy'
      BY <2>1 DEF hw_vars, HwInv, HwBusy, HwRound, Pending, Updates, Rounds, Left, Whole
    <3> QED BY <2>1, <3>1, <3>2 DEF hw_vars, HwInv
  <2>2. CASE HwNext
    BY <2>2, UnaskedInv, HwWriteInv, HwCountInv, HwIsrInv, HwIsrEndInv DEF HwNext
  <2> QED BY <2>1, <2>2
<1>3. HwInv => HwOnTime
  <2> SUFFICES ASSUME HwInv PROVE HwOnTime
    OBVIOUS
  <2>1. asked = -1 => rings = 0
    BY DEF HwInv, HwRest
  <2>2. ASSUME asked >= 0, HwThread
        PROVE  /\ Whole <= Max({1, asked}) /\ asked - Whole < Max({1, tim.reload})
               /\ reg.running => tim.overflow * tim.period + reg.cnt = elapsed
               /\ callback => rings = elapsed \div Whole
               /\ tim.mode = "oneshot" => reg.running = (elapsed < Whole)
               /\ tim.mode = "period" => reg.running
    <3>1. HwBusy /\ HwTypes /\ ~Pending
      BY <2>2 DEF HwInv, HwThread, Pending
    <3>2. PICK k \in Nat, e \in 0 .. (tim.period - 1) : HwRound(k, e)
      BY <3>1 DEF HwBusy
    <3>3. /\ tim.overflow \in Nat /\ tim.period \in Nat \ {0} /\ elapsed \in Nat
          /\ reg.running \in BOOLEAN
      BY <3>1, HwFields DEF HwTypes
    <3>4. Updates = tim.overflow
      BY <3>1, <3>3 DEF Updates
    <3>5. /\ elapsed = tim.overflow * tim.period + e /\ (reg.running => reg.cnt = e)
          /\ tim.overflow = k * Rounds + (Rounds - Left) /\ (callback => rings = k)
      BY <3>2, <3>4 DEF HwRound
    <3>6. /\ Rounds \in Nat \ {0} /\ Left \in 1 .. Rounds /\ Whole = Rounds * tim.period
      BY <3>1, HwNumbers DEF HwBusy
    <3>7. /\ elapsed \div Whole = k
          /\ tim.overflow < Rounds <=> k = 0
          /\ elapsed < Whole <=> k = 0
      <4>1. /\ elapsed \div (Rounds * tim.period) = k
            /\ tim.overflow < Rounds <=> k = 0
            /\ elapsed < Rounds * tim.period <=> k = 0
        <5>1. PICK c, p, l, o, w : /\ c = Rounds /\ p = tim.period /\ l = Left
                                   /\ o = tim.overflow /\ w = elapsed
          OBVIOUS
        <5>2. /\ c \in Nat \ {0} /\ p \in Nat \ {0} /\ l \in 1 .. c /\ e \in 0 .. (p - 1)
              /\ o \in Nat /\ w \in Nat
          BY <3>3, <3>6, <5>1
        <5>3. w = o * p + e /\ o = k * c + (c - l)
          BY <3>5, <5>1
        <5>4. w \div (c * p) = k /\ (o < c <=> k = 0) /\ (w < c * p <=> k = 0)
          BY <5>2, <5>3, RoundsElapsed
        <5> QED BY <5>1, <5>4
      <4> QED BY <3>6, <4>1
    <3>8. tim.mode = "oneshot" => (reg.running <=> elapsed < Whole)
      BY <3>1, <3>7, Zenon DEF HwBusy
    <3>9. tim.mode = "oneshot" => reg.running = (elapsed < Whole)
      BY <3>3, <3>8
    <3>10. Whole <= Max({1, asked}) /\ asked - Whole < Max({1, tim.reload})
      BY <3>1 DEF HwBusy, Rounds
    <3> QED BY <3>1, <3>5, <3>7, <3>9, <3>10 DEF HwBusy
  <2> QED BY <2>1, <2>2 DEF HwOnTime
<1> QED BY <1>1, <1>2, <1>3, PTL DEF HwSpec

-----------------------------------------------------------------------------
(* The PWM outputs: for periods the counter can have, one of them at a     *)
(* time, the registers hold what was set.                                  *)

LEMMA Quotient ==
  ASSUME NEW a \in Int, NEW m \in Nat \ {0}
  PROVE  /\ a \div m \in Int /\ m * (a \div m) <= a /\ a < m * (a \div m) + m
         /\ a = m * (a \div m) + (a % m) /\ a % m \in 0 .. m - 1
<1> DEFINE q == a \div m
           r == a % m
<1>1. a = m * q + r /\ q \in Int /\ r \in 0 .. m - 1
  OBVIOUS
<1> HIDE DEF q, r
<1>2. m * q <= a /\ a < m * q + m
  BY <1>1
<1> QED BY <1>1, <1>2 DEF q, r

\* The quotient is the only number with that property.
LEMMA QuotientIs ==
  ASSUME NEW a \in Int, NEW m \in Nat \ {0}, NEW k \in Int, m * k <= a, a < m * k + m
  PROVE  a \div m = k
<1> DEFINE q == a \div m
<1>1. q \in Int /\ m * q <= a /\ a < m * q + m
  BY Quotient
<1> HIDE DEF q
<1>2. CASE k - q >= 1
  <2>1. m * (k - q) >= m
    BY <1>1, <1>2
  <2>2. m * (k - q) = m * k - m * q
    BY <1>1
  <2> QED BY <1>1, <2>1, <2>2
<1>3. CASE k - q <= -1
  <2>1. m * (q - k) >= m
    BY <1>1, <1>3
  <2>2. m * (q - k) = m * q - m * k
    BY <1>1
  <2> QED BY <1>1, <2>1, <2>2
<1>4. CASE k - q = 0
  BY <1>1, <1>4 DEF q
<1> QED BY <1>1, <1>2, <1>3, <1>4

LEMMA PositiveProduct ==
  ASSUME NEW a \in Nat \ {0}, NEW b \in Nat \ {0}
  PROVE  a * b \in Nat \ {0}
OBVIOUS

LEMMA Monotone ==
  ASSUME NEW a \in Int, NEW b \in Int, NEW m \in Nat, a <= b
  PROVE  m * a <= m * b /\ a * m <= b * m
<1>1. m * (b - a) >= 0
  OBVIOUS
<1>2. m * (b - a) = m * b - m * a
  OBVIOUS
<1> QED BY <1>1, <1>2

LEMMA NaturalQuotient ==
  ASSUME NEW a \in Nat, NEW m \in Nat \ {0}
  PROVE  a \div m \in Nat
<1> DEFINE q == a \div m
<1>1. q \in Int /\ a < m * q + m
  BY Quotient
<1> HIDE DEF q
<1>2. CASE q <= -1
  <2>1. m * (q + 1) <= 0
    BY <1>1, <1>2
  <2>2. m * (q + 1) = m * q + m
    BY <1>1
  <2> QED BY <1>1, <2>1, <2>2
<1>3. q \in Nat
  BY <1>1, <1>2
<1> QED BY <1>3 DEF q

LEMMA NaturalFrequency ==
  ASSUME NEW period \in Nat \ {0}
  PROVE  SECOND \div period \in Nat
<1>1. SECOND \in Nat
  BY SMT DEF SECOND
<1> QED BY <1>1, NaturalQuotient

\* What a frequency has to be for the registers to hold it.
Representable(f) ==
  /\ f # 0
  /\ PwmClock \div f <= MAX_COUNTER \/ (PwmClock \div 65536) % f # 0
  /\ \/ f <= Counts(f)
     \/ (PwmClock \div Prescaler(f)) % f = 0 /\ SECOND % f = 0
  /\ Counts(f) > 100

\* The prescaler fits its register, and with it the counts of a period theirs.
LEMMA PrescalerFits ==
  ASSUME NEW f \in Nat, Representable(f)
  PROVE  /\ Prescaler(f) \in Nat \ {0} /\ Prescaler(f) <= 65536
         /\ Counts(f) \in Nat /\ Counts(f) > 100 /\ Counts(f) <= MAX_COUNTER
<1> DEFINE c == PwmClock \div 65536
           d == c \div f
           q == Prescaler(f)
           a == PwmClock \div q
           n == a \div f
<1>0. f \in Nat \ {0} /\ PwmClock \in Nat \ {0} /\ PwmClock <= 1000000000
  BY SMT, PwmAssumption DEF Representable, SECOND
<1>1. c \in Nat /\ c <= 15258 /\ PwmClock < 65536 * c + 65536
  BY SMT, <1>0
<1>2. /\ d \in Int /\ f * d <= c /\ c < f * d + f
  BY SMT, <1>0, <1>1, Quotient DEF c
<1>3. Counts(f) = n /\ n > 100
  BY SMT DEF Counts, Representable
<1>4. CASE PwmClock \div f <= MAX_COUNTER
  <2>1. q = 1
    BY SMT, <1>4 DEF Prescaler
  <2>2. a = PwmClock
    BY SMT, <1>0, <2>1
  <2> QED BY SMT, <1>0, <1>3, <1>4, <2>1, <2>2 DEF MAX_COUNTER
<1>5. CASE ~(PwmClock \div f <= MAX_COUNTER)
  <2>1. c % f # 0
    BY SMT, <1>5 DEF Representable, c
  <2>2. q = d + 1
    BY SMT, <1>5, <2>1 DEF Prescaler, c, d
  <2> HIDE DEF c, d, q
  <2>3. f * q = f * d + f
    BY SMT, <1>0, <1>2, <2>2
  <2>4. d >= 0
    <3>1. CASE d <= -1
      <4>1. f * (d + 1) <= 0
        BY SMT, <1>0, <1>2, <3>1
      <4> QED BY SMT, <1>0, <1>1, <1>2, <2>2, <2>3, <4>1
    <3> QED BY SMT, <1>2, <3>1
  <2>5. d <= c
    <3>1. (f - 1) * d >= 0
      BY SMT, <1>0, <1>2, <2>4
    <3>2. (f - 1) * d = f * d - d
      BY SMT, <1>0, <1>2
    <3> QED BY SMT, <1>0, <1>1, <1>2, <3>1, <3>2
  <2>6. q \in Nat \ {0} /\ q <= 65536 /\ f * q >= c + 1
    BY SMT, <1>0, <1>1, <1>2, <2>2, <2>3, <2>4, <2>5
  <2>7. PwmClock < 65536 * (f * q)
    BY SMT, <1>0, <1>1, <2>6
  <2>8. a \in Int /\ q * a <= PwmClock /\ a < 65536 * f
    <3>1. a \in Int /\ q * a <= PwmClock
      BY SMT, <1>0, <2>6, Quotient DEF a
    <3> HIDE DEF a
    <3>2. CASE a >= 65536 * f
      <4>1. q * a >= q * (65536 * f)
        BY SMT, <1>0, <2>6, <3>1, <3>2, Monotone
      <4>2. q * (65536 * f) = 65536 * (f * q)
        BY SMT, <1>0, <2>6
      <4> QED BY SMT, <1>0, <2>7, <2>6, <3>1, <4>1, <4>2
    <3> QED BY SMT, <1>0, <3>1, <3>2
  <2> HIDE DEF a
  <2>9. n \in Int /\ f * n <= a
    BY SMT, <1>0, <2>8, Quotient DEF n
  <2>10. n <= 65535
    <3> HIDE DEF n
    <3>1. CASE n >= 65536
      <4>1. f * n >= f * 65536
        BY SMT, <1>0, <2>9, <3>1, Monotone
      <4> QED BY SMT, <1>0, <2>8, <2>9, <4>1
    <3> QED BY SMT, <2>9, <3>1
  <2> QED BY SMT, <1>3, <2>6, <2>9, <2>10 DEF MAX_COUNTER, q
<1> QED BY <1>4, <1>5

\* Nothing of a number is lost in dividing by f and back if the quotient is at
\* least f, or f divides it.
LEMMA ThereAndBack ==
  ASSUME NEW a \in Nat, NEW f \in Nat \ {0}, a \div f > 0, (f <= a \div f \/ a % f = 0)
  PROVE  a \div (a \div f) = f
<1> DEFINE n == a \div f
           r == a % f
<1>1. n \in Nat \ {0} /\ a = f * n + r /\ r \in 0 .. f - 1 /\ r < n
  BY SMT, Quotient
<1>2. n * f = f * n
  BY SMT, <1>1
<1> HIDE DEF n, r
<1>3. n * f <= a /\ a < n * f + n
  BY SMT, <1>1, <1>2
<1>4. a \div n = f
  BY SMT, <1>1, <1>3, QuotientIs
<1> QED BY <1>4 DEF n

\* The registers output the frequency, and the period they tell has it too.
LEMMA RegistersExact ==
  ASSUME NEW f \in Nat, Representable(f)
  PROVE  /\ (PwmClock \div Prescaler(f)) \div Counts(f) = f
         /\ SECOND \div f \in Nat \ {0} /\ SECOND \div (SECOND \div f) = f
<1> DEFINE q == Prescaler(f)
           a == PwmClock \div q
           n == a \div f
<1>0. f \in Nat \ {0} /\ PwmClock \in Nat \ {0} /\ PwmClock <= SECOND /\ SECOND \in Nat
  BY SMT, PwmAssumption DEF Representable, SECOND
<1>1. q \in Nat \ {0} /\ Counts(f) = n /\ n > 100
  BY SMT, PrescalerFits DEF Counts
<1>2. f <= n \/ (a % f = 0 /\ SECOND % f = 0)
  BY <1>1 DEF Representable
<1> HIDE DEF q
<1>3. a \in Nat /\ a <= PwmClock
  <2>1. a \in Int /\ q * a <= PwmClock /\ PwmClock < q * a + q
    BY SMT, <1>0, <1>1, Quotient
  <2> HIDE DEF a
  <2>2. a >= 0
    <3>1. CASE a <= -1
      <4>1. q * (a + 1) <= 0
        BY SMT, <1>1, <2>1, <3>1
      <4>2. q * (a + 1) = q * a + q
        BY SMT, <1>1, <2>1
      <4> QED BY SMT, <1>0, <1>1, <2>1, <4>1, <4>2
    <3> QED BY SMT, <2>1, <3>1
  <2>3. q * a >= a
    <3>1. (q - 1) * a >= 0
      BY SMT, <1>1, <2>1, <2>2
    <3>2. (q - 1) * a = q * a - a
      BY SMT, <1>1, <2>1
    <3> QED BY SMT, <1>1, <2>1, <3>1, <3>2
  <2> QED BY SMT, <1>0, <1>1, <2>1, <2>2, <2>3
<1> HIDE DEF a
<1>4. a \div n = f
  BY SMT, <1>0, <1>1, <1>2, <1>3, ThereAndBack
<1>5. n \in Int /\ f * n <= a
  BY SMT, <1>0, <1>3, Quotient
<1> HIDE DEF n
<1> DEFINE p == SECOND \div f
<1>6. p \in Int /\ f * p <= SECOND /\ SECOND < f * p + f
  BY SMT, <1>0, Quotient
<1> HIDE DEF p
<1>7. n <= p
  <2>1. CASE n >= p + 1
    <3>1. f * n >= f * (p + 1)
      BY SMT, <1>0, <1>5, <1>6, <2>1, Monotone
    <3>2. f * (p + 1) = f * p + f
      BY SMT, <1>0, <1>6
    <3> QED BY SMT, <1>0, <1>3, <1>5, <1>6, <3>1, <3>2
  <2> QED BY SMT, <1>5, <1>6, <2>1
<1>8. p > 0 /\ (f <= p \/ SECOND % f = 0)
  BY SMT, <1>0, <1>1, <1>2, <1>5, <1>6, <1>7
<1>9. SECOND \div p = f
  BY SMT, <1>0, <1>8, ThereAndBack DEF p
<1> QED BY SMT, <1>1, <1>4, <1>6, <1>8, <1>9 DEF p, q, a

\* Whole percents survive the way through the compare register.
LEMMA PercentKept ==
  ASSUME NEW n \in Nat, n > 100, NEW u \in Nat, u <= 100, NEW v \in Int,
         v = (u * n) \div 100, NEW m \in Int, m = IF v >= MIN_PULSE THEN v ELSE MIN_PULSE,
         NEW z \in Int, z = (m * 100) \div n
  PROVE  u - 1 <= z /\ z <= u + 1 /\ 1 <= m /\ m <= n
<1> DEFINE w == u * n
<1>1. w \in Int /\ 100 * v <= w /\ w < 100 * v + 100
  BY SMT
<1>2. z \in Int /\ n * z <= m * 100 /\ m * 100 < n * z + n
  <2> DEFINE b == m * 100
  <2>1. b \in Int /\ n \in Nat \ {0}
    BY SMT
  <2>2. z = b \div n
    OBVIOUS
  <2> HIDE DEF b
  <2>3. z \in Int /\ n * z <= b /\ b < n * z + n
    BY <2>1, <2>2, Quotient
  <2> QED BY <2>3 DEF b
<1>3. w >= 0 /\ w <= 100 * n
  BY SMT
<1>4. n * u = w
  BY SMT
<1>5. m = (IF v >= 2 THEN v ELSE 2) /\ 1 <= m /\ m <= n
  BY SMT, <1>1, <1>3 DEF MIN_PULSE
<1> HIDE DEF w
<1>6. m * 100 > n * (u - 1)
  <2>1. n * (u - 1) = w - n
    BY SMT, <1>4
  <2> QED BY SMT, <1>1, <1>5, <2>1
<1>7. m * 100 < n * (u + 2)
  <2>1. n * (u + 2) = w + 2 * n
    BY SMT, <1>4
  <2> QED BY SMT, <1>1, <1>3, <1>5, <2>1
<1>8. z >= u - 1
  <2>1. CASE z <= u - 2
    <3>1. n * z <= n * (u - 2)
      BY SMT, <1>2, <2>1, Monotone
    <3>2. n * (u - 2) = n * (u - 1) - n
      BY SMT
    <3> QED BY SMT, <1>2, <1>5, <1>6, <3>1, <3>2
  <2> QED BY SMT, <1>2, <2>1
<1>9. z <= u + 1
  <2>1. CASE z >= u + 2
    <3>1. n * z >= n * (u + 2)
      BY SMT, <1>2, <2>1, Monotone
    <3> QED BY SMT, <1>2, <1>5, <1>7, <3>1
  <2> QED BY SMT, <1>2, <2>1
<1> QED BY <1>5, <1>8, <1>9

\* All the periods that are asked for are ones the counter can have.
RepresentablePeriods == \A p \in Periods : Representable(SECOND \div p)

OneResolution == RepresentablePeriods /\ "periods" \notin PwmUses /\ "write_first" \notin PwmUses

PwmTypes ==
  /\ arr \in Int /\ psc \in Int /\ ccr \in [Channels -> Int]
  /\ cce \in SUBSET (Channels \cup Wired) /\ wanted_on \in SUBSET cce
  /\ cen \in BOOLEAN /\ moe \in BOOLEAN
  /\ wanted \in [Channels -> [period : Nat, pulse : Nat]]

\* The registers are those of a setting.
Holds(c, cfg) ==
  LET f == SECOND \div cfg.period
  IN  /\ cfg.period # 0 /\ cfg.pulse <= cfg.period /\ Representable(f)
      /\ arr = Counts(f) /\ psc = Prescaler(f)
      /\ ccr[c] = Max({PulseCounts(cfg.period, cfg.pulse, Counts(f)), MIN_PULSE})
      /\ moe

PwmIInv ==
  /\ PwmTypes
  /\ \A c \in Channels : wanted[c] # Unset => Holds(c, wanted[c])
  /\ wanted_on # {} => cen

LEMMA MaxOfTwo ==
  ASSUME NEW a \in Int, NEW b \in Int
  PROVE  Max({a, b}) = IF a >= b THEN a ELSE b
<1>1. \E x \in {a, b} : \A y \in {a, b} : x >= y
  <2>1. CASE a >= b
    BY SMT, <2>1
  <2>2. CASE ~(a >= b)
    BY SMT, <2>2
  <2> QED BY <2>1, <2>2
<1> DEFINE m == Max({a, b})
<1>2. m \in {a, b} /\ \A y \in {a, b} : m >= y
  BY <1>1 DEF Max
<1> HIDE DEF m
<1>3. m = IF a >= b THEN a ELSE b
  BY SMT, <1>2
<1> QED BY <1>3 DEF m

LEMMA RegisterKeeps ==
  ASSUME NEW n \in Int, 1 <= n, n <= 65536
  PROVE  Reg16(n) = n
<1>1. (n - 1) \div 65536 = 0
  BY SMT, QuotientIs
<1>2. n - 1 = 65536 * ((n - 1) \div 65536) + ((n - 1) % 65536)
  BY SMT, Quotient
<1> QED BY SMT, <1>1, <1>2 DEF Reg16

\* A pulse within the period is so many whole percents, and so many counts.
LEMMA PulseKept ==
  ASSUME NEW f \in Nat, Representable(f), NEW period \in Nat \ {0}, NEW pulse \in Nat,
         pulse <= period
  PROVE  LET n == Counts(f)
             m == Max({PulseCounts(period, pulse, n), MIN_PULSE})
         IN  /\ m \in Int /\ 1 <= m /\ m <= n
             /\ (m * 100) \div n - (pulse * 100) \div period \in {-1, 0, 1}
<1> DEFINE n == Counts(f)
           u == (pulse * 100) \div period
           v == (u * n) \div 100
           m == Max({PulseCounts(period, pulse, n), MIN_PULSE})
<1>1. n \in Nat /\ n > 100
  BY PrescalerFits
<1>2. pulse * 100 \in Int /\ pulse * 100 <= period * 100 /\ pulse * 100 >= 0
  BY SMT
<1>3. u \in Int /\ period * u <= pulse * 100 /\ pulse * 100 < period * u + period
  BY <1>2, Quotient
<1> HIDE DEF u
<1>4. u <= 100
  <2>1. CASE u >= 101
    <3>1. period * u >= period * 101
      BY SMT, <1>3, <2>1, Monotone
    <3> QED BY SMT, <1>2, <1>3, <3>1
  <2> QED BY SMT, <1>3, <2>1
<1>5. u >= 0
  <2>1. CASE u <= -1
    <3>1. period * (u + 1) <= 0
      BY SMT, <1>3, <2>1
    <3>2. period * (u + 1) = period * u + period
      BY SMT, <1>3
    <3> QED BY SMT, <1>2, <1>3, <3>1, <3>2
  <2> QED BY SMT, <1>3, <2>1
<1> HIDE DEF n
<1>6. u * n \in Int
  BY SMT, <1>1, <1>3
<1>7. v \in Int
  BY SMT, <1>6, Quotient
<1>8. PulseCounts(period, pulse, n) = v
  BY DEF PulseCounts, u, v
<1> HIDE DEF v
<1>9. m = IF v >= MIN_PULSE THEN v ELSE MIN_PULSE
  BY <1>7, <1>8, MaxOfTwo DEF MIN_PULSE
<1>10. m \in Int
  BY <1>7, <1>9 DEF MIN_PULSE
<1> HIDE DEF m
<1> DEFINE z == (m * 100) \div n
<1>11. z \in Int
  <2>1. m * 100 \in Int /\ n \in Nat \ {0}
    BY SMT, <1>1, <1>10
  <2> QED BY <2>1, Quotient
<1>12. z = (m * 100) \div n
  OBVIOUS
<1> HIDE DEF z
<1>13. u - 1 <= z /\ z <= u + 1 /\ 1 <= m /\ m <= n
  <2>1. v = (u * n) \div 100
    BY DEF v
  <2>2. u \in Nat
    BY SMT, <1>3, <1>5
  <2>3. n \in Nat /\ n > 100
    BY <1>1
  <2> QED BY ONLY <1>4, <1>7, <1>9, <1>10, <1>11, <1>12, <2>1, <2>2, <2>3, PercentKept
<1>14. z - u \in {-1, 0, 1}
  BY SMT, <1>3, <1>11, <1>13
<1> QED BY <1>10, <1>13, <1>14 DEF m, n, u, z

\* What the setting of a period the counter can have leaves in the registers.
LEMMA SetHolds ==
  ASSUME PwmTypes, NEW c \in Channels \cup {0}, NEW period \in Nat \ {0}, NEW pulse \in Nat,
         pulse <= period, Representable(SECOND \div period), SECOND \div period \in Nat,
         PwmDeviceSet(c, [period |-> period, pulse |-> pulse])
  PROVE  LET f == SECOND \div period
         IN  /\ arr' = Counts(f) /\ psc' = Prescaler(f)
             /\ c \in Channels =>
                  /\ wanted' = [wanted EXCEPT ![c] = [period |-> period, pulse |-> pulse]]
                  /\ ccr' = [ccr EXCEPT ![c] =
                               Max({PulseCounts(period, pulse, Counts(f)), MIN_PULSE})]
                  /\ moe' = TRUE /\ cce' = cce \cup {c}
             /\ c \notin Channels => UNCHANGED <<ccr, cce, moe, wanted>>
             /\ UNCHANGED <<cen, wanted_on>>
             /\ PwmTypes'
<1> DEFINE cfg == [period |-> period, pulse |-> pulse]
           f == SECOND \div period
           n == Counts(f)
           q == Prescaler(f)
           m == Max({PulseCounts(period, pulse, n), MIN_PULSE})
<1>1. /\ q \in Nat \ {0} /\ q <= 65536 /\ n \in Nat /\ n > 100 /\ n <= 65535
  BY PrescalerFits DEF MAX_COUNTER
<1>2. m \in Int /\ 1 <= m /\ m <= n
  BY PulseKept
<1>3. cfg.period = period /\ cfg.pulse = pulse
  OBVIOUS
<1>4. /\ arr' = Reg16(Max({n, MIN_COUNTER})) /\ psc' = Reg16(q)
      /\ IF c \in Channels
         THEN /\ ccr' = [ccr EXCEPT ![c] = Reg16(m)]
              /\ cce' = cce \cup {c} /\ moe' = TRUE
              /\ wanted' = [wanted EXCEPT ![c] = cfg]
         ELSE UNCHANGED <<ccr, cce, moe, wanted>>
      /\ UNCHANGED <<cen, wanted_on>>
  BY <1>3 DEF PwmDeviceSet
<1> HIDE DEF n, q, m, f
<1>5. Max({n, MIN_COUNTER}) = n
  BY <1>1, MaxOfTwo DEF MIN_COUNTER
<1>6. Reg16(n) = n /\ Reg16(q) = q /\ Reg16(m) = m
  BY SMT, <1>1, <1>2, RegisterKeeps
<1>7. arr' = n /\ psc' = q
  BY <1>4, <1>5, <1>6
<1>8. c \in Channels =>
        /\ wanted' = [wanted EXCEPT ![c] = cfg] /\ ccr' = [ccr EXCEPT ![c] = m]
        /\ moe' = TRUE /\ cce' = cce \cup {c}
  BY <1>4, <1>6
<1>9. PwmTypes'
  <2>1. arr' \in Int /\ psc' \in Int
    BY <1>1, <1>7
  <2>2. ccr' \in [Channels -> Int] /\ moe' \in BOOLEAN
    BY <1>2, <1>4, <1>8 DEF PwmTypes
  <2>4. wanted' \in [Channels -> [period : Nat, pulse : Nat]]
    <3>1. wanted \in [Channels -> [period : Nat, pulse : Nat]]
      BY DEF PwmTypes
    <3>2. cfg \in [period : Nat, pulse : Nat]
      OBVIOUS
    <3> HIDE DEF cfg
    <3> QED BY <1>4, <1>8, <3>1, <3>2
  <2>3. /\ cce' \in SUBSET (Channels \cup Wired) /\ wanted_on' \in SUBSET cce'
        /\ cen' \in BOOLEAN
    BY <1>4, <1>8 DEF PwmTypes
  <2> QED BY <2>1, <2>2, <2>3, <2>4 DEF PwmTypes
<1> QED BY <1>4, <1>7, <1>8, <1>9 DEF n, q, m, f

LEMMA PwmInitOK == PwmInit => PwmIInv
<1> SUFFICES ASSUME PwmInit
             PROVE  PwmIInv
  OBVIOUS
<1>1. wanted = [c \in Channels |-> Unset] /\ wanted_on = {}
  BY DEF PwmInit
<1>2. PwmTypes
  <2>1. /\ arr = 65536 /\ psc = 1 /\ ccr = [c \in Channels |-> 1] /\ cce = {}
        /\ cen = FALSE /\ moe = FALSE
    BY SMT DEF PwmInit
  <2>2. arr \in Int /\ psc \in Int /\ ccr \in [Channels -> Int]
    BY SMT, <2>1
  <2>3. Unset \in [period : Nat, pulse : Nat]
    BY SMT DEF Unset
  <2>4. wanted \in [Channels -> [period : Nat, pulse : Nat]]
    BY SMT, <1>1, <2>3
  <2>5. cce \in SUBSET (Channels \cup Wired) /\ wanted_on \in SUBSET cce
    BY <1>1, <2>1
  <2>6. cen \in BOOLEAN /\ moe \in BOOLEAN
    <3>1. cen = FALSE /\ moe = FALSE
      BY <2>1
    <3> QED BY Zenon, <3>1
  <2> QED BY <2>2, <2>4, <2>5, <2>6 DEF PwmTypes
<1> QED BY <1>1, <1>2 DEF PwmIInv

\* The channels that keep their setting have the new one's frequency.
LEMMA SettingKept ==
  ASSUME OneResolution, PwmIInv, NEW c \in Channels \cup {0}, NEW period \in Nat \ {0},
         NEW pulse \in Pulses, pulse <= period, Representable(SECOND \div period),
         Agreed(c, period), PwmDeviceSet(c, [period |-> period, pulse |-> pulse])
  PROVE  PwmIInv'
<1> DEFINE cfg == [period |-> period, pulse |-> pulse]
           f == SECOND \div period
<1>1. f \in Nat /\ pulse \in Nat
  <2>1. SECOND \div period \in Nat
    BY NaturalFrequency
  <2> QED BY SMT, <2>1, PwmAssumption
<1>2. /\ arr' = Counts(f) /\ psc' = Prescaler(f)
      /\ c \in Channels =>
           /\ wanted' = [wanted EXCEPT ![c] = cfg]
           /\ ccr' = [ccr EXCEPT ![c] = Max({PulseCounts(period, pulse, Counts(f)), MIN_PULSE})]
           /\ moe' = TRUE /\ cce' = cce \cup {c}
      /\ c \notin Channels => UNCHANGED <<ccr, cce, moe, wanted>>
      /\ UNCHANGED <<cen, wanted_on>>
      /\ PwmTypes'
  BY <1>1, SetHolds DEF PwmIInv
<1>3. \A x \in Channels \ {c} : wanted[x] \in {Unset} \cup [period : {period}, pulse : Pulses]
  BY DEF Agreed, OneResolution
<1>4. wanted \in [Channels -> [period : Nat, pulse : Nat]] /\ ccr \in [Channels -> Int]
  BY DEF PwmIInv, PwmTypes
<1>5. ASSUME NEW x \in Channels, wanted'[x] # Unset, x # c
      PROVE  Holds(x, wanted[x])' /\ wanted'[x] = wanted[x]
  <2>1. wanted'[x] = wanted[x] /\ ccr'[x] = ccr[x]
    BY <1>2, <1>4, <1>5
  <2>2. wanted[x] \in [period : {period}, pulse : Pulses]
    BY <1>3, <1>5, <2>1
  <2>3. wanted[x].period = period
    BY <2>2
  <2>4. Holds(x, wanted[x])
    BY <1>5, <2>1 DEF PwmIInv
  <2>5. moe'
    BY <1>2, <2>4 DEF Holds
  <2> HIDE DEF f
  <2>6. /\ period # 0 /\ wanted[x].pulse <= period /\ Representable(f)
        /\ ccr[x] = Max({PulseCounts(period, wanted[x].pulse, Counts(f)), MIN_PULSE})
    BY <2>3, <2>4 DEF Holds, f
  <2> QED BY <1>2, <2>1, <2>3, <2>5, <2>6 DEF Holds, f
<1>6. ASSUME c \in Channels
      PROVE  Holds(c, wanted[c])'
  <2>1. wanted'[c] = cfg
    BY <1>2, <1>4, <1>6
  <2>2. ccr'[c] = Max({PulseCounts(period, pulse, Counts(f)), MIN_PULSE})
    BY <1>2, <1>4, <1>6
  <2>3. cfg.period = period /\ cfg.pulse = pulse
    OBVIOUS
  <2> HIDE DEF f, cfg
  <2>4. moe'
    BY <1>2, <1>6
  <2> QED BY <1>2, <2>1, <2>2, <2>3, <2>4 DEF Holds, f
<1>7. \A x \in Channels : wanted'[x] # Unset => Holds(x, wanted[x])'
  BY <1>5, <1>6
<1> QED BY <1>2, <1>7 DEF PwmIInv

LEMMA PwmNextOK == OneResolution /\ PwmIInv /\ [PwmNext]_pwm_vars => PwmIInv'
<1> SUFFICES ASSUME OneResolution, PwmIInv, [PwmNext]_pwm_vars
             PROVE  PwmIInv'
  OBVIOUS
<1>1. ASSUME NEW c \in Channels \cup {0}, NEW period \in Periods, NEW pulse \in Pulses,
             rt_pwm_set(c, period, pulse)
      PROVE  PwmIInv'
  <2>1. period \in Nat \ {0} /\ Representable(SECOND \div period)
    BY PwmAssumption DEF OneResolution, RepresentablePeriods
  <2> QED BY <1>1, <2>1, SettingKept DEF rt_pwm_set
<1>2. ASSUME NEW c \in Channels, NEW pulse \in Pulses, PwmWrite(c, pulse)
      PROVE  PwmIInv'
  <2>1. PICK x \in Channels : wanted[x] # Unset
    BY <1>2 DEF PwmWrite, OneResolution
  <2> DEFINE f == SECOND \div wanted[x].period
             period == SECOND \div f
  <2>2. /\ Holds(x, wanted[x]) /\ wanted[x].period \in Nat \ {0}
    BY <2>1 DEF PwmIInv, PwmTypes, Holds
  <2>3. Representable(f) /\ arr = Counts(f) /\ psc = Prescaler(f)
    BY <2>2 DEF Holds
  <2>4. f \in Nat
    BY <2>2, NaturalFrequency
  <2> HIDE DEF f
  <2>5. Frequency = f
    BY <2>3, <2>4, RegistersExact DEF Frequency
  <2>6. period \in Nat \ {0} /\ Representable(SECOND \div period)
    BY <2>3, <2>4, RegistersExact
  <2>7. PwmGet(c).period = period /\ [PwmGet(c) EXCEPT !.pulse = pulse] = [period |-> period, pulse |-> pulse]
    BY <2>5 DEF PwmGet
  <2>8. pulse <= period /\ Agreed(c, period) /\ PwmDeviceSet(c, [period |-> period, pulse |-> pulse])
    BY <1>2, <2>7 DEF PwmWrite
  <2> HIDE DEF period
  <2> QED BY <2>6, <2>8, SettingKept
<1>3. ASSUME NEW c \in Channels, NEW enable \in BOOLEAN, rt_pwm_enable(c, enable)
      PROVE  PwmIInv'
  <2>1. UNCHANGED <<arr, psc, ccr, moe, wanted>> /\ cen' = TRUE
    BY <1>3 DEF rt_pwm_enable
  <2>2. PwmTypes'
    BY <1>3, <2>1 DEF PwmIInv, PwmTypes, rt_pwm_enable
  <2>3. \A x \in Channels : wanted'[x] # Unset => Holds(x, wanted[x])'
    BY <2>1 DEF PwmIInv, Holds
  <2> QED BY <2>1, <2>2, <2>3 DEF PwmIInv
<1>4. CASE UNCHANGED pwm_vars
  BY <1>4 DEF pwm_vars, PwmIInv, PwmTypes, Holds
<1> QED BY <1>1, <1>2, <1>3, <1>4 DEF PwmNext

LEMMA PwmIInvRight == PwmIInv => PwmAsSet
<1> SUFFICES ASSUME PwmIInv, NEW c \in Channels, wanted[c] # Unset
             PROVE  /\ Frequency = SECOND \div wanted[c].period
                    /\ Percent(c) - ((wanted[c].pulse * 100) \div wanted[c].period) \in {-1, 0, 1}
                    /\ c \in wanted_on => c \in cce /\ cen /\ moe
  BY DEF PwmAsSet
<1> DEFINE period == wanted[c].period
           pulse == wanted[c].pulse
           f == SECOND \div period
<1>1. period \in Nat \ {0} /\ pulse \in Nat /\ pulse <= period /\ Holds(c, wanted[c])
  BY DEF PwmIInv, PwmTypes, Holds
<1>2. f \in Nat
  BY <1>1, NaturalFrequency
<1>3. /\ Representable(f) /\ arr = Counts(f) /\ psc = Prescaler(f) /\ moe
      /\ ccr[c] = Max({PulseCounts(period, pulse, Counts(f)), MIN_PULSE})
  BY <1>1 DEF Holds
<1> HIDE DEF f
<1>4. Frequency = f
  BY <1>2, <1>3, RegistersExact DEF Frequency
<1> HIDE DEF period, pulse
<1>5. Percent(c) - (pulse * 100) \div period \in {-1, 0, 1}
  BY <1>1, <1>2, <1>3, PulseKept DEF Percent
<1>6. c \in wanted_on => c \in cce /\ cen
  BY DEF PwmIInv, PwmTypes
<1> QED BY <1>3, <1>4, <1>5, <1>6 DEF f, period, pulse

\* If the counter can have the periods asked for, and all channels agree on one,
\* every channel outputs what was set, to one percent of its pulse: the
\* registers of 16 bits lose nothing else (ch32_pwm_device_set).
THEOREM PwmOutputs == OneResolution => (PwmSpec => []PwmAsSet)
<1>1. ASSUME OneResolution
      PROVE  PwmSpec => []PwmAsSet
  <2>1. PwmIInv /\ [PwmNext]_pwm_vars => PwmIInv'
    BY <1>1, PwmNextOK
  <2> QED BY PwmInitOK, <2>1, PwmIInvRight, PTL DEF PwmSpec
<1> QED BY <1>1

=============================================================================
