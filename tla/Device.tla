------------------------------- MODULE Device -------------------------------
(***************************************************************************)
(* The device layer, device.c: drivers register devices, threads find,     *)
(* open, use and close them.  Nothing in it takes a lock: a step is one    *)
(* access to a shared field, or one call of a driver.  The devices here    *)
(* are registered under one and the same name.                             *)
(***************************************************************************)
EXTENDS Lists, FiniteSets

CONSTANTS
  Clients,     \* threads
  Devs,        \* struct rt_device, static or from rt_device_create
  nodev,       \* RT_NULL
  HasOpen,     \* the devices whose driver has an open and a close function
  Standalone,  \* those registered with RT_DEVICE_FLAG_STANDALONE
  Fails,       \* the driver functions that may fail: "init", "open", "close"
  TakeTurns    \* registering, opening and closing do not overlap

ASSUME DeviceAssumption ==
  /\ Clients # {} /\ nodev \notin Devs
  /\ Standalone \cup HasOpen \subseteq Devs

VARIABLES
  devices,     \* the list of the class, newest first
  flag,        \* dev->flag
  open_flag, ref_count,
  dpc,         \* where each client is in its call
  dev,         \* the device it last found, or registers
  tmp,         \* ref_count as it loaded it
  opened,      \* history: it has the device open
  unclosed     \* history: devices whose driver refused the last close

device_vars == <<devices, flag, open_flag, ref_count, dpc, dev, tmp, opened, unclosed>>

DeviceInit ==
  /\ devices = <<>>
  /\ flag = [d \in Devs |-> {}] /\ open_flag = [d \in Devs |-> {}]
  /\ ref_count = [d \in Devs |-> 0]
  /\ dpc = [c \in Clients |-> "idle"] /\ dev = [c \in Clients |-> nodev]
  /\ tmp = [c \in Clients |-> 0]
  /\ opened = {} /\ unclosed = {}

Turn(c) == TakeTurns => \A x \in Clients \ {c} : dpc[x] = "idle"
At(c, l) == dpc[c] = l
Begin(c) == At(c, "idle") /\ Turn(c)
Goto(c, l) == dpc' = [dpc EXCEPT ![c] = l]
Registered(d) == Linked(devices, d)

\* The outcomes of a driver function: RT_EOK stands for -RT_ENOSYS too.
Result(f) == IF f \in Fails THEN {"EOK", "ERROR"} ELSE {"EOK"}

-----------------------------------------------------------------------------
(* Registration. *)

\* rt_device_register: the name is looked up first.  An object that is
\* registered already stops the system in rt_object_init.
RegisterFind(c, d) ==
  /\ Begin(c) /\ ~Registered(d) /\ c \notin opened
  /\ devices = <<>> /\ \A x \in Clients : At(x, "idle") \/ dev[x] # d
  /\ dev' = [dev EXCEPT ![c] = d] /\ Goto(c, "register")
  /\ UNCHANGED <<devices, flag, open_flag, ref_count, tmp, opened, unclosed>>

\* rt_object_init makes the device visible...
RegisterInit(c) ==
  /\ At(c, "register")
  /\ devices' = rt_list_insert_after(devices, dev[c]) /\ Goto(c, "fields")
  /\ UNCHANGED <<flag, open_flag, ref_count, dev, tmp, opened, unclosed>>

\* ... before its fields are set.
RegisterFields(c) ==
  /\ At(c, "fields")
  /\ flag' = [flag EXCEPT ![dev[c]] =
                IF dev[c] \in Standalone THEN {"STANDALONE"} ELSE {}]
  /\ ref_count' = [ref_count EXCEPT ![dev[c]] = 0]
  /\ open_flag' = [open_flag EXCEPT ![dev[c]] = {}]
  /\ unclosed' = unclosed \ {dev[c]} /\ Goto(c, "idle")
  /\ UNCHANGED <<devices, dev, tmp, opened>>

\* rt_device_unregister, of a device that nobody uses; whoever found it before
\* has to look it up again, as the assertions on the object type demand.
Unregister(c, d) ==
  /\ Begin(c) /\ Registered(d)
  /\ \A x \in Clients : dev[x] # d \/ (x \notin opened /\ At(x, "idle"))
  /\ devices' = rt_list_remove(devices, d)
  /\ dev' = [x \in Clients |-> IF dev[x] = d THEN nodev ELSE dev[x]]
  /\ UNCHANGED <<flag, open_flag, ref_count, dpc, tmp, opened, unclosed>>

rt_device_find(c) ==
  /\ At(c, "idle") /\ c \notin opened
  /\ dev' = [dev EXCEPT ![c] = IF devices = <<>> THEN nodev ELSE Head(devices)]
  /\ UNCHANGED <<devices, flag, open_flag, ref_count, dpc, tmp, opened, unclosed>>

-----------------------------------------------------------------------------
(* Opening. *)

Driver == <<devices, ref_count, dev, tmp, opened, unclosed>>

\* The driver's init function runs unless the device is active.
OpenInit(c) ==
  /\ Begin(c) /\ dev[c] # nodev /\ Registered(dev[c]) /\ c \notin opened
  /\ IF "ACTIVATED" \in flag[dev[c]] THEN Goto(c, "check")
     ELSE \E r \in Result("init") : Goto(c, IF r = "EOK" THEN "activate" ELSE "idle")
  /\ UNCHANGED <<Driver, flag, open_flag>>

OpenActivate(c) ==
  /\ At(c, "activate")
  /\ flag' = [flag EXCEPT ![dev[c]] = @ \cup {"ACTIVATED"}] /\ Goto(c, "check")
  /\ UNCHANGED <<Driver, open_flag>>

\* A stand-alone device that is open: -RT_EBUSY.
OpenCheck(c) ==
  /\ At(c, "check")
  /\ Goto(c, IF "STANDALONE" \in flag[dev[c]] /\ "OPEN" \in open_flag[dev[c]]
             THEN "idle" ELSE "open")
  /\ UNCHANGED <<Driver, flag, open_flag>>

\* The driver's open function, or the flags that were asked for.
OpenDevice(c) ==
  /\ At(c, "open")
  /\ IF dev[c] \in HasOpen
     THEN /\ \E r \in Result("open") : Goto(c, IF r = "EOK" THEN "opened" ELSE "idle")
          /\ UNCHANGED open_flag
     ELSE open_flag' = [open_flag EXCEPT ![dev[c]] = {}] /\ Goto(c, "opened")
  /\ UNCHANGED <<Driver, flag>>

OpenFlag(c) ==
  /\ At(c, "opened")
  /\ open_flag' = [open_flag EXCEPT ![dev[c]] = @ \cup {"OPEN"}]
  /\ tmp' = [tmp EXCEPT ![c] = ref_count[dev[c]]]
  /\ Goto(c, "count")
  /\ UNCHANGED <<devices, flag, ref_count, dev, opened, unclosed>>

OpenCount(c) ==
  /\ At(c, "count")
  /\ ref_count' = [ref_count EXCEPT ![dev[c]] = tmp[c] + 1]
  /\ opened' = opened \cup {c} /\ unclosed' = unclosed \ {dev[c]}
  /\ Goto(c, "idle")
  /\ UNCHANGED <<devices, flag, open_flag, dev, tmp>>

-----------------------------------------------------------------------------
(* Closing. *)

\* A count of 0 is refused.
CloseStart(c) ==
  /\ Begin(c) /\ c \in opened
  /\ IF ref_count[dev[c]] = 0
     THEN opened' = opened \ {c} /\ UNCHANGED <<dpc, tmp>>
     ELSE /\ tmp' = [tmp EXCEPT ![c] = ref_count[dev[c]]]
          /\ Goto(c, "uncount") /\ UNCHANGED opened
  /\ UNCHANGED <<devices, flag, open_flag, ref_count, dev, unclosed>>

CloseCount(c) ==
  /\ At(c, "uncount")
  /\ ref_count' = [ref_count EXCEPT ![dev[c]] = tmp[c] - 1]
  /\ opened' = opened \ {c} /\ Goto(c, "last")
  /\ UNCHANGED <<devices, flag, open_flag, dev, tmp, unclosed>>

\* Mutant: every close closes the driver.
CloseAlways(c) ==
  /\ At(c, "last")
  /\ open_flag' = [open_flag EXCEPT ![dev[c]] = {}] /\ Goto(c, "idle")
  /\ UNCHANGED <<devices, flag, ref_count, dev, tmp, opened, unclosed>>

\* The last one calls the driver; if that fails the flags stay.
CloseDevice(c) ==
  /\ At(c, "last") /\ Goto(c, "idle")
  /\ IF ref_count[dev[c]] # 0 THEN UNCHANGED <<open_flag, unclosed>>
     ELSE \E r \in IF dev[c] \in HasOpen THEN Result("close") ELSE {"EOK"} :
            IF r = "EOK"
            THEN open_flag' = [open_flag EXCEPT ![dev[c]] = {}] /\ UNCHANGED unclosed
            ELSE unclosed' = unclosed \cup {dev[c]} /\ UNCHANGED open_flag
  /\ UNCHANGED <<devices, flag, ref_count, dev, tmp, opened>>

-----------------------------------------------------------------------------
DeviceNext ==
  \E c \in Clients :
    \/ \E d \in Devs : RegisterFind(c, d) \/ Unregister(c, d)
    \/ RegisterInit(c) \/ RegisterFields(c) \/ rt_device_find(c)
    \/ OpenInit(c) \/ OpenActivate(c) \/ OpenCheck(c) \/ OpenDevice(c)
    \/ OpenFlag(c) \/ OpenCount(c)
    \/ CloseStart(c) \/ CloseCount(c) \/ CloseDevice(c)

DeviceSpec == DeviceInit /\ [][DeviceNext]_device_vars

-----------------------------------------------------------------------------
Holders(d) == {c \in opened : dev[c] = d}
Quiet == \A c \in Clients : dpc[c] = "idle"

(* Between calls, one name is one device, the reference count of a device  *)
(* is the number of clients that have it open, a device in use is active   *)
(* and marked open, a stand-alone one has one client, and a device that    *)
(* nobody uses is marked closed unless its driver refused the close        *)
(* (device.c:239-266, 289-306).                                            *)
CountExact ==
  Quiet =>
    /\ Len(devices) <= 1
    /\ \A d \in Devs : Registered(d) =>
         /\ ref_count[d] = Cardinality(Holders(d))
         /\ Holders(d) # {} => "OPEN" \in open_flag[d] /\ "ACTIVATED" \in flag[d]
         /\ "STANDALONE" \in flag[d] => Cardinality(Holders(d)) <= 1
         /\ Holders(d) = {} /\ d \notin unclosed => open_flag[d] = {}
=============================================================================
