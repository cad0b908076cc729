------------------------------ MODULE Objects ------------------------------
(***************************************************************************)
(* The object container of object.c: the list of the registered objects of *)
(* one class (the classes share nothing).  The list is changed with        *)
(* interrupts masked, but it is walked under the scheduler lock only: no   *)
(* other thread runs during a walk, handlers do.  A handler that uses the  *)
(* container is, for example, the tick handler with a timeout function     *)
(* that detaches or deletes a timer.                                       *)
(***************************************************************************)
EXTENDS Lists

CONSTANTS
  Users,       \* threads that call object.c
  Objs, Names,
  nil,         \* RT_NULL, and the head of the list
  AnyNode      \* handlers also remove the object at which a walk stands

ASSUME ObjectsAssumption == nil \notin Objs \cup Users

VARIABLES
  list,    \* information->object_list, from head.next on
  type,    \* object->type: "null", "static", "dynamic"
  name,    \* object->name
  locker,  \* the thread that walks with the scheduler locked
  node,    \* its local variable
  call     \* each thread's call: [op, obj, nm, met]

objects_vars == <<list, type, name, locker, node, call>>

\* met is history: the objects that have had the wanted name since the walk began.
NoCall == [op |-> "none", obj |-> nil, nm |-> nil, met |-> {}]

ObjectsInit ==
  /\ list = <<>>
  /\ type = [o \in Objs |-> "null"] /\ name = [o \in Objs |-> nil]
  /\ locker = nil /\ node = nil
  /\ call = [t \in Users |-> NoCall]

\* Mutant: the last node of the list is not looked at.
NextSkipsLast(o) ==
  IF ~Linked(list, o) THEN o
  ELSE IF PlaceOf(list, o) + 1 >= Len(list) THEN nil ELSE list[PlaceOf(list, o) + 1]

\* node->next: rt_list_remove leaves a removed node pointing to itself.
NextNode(o) ==
  IF ~Linked(list, o) THEN o
  ELSE IF PlaceOf(list, o) = Len(list) THEN nil ELSE list[PlaceOf(list, o) + 1]

FirstNode == IF list = <<>> THEN nil ELSE Head(list)

Free(t) == locker \in {nil, t} /\ call[t].op \in {"none", "ret"}
Unlocked == locker = nil

\* Whoever looks for o can no longer be expected to find it.
Lost(calls, o) == [t \in Users |-> [calls[t] EXCEPT !.met = @ \ {o}]]

-----------------------------------------------------------------------------
(* A thread's calls. *)

FindStart(t, n) ==
  /\ Free(t)
  /\ locker' = t /\ node' = FirstNode
  /\ call' = [call EXCEPT ![t] =
       [op |-> "find", obj |-> nil, nm |-> n,
        met |-> {o \in Range(list) : name[o] = n}]]
  /\ UNCHANGED <<list, type, name>>

\* One turn of the loop, or the return.
rt_object_find(t) ==
  /\ locker = t /\ call[t].op = "find"
  /\ IF node = nil \/ (node # nil /\ name[node] = call[t].nm)
     THEN /\ locker' = nil /\ node' = nil
          /\ call' = [call EXCEPT ![t].op = "ret", ![t].obj = node]
     ELSE node' = NextNode(node) /\ UNCHANGED <<locker, call>>
  /\ UNCHANGED <<list, type, name>>

\* Mutant: an object may be initialised a second time.
InitUnchecked(t, o, n) ==
  /\ Free(t)
  /\ locker' = t /\ node' = FirstNode
  /\ call' = [call EXCEPT ![t] = [NoCall EXCEPT !.op = "init", !.obj = o, !.nm = n]]
  /\ UNCHANGED <<list, type, name>>

\* The caller owns an object that is not registered, as the loop asserts.
InitStart(t, o, n) ==
  /\ Free(t) /\ type[o] = "null"
  /\ \A u \in Users : call[u].op \notin {"init", "link", "unlink"} \/ call[u].obj # o
  /\ locker' = t /\ node' = FirstNode
  /\ call' = [call EXCEPT ![t] = [NoCall EXCEPT !.op = "init", !.obj = o, !.nm = n]]
  /\ UNCHANGED <<list, type, name>>

\* The loop that asserts that the object is not on the list.
InitWalk(t) ==
  /\ locker = t /\ call[t].op = "init"
  /\ IF node = nil
     THEN locker' = nil /\ call' = [call EXCEPT ![t].op = "link"] /\ UNCHANGED node
     ELSE node' = NextNode(node) /\ UNCHANGED <<locker, call>>
  /\ UNCHANGED <<list, type, name>>

\* The type, the name, and the masked insertion.
rt_object_init(t) ==
  /\ Unlocked /\ call[t].op = "link"
  /\ LET o == call[t].obj
     IN  /\ type' = [type EXCEPT ![o] = "static"]
         /\ name' = [name EXCEPT ![o] = call[t].nm]
         /\ list' = rt_list_insert_after(list, o)
  /\ call' = [call EXCEPT ![t] = NoCall]
  /\ UNCHANGED <<locker, node>>

\* Without a walk; the memory is new, or there is none and nothing happens.
rt_object_allocate(t, o, n) ==
  /\ Free(t) /\ type[o] = "null" /\ o \notin Range(list)
  /\ \A u \in Users : call[u].op # "none" => call[u].obj # o
  /\ type' = [type EXCEPT ![o] = "dynamic"]
  /\ name' = [name EXCEPT ![o] = n]
  /\ list' = rt_list_insert_after(list, o)
  /\ call' = [call EXCEPT ![t] = NoCall]
  /\ UNCHANGED <<locker, node>>

\* rt_object_detach and rt_object_delete reset the type first...
RemoveStart(t, o) ==
  /\ Free(t) /\ o \in Range(list) /\ type[o] # "null"
  /\ type' = [type EXCEPT ![o] = "null"]
  /\ call' = [call EXCEPT ![t] = [NoCall EXCEPT !.op = "unlink", !.obj = o]]
  /\ UNCHANGED <<list, name, locker, node>>

\* ... and unlink the object with interrupts masked.
rt_object_detach(t) ==
  /\ Unlocked /\ call[t].op = "unlink"
  /\ list' = rt_list_remove(list, call[t].obj)
  /\ call' = [Lost(call, call[t].obj) EXCEPT ![t] = NoCall]
  /\ UNCHANGED <<type, name, locker, node>>

-----------------------------------------------------------------------------
(* A handler's calls, during which no thread runs. *)

InUse(o) == \E t \in Users : call[t].op \in {"init", "link", "unlink"} /\ call[t].obj = o

IsrDetach(o) ==
  /\ o \in Range(list) /\ ~InUse(o) /\ (AnyNode \/ node # o)
  /\ type' = [type EXCEPT ![o] = "null"]
  /\ list' = rt_list_remove(list, o)
  /\ call' = Lost(call, o)
  /\ UNCHANGED <<name, locker, node>>

IsrInit(o, n) ==
  /\ type[o] = "null" /\ o \notin Range(list) /\ ~InUse(o)
  /\ type' = [type EXCEPT ![o] = "static"]
  /\ name' = [name EXCEPT ![o] = n]
  /\ list' = rt_list_insert_after(list, o)
  /\ UNCHANGED <<locker, node, call>>

-----------------------------------------------------------------------------
ObjectsNext ==
  \/ \E t \in Users :
       \/ \E n \in Names : FindStart(t, n)
       \/ \E o \in Objs, n \in Names : InitStart(t, o, n) \/ rt_object_allocate(t, o, n)
       \/ \E o \in Objs : RemoveStart(t, o)
       \/ rt_object_find(t) \/ InitWalk(t) \/ rt_object_init(t) \/ rt_object_detach(t)
  \/ \E o \in Objs : IsrDetach(o) \/ \E n \in Names : IsrInit(o, n)

\* A thread that has locked the scheduler keeps the processor but for handlers,
\* which leave it some time again and again.
ObjectsFairness ==
  \A t \in Users : SF_objects_vars(rt_object_find(t) \/ InitWalk(t))

ObjectsSpec == ObjectsInit /\ [][ObjectsNext]_objects_vars /\ ObjectsFairness

-----------------------------------------------------------------------------
(* Properties. *)

(* rt_object_find (object.c:528) returns an object that is on the list     *)
(* under the name, or RT_NULL only if no object has been there under that  *)
(* name since the walk began, whatever handlers added or removed.          *)
FindRight ==
  [][\A t \in Users :
       call[t].op = "find" /\ call'[t].op = "ret" =>
         IF call'[t].obj = nil THEN call[t].met = {}
         ELSE call'[t].obj \in Range(list) /\ name[call'[t].obj] = call[t].nm]_objects_vars

(* A walk of the list with the scheduler locked (object.c:321, 543) ends.  *)
WalkEnds == \A t \in Users : locker = t ~> locker # t
=============================================================================
