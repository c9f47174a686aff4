------------------------------ MODULE UsbTo322 -------------------------------
(***************************************************************************)
(* The start of the program: main, eg_usbto322_init of                     *)
(* app/sys/eg_usbto322.c, which gives every USB reader that is listed a    *)
(* slot of controll_eg.usb_ccid_322, a thread and a stopped timer, and     *)
(* those threads, created by osal/osal_thread.c and os_pthread.c.          *)
(*                                                                         *)
(* The slot is all that a thread is given; init fills slots while earlier  *)
(* threads already run.  A name is a string of one character.              *)
(***************************************************************************)
EXTENDS Integers, Sequences, SequencesExt, FiniteSets

CONSTANTS
    usb_port_def,  \* the names of the ports that have a slot, in order
    OtherPorts,    \* names of ports that have none
    MaxListed      \* bound: readers that are listed

NUL == "NUL"
MAX_322_NUM == Len(usb_port_def)
Known == ToSet(usb_port_def)

ASSUME PortAssumption ==
    /\ MaxListed \in Nat /\ usb_port_def \in Seq(Known)
    /\ \A i, j \in 1..MAX_322_NUM : usb_port_def[i] = usb_port_def[j] => i = j
    /\ Known \cap OtherPorts = {} /\ IsFiniteSet(Known \cup OtherPorts)
    /\ \A p \in Known \cup OtherPorts : p = <<p[1]>> /\ p[1] # NUL

VARIABLES
    release,       \* how the program was built: osal_assert is empty
    listed,        \* history: the names of the readers, as luareader_get_list has them
    main,          \* where eg_usbto322_init is
    i,             \* its loop variable: the device it is at
    device_str,    \* the names it has taken from the list
    slot,          \* usb_ccid_322; slot -1 is the memory before the table
    task,          \* where the thread of each device is
    arg,           \* the slot that each thread was given
    info,          \* the thread_info_t of each thread
    port           \* what each thread's luareader context is connected to

vars == <<release, listed, main, i, device_str, slot, task, arg, info, port>>

Devices == 1..MAX_322_NUM
Slots == -1..(MAX_322_NUM - 1)
Names == Known \cup OtherPorts
NoName == << >>
Empty == [usb_port |-> NoName, exist |-> FALSE, timer |-> FALSE]

\* Readers are listed in any order, each once.
Lists == {s \in SetToAllKPermutations(Names) : Len(s) <= MaxListed}

\* global_init has cleared the table.
Init ==
    /\ release \in BOOLEAN
    /\ listed = << >> /\ device_str = << >>
    /\ main = "list" /\ i = 1
    /\ slot = [s \in Slots |-> Empty]
    /\ task = [k \in Devices |-> "none"]
    /\ arg = [k \in Devices |-> -1]
    /\ info = [k \in Devices |-> "none"]
    /\ port = [k \in Devices |-> NoName]

-----------------------------------------------------------------------------
(* eg_usbto322_init *)

\* What luareader_get_list writes: names that end with NUL, and NUL at the end.
Output(names) == FlattenSeq([k \in 1..Len(names) |-> names[k] \o <<NUL>>]) \o <<NUL>>

\* Mutant: the loop runs up to ret.
ScannedAll(ret) == ret

\* How much of the output the loop looks at.
Scanned(ret) == ret - 1

\* The loop over the output: what is between two NULs is a name, up to four of them.
Split(output, ret) ==
    LET nuls == {j \in 1..Scanned(ret) : output[j] = NUL}
        end(k) == IF k = 0 THEN 0
                  ELSE CHOOSE j \in nuls : Cardinality({n \in nuls : n <= j}) = k
        count == IF Cardinality(nuls) < MAX_322_NUM THEN Cardinality(nuls) ELSE MAX_322_NUM
    IN  [k \in 1..count |-> SubSeq(output, end(k - 1) + 1, end(k) - 1)]

\* luareader_get_list may fail: then there are no devices.
GetList ==
    /\ main = "list"
    /\ \/ /\ listed' \in Lists
          /\ device_str' = Split(Output(listed'), Len(Output(listed')))
       \/ UNCHANGED <<listed, device_str>>
    /\ main' = "device"
    /\ UNCHANGED <<release, i, slot, task, arg, info, port>>

\* The index in the table, or -1.
alloc_322_index(name) ==
    IF name \in Known THEN (CHOOSE j \in Devices : usb_port_def[j] = name) - 1 ELSE -1

FillSlot ==
    /\ main = "device" /\ i <= Len(device_str)
    /\ slot' = [slot EXCEPT ![alloc_322_index(device_str[i])].usb_port = device_str[i],
                            ![alloc_322_index(device_str[i])].exist = TRUE]
    /\ main' = "attr"
    /\ UNCHANGED <<release, listed, i, device_str, task, arg, info, port>>

\* The loop of main: nothing more happens.
Ready ==
    /\ main = "device" /\ i > Len(device_str)
    /\ main' = "sleep"
    /\ UNCHANGED <<release, listed, i, device_str, slot, task, arg, info, port>>

-----------------------------------------------------------------------------
(* osal_task_create, pthread_create_internel, osal_timer_create *)

\* osal_assert spins, or is empty in a release build.
OsalAssert(ok, next) == main' = IF ok \/ release THEN next ELSE "assert"

NoThread == task' = [task EXCEPT ![i] = "failed"] /\ OsalAssert(FALSE, "timer")

\* The cell for the thread's id and the attributes of the thread.
TaskAttr ==
    /\ main = "attr"
    /\ \/ main' = "info" /\ UNCHANGED task
       \/ NoThread
    /\ UNCHANGED <<release, listed, i, device_str, slot, arg, info, port>>

\* What the new thread is to run, in memory that it frees.
TaskInfo ==
    /\ main = "info"
    /\ \/ main' = "create" /\ info' = [info EXCEPT ![i] = "allocated"] /\ UNCHANGED task
       \/ NoThread /\ UNCHANGED info
    /\ UNCHANGED <<release, listed, i, device_str, slot, arg, port>>

\* Mutant: the attributes and the info are released on both paths.
TaskCreateFrees ==
    /\ main = "create"
    /\ info' = [info EXCEPT ![i] = "freed"]
    /\ \/ /\ task' = [task EXCEPT ![i] = "start"]
          /\ arg' = [arg EXCEPT ![i] = alloc_322_index(device_str[i])]
          /\ main' = "timer"
       \/ NoThread /\ UNCHANGED arg
    /\ UNCHANGED <<release, listed, i, device_str, slot, port>>

\* pthread_create: the new thread has the slot as its argument; if there is none,
\* the info is freed here.
TaskCreate ==
    /\ main = "create"
    /\ \/ /\ task' = [task EXCEPT ![i] = "start"]
          /\ arg' = [arg EXCEPT ![i] = alloc_322_index(device_str[i])]
          /\ main' = "timer"
          /\ UNCHANGED info
       \/ NoThread /\ info' = [info EXCEPT ![i] = "freed"] /\ UNCHANGED arg
    /\ UNCHANGED <<release, listed, i, device_str, slot, port>>

\* osal_timer_create; the timer stays stopped.
CreateTimer ==
    /\ main = "timer"
    /\ \E ok \in BOOLEAN :
        /\ slot' = [slot EXCEPT ![alloc_322_index(device_str[i])].timer = ok]
        /\ OsalAssert(ok, "device")
    /\ i' = i + 1
    /\ UNCHANGED <<release, listed, device_str, task, arg, info, port>>

-----------------------------------------------------------------------------
(* start_routine_wrapper and eg_usb_thread_entry *)

\* The wrapper copies what it is to run and frees it.
Start(k) ==
    /\ task[k] = "start"
    /\ info' = [info EXCEPT ![k] = "freed"]
    /\ task' = [task EXCEPT ![k] = "connect"]
    /\ UNCHANGED <<release, listed, main, i, device_str, slot, arg, port>>

\* Mutant: the thread uses the slot that init is at.
NameOfCurrent(k) == IF i > Len(device_str) THEN NoName
                    ELSE slot[alloc_322_index(device_str[i])].usb_port

\* The name that the thread finds in its slot when it connects.
NameOf(k) == slot[arg[k]].usb_port

\* luareader_connect
Connect(k) ==
    /\ task[k] = "connect"
    /\ \/ task' = [task EXCEPT ![k] = "sleep"] /\ port' = [port EXCEPT ![k] = NameOf(k)]
       \/ task' = [task EXCEPT ![k] = "out"] /\ UNCHANGED port
    /\ UNCHANGED <<release, listed, main, i, device_str, slot, arg, info>>

\* The context is disconnected, its error popped and the context terminated.
Out(k) ==
    /\ task[k] = "out"
    /\ task' = [task EXCEPT ![k] = "exit"]
    /\ UNCHANGED <<release, listed, main, i, device_str, slot, arg, info, port>>

-----------------------------------------------------------------------------

InitStep ==
    GetList \/ FillSlot \/ Ready \/ TaskAttr \/ TaskInfo \/ TaskCreate \/ CreateTimer

TaskStep(k) == Start(k) \/ Connect(k) \/ Out(k)

Next == InitStep \/ \E k \in Devices : TaskStep(k)

Spec == Init /\ [][Next]_vars

\* The threads of the program run.
FairSpec == Spec /\ WF_vars(InitStep) /\ \A k \in Devices : WF_vars(TaskStep(k))

-----------------------------------------------------------------------------
(* Properties *)

\* Every thread is connected to the reader it was made for, if that reader has a
\* slot, although init goes on filling slots while the threads start; and a slot is
\* only ever used for the port it stands for.
OwnReader ==
    /\ \A k \in Devices :
        (task[k] = "sleep" /\ device_str[k] \in Known) => port[k] = device_str[k]
    /\ \A s \in Slots \ {-1} : slot[s].exist => slot[s].usb_port = usb_port_def[s + 1]

\* If every reader that is listed is on a port that has a slot, nothing outside the
\* table is written: the list is cut into exactly its names.
WithinTable == ToSet(listed) \subseteq Known => slot[-1] = Empty

\* The thread_info_t is there when the new thread reads it, and is freed by that
\* thread, or by the creator if there is no thread: nobody else may free or keep it.
InfoHandedOver ==
    \A k \in Devices :
        info[k] = "allocated" <=> (task[k] = "start" \/ (main = "create" /\ i = k))

\* Every listed reader that has a slot, up to the fourth in the list, is connected to
\* or its thread gives up and ends, unless a thread or a timer could not be created.
AllServed ==
    \A k \in Devices :
        (k <= Len(listed) /\ listed[k] \in Known) ~>
            \/ task[k] = "sleep" /\ port[k] = listed[k]
            \/ task[k] \in {"exit", "failed"}
            \/ main = "assert"
=============================================================================
