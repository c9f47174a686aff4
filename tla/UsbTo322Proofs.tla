--------------------------- MODULE UsbTo322Proofs ----------------------------
(***************************************************************************)
(* Theorems about UsbTo322, for any table of ports and any list of         *)
(* readers: every thread is connected to its own reader, the memory that a *)
(* thread is started with has one owner, and nothing outside the table is  *)
(* written.                                                                *)
(*                                                                         *)
(* The first two hold whatever device_str is; for the last one it is shown *)
(* that the output of luareader_get_list is cut into exactly its names.    *)
(***************************************************************************)
EXTENDS UsbTo322, SequenceTheorems, FiniteSetTheorems, WellFoundedInduction, TLAPS

-----------------------------------------------------------------------------
(* The inductive invariant *)

\* The arrays have an entry for every device and slot, and a slot its three fields.
Shapes ==
    /\ i \in Nat
    /\ task = [k \in Devices |-> task[k]]
    /\ arg = [k \in Devices |-> arg[k]]
    /\ info = [k \in Devices |-> info[k]]
    /\ port = [k \in Devices |-> port[k]]
    /\ slot = [s \in Slots |-> slot[s]]
    /\ \A s \in Slots : slot[s] = [usb_port |-> slot[s].usb_port,
                                   exist |-> slot[s].exist, timer |-> slot[s].timer]

\* init is at the first device until it has the list, and the devices that it has
\* not come to have no thread.
NotYet ==
    /\ main = "list" => i = 1
    /\ \A k \in Devices :
        (\/ k > i
         \/ k = i /\ main \in {"list", "device", "attr", "info", "create"}) => task[k] = "none"

\* The slot of device k holds the device's name, if the device has a slot of its own.
Filled(k) ==
    device_str[k] \in Known => slot[alloc_322_index(device_str[k])].usb_port = device_str[k]

\* init fills the slot of a device before it creates the thread, and no later device
\* overwrites it while the thread is on its way to connect.
SlotsFilled ==
    /\ main \in {"attr", "info", "create"} => Filled(i)
    /\ \A k \in Devices :
        task[k] \in {"start", "connect"} => arg[k] = alloc_322_index(device_str[k]) /\ Filled(k)

UsbInv == Shapes /\ NotYet /\ SlotsFilled /\ OwnReader /\ InfoHandedOver

-----------------------------------------------------------------------------
(* The table of ports *)

\* Devices are numbered from 1.
LEMMA DevicesInts ==
    /\ MAX_322_NUM \in Nat
    /\ Devices \subseteq Nat \ {0}
    /\ -1 \in Slots
BY PortAssumption DEF MAX_322_NUM, Devices, Slots

\* A port that is known has the slot that stands for it, and every other port -1.
LEMMA IndexCorrect ==
    ASSUME NEW name
    PROVE  /\ alloc_322_index(name) \in Slots
           /\ name \in Known =>
                /\ alloc_322_index(name) # -1
                /\ usb_port_def[alloc_322_index(name) + 1] = name
           /\ name \notin Known => alloc_322_index(name) = -1
<1>1. CASE name \notin Known
  BY <1>1, DevicesInts DEF alloc_322_index
<1>2. CASE name \in Known
  <2> DEFINE P(j) == usb_port_def[j] = name
  <2>1. \E j \in Devices : P(j)
    BY <1>2, PortAssumption DEF Known, ToSet, Devices, MAX_322_NUM
  <2> DEFINE c == CHOOSE j \in Devices : P(j)
  <2>2. c \in Devices /\ P(c)
    BY <2>1
  <2>3. alloc_322_index(name) = c - 1
    BY <1>2 DEF alloc_322_index
  <2> HIDE DEF c
  <2>4. QED
    BY <1>2, <2>2, <2>3, DevicesInts DEF Devices, Slots, MAX_322_NUM
<1>3. QED
  BY <1>1, <1>2

\* Two ports of which one is known have the same index only if they are the same.
LEMMA IndexInjective ==
    ASSUME NEW a, NEW b, b \in Known, alloc_322_index(a) = alloc_322_index(b)
    PROVE  a = b
<1>1. a \in Known
  BY IndexCorrect
<1>2. QED
  BY <1>1, IndexCorrect

-----------------------------------------------------------------------------
(* Init and the steps of init *)

\* No device has a thread at first.
LEMMA InitUsb == Init => UsbInv
<1> SUFFICES ASSUME Init PROVE UsbInv
  OBVIOUS
<1>1. Shapes
  BY DEF Init, Shapes, Empty
<1>2. NotYet
  BY DevicesInts DEF Init, NotYet
<1>3. SlotsFilled
  BY DEF Init, SlotsFilled
<1>4. OwnReader
  BY DEF Init, OwnReader, Empty
<1>5. InfoHandedOver
  BY DEF Init, InfoHandedOver
<1>6. QED
  BY <1>1, <1>2, <1>3, <1>4, <1>5 DEF UsbInv

\* luareader_get_list and the loop over its output.
LEMMA GetListUsb == UsbInv /\ GetList => UsbInv'
<1> SUFFICES ASSUME UsbInv, GetList PROVE UsbInv'
  OBVIOUS
<1>1. \A k \in Devices : task[k] = "none"
  BY DevicesInts DEF UsbInv, NotYet, GetList
<1>2. Shapes'
  BY DEF UsbInv, Shapes, GetList
<1>3. NotYet'
  BY <1>1 DEF UsbInv, NotYet, GetList
<1>4. SlotsFilled'
  BY <1>1 DEF GetList, SlotsFilled
<1>5. OwnReader'
  BY <1>1 DEF UsbInv, OwnReader, GetList
<1>6. InfoHandedOver'
  BY DEF UsbInv, InfoHandedOver, GetList
<1>7. QED
  BY <1>2, <1>3, <1>4, <1>5, <1>6 DEF UsbInv

\* The slot of the next device is filled: only the device itself, or those without a
\* slot, are affected.
LEMMA FillSlotUsb == UsbInv /\ FillSlot => UsbInv'
<1> SUFFICES ASSUME UsbInv, FillSlot PROVE UsbInv'
  OBVIOUS
<1> DEFINE d == device_str[i]
           e == alloc_322_index(d)
<1>1. e \in Slots
  BY IndexCorrect
<1>2. /\ slot'[e].usb_port = d /\ slot'[e].exist = TRUE /\ slot'[e].timer = slot[e].timer
      /\ slot'[e] = [usb_port |-> d, exist |-> TRUE, timer |-> slot[e].timer]
      /\ \A s \in Slots \ {e} : slot'[s] = slot[s]
      /\ slot' = [s \in Slots |-> slot'[s]]
  <2> DEFINE named == [slot EXCEPT ![e] = [usb_port |-> d, exist |-> slot[e].exist,
                                           timer |-> slot[e].timer]]
         half == [slot EXCEPT ![e].usb_port = d]
  <2>1. half = named
    <3>1. /\ half = [s \in Slots |-> half[s]]
          /\ half[e] = [usb_port |-> d, exist |-> slot[e].exist, timer |-> slot[e].timer]
          /\ \A s \in Slots \ {e} : half[s] = slot[s]
      BY <1>1 DEF UsbInv, Shapes
    <3> HIDE DEF half, d, e
    <3>2. QED
      BY <1>1, <3>1 DEF UsbInv, Shapes
  <2>2. slot' = [named EXCEPT ![e].exist = TRUE]
    BY <2>1 DEF FillSlot
  <2> HIDE DEF e, d
  <2>3. QED
    BY <1>1, <2>2 DEF UsbInv, Shapes
<1>3. \A k : Filled(k) => Filled(k)'
  <2> SUFFICES ASSUME NEW k, Filled(k), device_str[k] \in Known
               PROVE  slot'[alloc_322_index(device_str[k])].usb_port = device_str[k]
    <3>1. device_str' = device_str
      BY DEF FillSlot
    <3>2. QED
      BY <3>1 DEF Filled, alloc_322_index
  <2>1. alloc_322_index(device_str[k]) \in Slots
    BY IndexCorrect
  <2>2. CASE alloc_322_index(device_str[k]) = e
    BY <1>2, <2>2, IndexInjective
  <2>3. CASE alloc_322_index(device_str[k]) # e
    BY <1>2, <2>1, <2>3 DEF Filled
  <2>4. QED
    BY <2>2, <2>3
<1>4. Filled(i)'
  BY <1>2 DEF Filled, FillSlot, alloc_322_index
<1>5. Shapes'
  BY <1>1, <1>2 DEF UsbInv, Shapes, FillSlot
<1>6. NotYet'
  BY DEF UsbInv, NotYet, FillSlot
<1>7. SlotsFilled'
  BY <1>3, <1>4 DEF UsbInv, SlotsFilled, FillSlot, alloc_322_index
<1>8. OwnReader'
  <2>1. \A s \in Slots \ {-1} : slot'[s].exist => slot'[s].usb_port = usb_port_def[s + 1]
    BY <1>1, <1>2, IndexCorrect DEF UsbInv, OwnReader
  <2>2. QED
    BY <2>1 DEF UsbInv, OwnReader, FillSlot
<1>9. InfoHandedOver'
  BY DEF UsbInv, InfoHandedOver, FillSlot
<1>10. QED
  BY <1>5, <1>6, <1>7, <1>8, <1>9 DEF UsbInv

\* The end of the device loop keeps the invariant.
LEMMA ReadyUsb == UsbInv /\ Ready => UsbInv'
BY DEF Ready, UsbInv, Shapes, NotYet, SlotsFilled, Filled, OwnReader, InfoHandedOver,
       alloc_322_index

\* What a failed creation does to the threads.
LEMMA NoThreadStep ==
    ASSUME Shapes, NoThread
    PROVE  /\ task' = [k \in Devices |-> task'[k]]
           /\ \A k \in Devices \ {i} : task'[k] = task[k]
           /\ i \in Devices => task'[i] = "failed"
           /\ main' \in {"timer", "assert"}
BY DEF Shapes, NoThread, OsalAssert

\* So do the attributes of a thread.
LEMMA TaskAttrUsb == UsbInv /\ TaskAttr => UsbInv'
<1> SUFFICES ASSUME UsbInv, TaskAttr PROVE UsbInv'
  OBVIOUS
<1>1. CASE main' = "info" /\ UNCHANGED task
  BY <1>1 DEF TaskAttr, UsbInv, Shapes, NotYet, SlotsFilled, Filled, OwnReader,
              InfoHandedOver, alloc_322_index
<1>2. CASE NoThread
  BY <1>2, NoThreadStep DEF TaskAttr, UsbInv, Shapes, NotYet, SlotsFilled, Filled, OwnReader,
              InfoHandedOver, alloc_322_index
<1>3. QED
  BY <1>1, <1>2 DEF TaskAttr

\* So does the thread_info_t that is made for it.
LEMMA TaskInfoUsb == UsbInv /\ TaskInfo => UsbInv'
<1> SUFFICES ASSUME UsbInv, TaskInfo PROVE UsbInv'
  OBVIOUS
<1>1. CASE main' = "create" /\ info' = [info EXCEPT ![i] = "allocated"] /\ UNCHANGED task
  BY <1>1 DEF TaskInfo, UsbInv, Shapes, NotYet, SlotsFilled, Filled, OwnReader,
              InfoHandedOver, alloc_322_index
<1>2. CASE NoThread /\ UNCHANGED info
  BY <1>2, NoThreadStep DEF TaskInfo, UsbInv, Shapes, NotYet, SlotsFilled, Filled, OwnReader,
              InfoHandedOver, alloc_322_index
<1>3. QED
  BY <1>1, <1>2 DEF TaskInfo

\* pthread_create: the info changes hands.
LEMMA TaskCreateUsb == UsbInv /\ TaskCreate => UsbInv'
<1> SUFFICES ASSUME UsbInv, TaskCreate PROVE UsbInv'
  OBVIOUS
<1>1. CASE /\ task' = [task EXCEPT ![i] = "start"]
           /\ arg' = [arg EXCEPT ![i] = alloc_322_index(device_str[i])]
           /\ main' = "timer"
           /\ UNCHANGED info
  <2>1. /\ main = "create" /\ UNCHANGED <<i, device_str, slot, port, info>>
        /\ Shapes /\ NotYet /\ SlotsFilled /\ OwnReader /\ InfoHandedOver
    BY <1>1 DEF TaskCreate, UsbInv
  <2>2. Shapes'
    BY <1>1, <2>1 DEF Shapes
  <2>3. NotYet'
    BY <1>1, <2>1 DEF NotYet, Shapes
  <2>4. SlotsFilled'
    <3>1. \A k : Filled(k) => Filled(k)'
      BY <2>1 DEF Filled, alloc_322_index
    <3>2. \A k : alloc_322_index(device_str'[k]) = alloc_322_index(device_str[k])
      BY <2>1
    <3>3. \A k \in Devices : task'[k] \in {"start", "connect"} =>
            arg'[k] = alloc_322_index(device_str[k]) /\ Filled(k)
      BY <1>1, <2>1 DEF SlotsFilled, Shapes
    <3>4. QED
      BY <1>1, <3>1, <3>2, <3>3 DEF SlotsFilled, alloc_322_index
  <2>5. OwnReader'
    BY <1>1, <2>1 DEF OwnReader, Shapes
  <2>6. InfoHandedOver'
    BY <1>1, <2>1 DEF InfoHandedOver, NotYet, Shapes
  <2>7. QED
    BY <2>2, <2>3, <2>4, <2>5, <2>6 DEF UsbInv
<1>2. CASE NoThread /\ info' = [info EXCEPT ![i] = "freed"] /\ UNCHANGED arg
  <2>1. /\ main = "create" /\ UNCHANGED <<i, device_str, slot, port, arg>>
        /\ Shapes /\ NotYet /\ SlotsFilled /\ OwnReader /\ InfoHandedOver
    BY <1>2 DEF TaskCreate, UsbInv
  <2>2. Shapes'
    BY <1>2, <2>1, NoThreadStep DEF Shapes
  <2>3. NotYet'
    BY <1>2, <2>1, NoThreadStep DEF NotYet, Shapes
  <2>4. SlotsFilled'
    BY <1>2, <2>1, NoThreadStep DEF SlotsFilled, Filled, alloc_322_index
  <2>5. OwnReader'
    BY <1>2, <2>1, NoThreadStep DEF OwnReader
  <2>6. InfoHandedOver'
    BY <1>2, <2>1, NoThreadStep DEF InfoHandedOver, Shapes
  <2>7. QED
    BY <2>2, <2>3, <2>4, <2>5, <2>6 DEF UsbInv
<1>3. QED
  BY <1>1, <1>2 DEF TaskCreate

\* osal_timer_create writes to the slot and leaves its name alone.
LEMMA CreateTimerUsb == UsbInv /\ CreateTimer => UsbInv'
<1> SUFFICES ASSUME UsbInv, CreateTimer PROVE UsbInv'
  OBVIOUS
<1> DEFINE e == alloc_322_index(device_str[i])
<1>1. e \in Slots
  BY IndexCorrect
<1>2. PICK ok \in BOOLEAN : /\ slot' = [slot EXCEPT ![e].timer = ok]
                            /\ OsalAssert(ok, "device")
  BY DEF CreateTimer
<1>3. /\ \A s \in Slots : /\ slot'[s].usb_port = slot[s].usb_port
                          /\ slot'[s].exist = slot[s].exist
                          /\ slot'[s] = [usb_port |-> slot'[s].usb_port,
                                         exist |-> slot'[s].exist, timer |-> slot'[s].timer]
      /\ slot' = [s \in Slots |-> slot'[s]]
  BY <1>1, <1>2 DEF UsbInv, Shapes
<1>4. main' \in {"device", "assert"} /\ i' = i + 1
  BY <1>2 DEF OsalAssert, CreateTimer
<1>5. Shapes'
  <2>1. UNCHANGED <<task, arg, info, port>>
    BY DEF CreateTimer
  <2>2. QED
    BY <1>3, <1>4, <2>1 DEF UsbInv, Shapes
<1>6. NotYet'
  BY <1>4, DevicesInts DEF UsbInv, Shapes, NotYet, CreateTimer
<1>7. \A k : Filled(k) => Filled(k)'
  BY <1>3, IndexCorrect DEF Filled, CreateTimer, alloc_322_index
<1>8. SlotsFilled'
  BY <1>4, <1>7 DEF UsbInv, SlotsFilled, CreateTimer, alloc_322_index
<1>9. OwnReader'
  BY <1>3 DEF UsbInv, OwnReader, CreateTimer
<1>10. InfoHandedOver'
  BY <1>4 DEF UsbInv, InfoHandedOver, CreateTimer
<1>11. QED
  BY <1>5, <1>6, <1>8, <1>9, <1>10 DEF UsbInv

-----------------------------------------------------------------------------
(* The steps of the threads *)

\* The wrapper frees the info; init is not about to hand it over.
LEMMA StartUsb == ASSUME UsbInv, NEW k \in Devices, Start(k) PROVE UsbInv'
BY DevicesInts DEF Start, UsbInv, Shapes, NotYet, SlotsFilled, Filled, OwnReader,
                   InfoHandedOver, alloc_322_index

\* The thread connects to the name in its slot.
LEMMA ConnectUsb == ASSUME UsbInv, NEW k \in Devices, Connect(k) PROVE UsbInv'
<1>1. arg[k] = alloc_322_index(device_str[k]) /\ Filled(k)
  BY DEF UsbInv, SlotsFilled, Connect
<1>2. device_str[k] \in Known => NameOf(k) = device_str[k]
  BY <1>1 DEF Filled, NameOf
<1>3. CASE task' = [task EXCEPT ![k] = "sleep"] /\ port' = [port EXCEPT ![k] = NameOf(k)]
  BY <1>2, <1>3 DEF Connect, UsbInv, Shapes, NotYet, SlotsFilled, Filled, OwnReader,
                    InfoHandedOver, alloc_322_index
<1>4. CASE task' = [task EXCEPT ![k] = "out"] /\ UNCHANGED port
  BY <1>4 DEF Connect, UsbInv, Shapes, NotYet, SlotsFilled, Filled, OwnReader,
              InfoHandedOver, alloc_322_index
<1>5. QED
  BY <1>3, <1>4 DEF Connect

\* So does the thread whose connect failed.
LEMMA OutUsb == ASSUME UsbInv, NEW k \in Devices, Out(k) PROVE UsbInv'
BY DEF Out, UsbInv, Shapes, NotYet, SlotsFilled, Filled, OwnReader, InfoHandedOver,
       alloc_322_index

-----------------------------------------------------------------------------

\* Every step keeps the invariant.
LEMMA NextUsb == UsbInv /\ [Next]_vars => UsbInv'
<1> SUFFICES ASSUME UsbInv, [Next]_vars PROVE UsbInv'
  OBVIOUS
<1>1. CASE InitStep
  BY <1>1, GetListUsb, FillSlotUsb, ReadyUsb, TaskAttrUsb, TaskInfoUsb, TaskCreateUsb,
     CreateTimerUsb DEF InitStep
<1>2. CASE \E k \in Devices : TaskStep(k)
  BY <1>2, StartUsb, ConnectUsb, OutUsb DEF TaskStep
<1>3. CASE UNCHANGED vars
  BY <1>3 DEF vars, UsbInv, Shapes, NotYet, SlotsFilled, Filled, OwnReader, InfoHandedOver,
              alloc_322_index
<1>4. QED
  BY <1>1, <1>2, <1>3 DEF Next

\* So it holds always.
LEMMA UsbInvariant == Spec => []UsbInv
<1>1. QED
  BY InitUsb, NextUsb, PTL DEF Spec

\* Every thread of eg_usb_thread_entry that has connected is connected to the reader it
\* was created for, whatever eg_usbto322_init does to the table in the meantime, and a
\* slot of usb_ccid_322 is only ever used for the port it stands for.
THEOREM ReadersOwn == Spec => []OwnReader
<1>1. UsbInv => OwnReader
  BY DEF UsbInv
<1>2. QED
  BY <1>1, UsbInvariant, PTL

\* The thread_info_t of pthread_create_internel has one owner at any time: the creator
\* until the thread exists, then the thread, and nobody after it was freed.
THEOREM InfoOwned == Spec => []InfoHandedOver
<1>1. UsbInv => InfoHandedOver
  BY DEF UsbInv
<1>2. QED
  BY <1>1, UsbInvariant, PTL

-----------------------------------------------------------------------------
(* The list of readers is cut into its names *)

\* Every set of numbers that is not empty has a least one.
LEMMA LeastNumber ==
    ASSUME NEW S \in SUBSET Nat, S # {}
    PROVE  \E n \in S : \A m \in S : n <= m
<1> DEFINE R == StrictSubsetOrdering(Nat)
           T == {0..n : n \in S}
<1>1. IsWellFoundedOn(R, FiniteSubsetsOf(Nat))
  BY FS_StrictSubsetOrderingWellFounded
<1>2. T \subseteq FiniteSubsetsOf(Nat)
  <2>1. \A n \in Nat : IsFiniteSet(0..n)
    BY FS_Interval
  <2>2. \A n \in Nat : 0..n \subseteq Nat
    OBVIOUS
  <2>3. \A n \in Nat : 0..n \in FiniteSubsetsOf(Nat)
    BY <2>1, <2>2, Zenon DEF FiniteSubsetsOf
  <2>4. QED
    BY <2>3
<1>3. T # {}
  OBVIOUS
<1>4. \E x \in T : \A y \in T : ~ (<<y, x>> \in R)
  <2> HIDE DEF R, T
  <2>1. QED
    BY <1>1, <1>2, <1>3, WFMin
<1>5. PICK n \in S : \A m \in S : ~ (<<0..m, 0..n>> \in R)
  BY <1>4
<1>6. ASSUME NEW m \in S, m < n PROVE FALSE
  <2>1. 0..m \subseteq 0..n /\ 0..m # 0..n
    <3>1. n \in 0..n /\ n \notin 0..m
      BY <1>6
    <3>2. QED
      BY <1>6, <3>1
  <2>2. 0..m \in SUBSET Nat /\ 0..n \in SUBSET Nat
    OBVIOUS
  <2>3. \A x, y \in SUBSET Nat : x \subseteq y /\ x # y => <<x, y>> \in R
    BY DEF StrictSubsetOrdering
  <2> HIDE DEF R
  <2>4. QED
    BY <1>5, <2>1, <2>2, <2>3, Zenon
<1>7. QED
  BY <1>6


\* The characters that luareader_get_list writes.
Chars == {p[1] : p \in Names} \cup {NUL}

\* A name with the NUL that ends it.
LEMMA NameEnded ==
    ASSUME NEW p \in Names
    PROVE  /\ p \o <<NUL>> \in Seq(Chars)
           /\ Len(p \o <<NUL>>) = 2
           /\ (p \o <<NUL>>)[1] = p[1] /\ (p \o <<NUL>>)[2] = NUL
           /\ p[1] # NUL /\ p = <<p[1]>>
<1>1. p = <<p[1]>> /\ p[1] # NUL
  BY PortAssumption DEF Names
<1>2. p[1] \in Chars /\ NUL \in Chars
  BY DEF Chars
<1>3. PICK c \in Chars : c = p[1]
  BY <1>2
<1>4. p \o <<NUL>> = <<c>> \o <<NUL>>
  BY <1>1, <1>3
<1> DEFINE s == <<c>>
           t == <<NUL>>
<1>5. s \in Seq(Chars) /\ t \in Seq(Chars)
  BY <1>2
<1>6. Len(s) = 1 /\ s[1] = c /\ Len(t) = 1 /\ t[1] = NUL
  OBVIOUS
<1> HIDE DEF s, t
<1>7. s \o t \in Seq(Chars) /\ Len(s \o t) = 2 /\ (s \o t)[1] = c /\ (s \o t)[2] = NUL
  BY <1>5, <1>6, ConcatProperties
<1>8. QED
  BY <1>1, <1>3, <1>4, <1>7 DEF s, t

\* The names one after the other: characters at the odd places, NUL at the even ones.
Joined(l, n) == [j \in 1..(2 * n) |-> IF j % 2 = 0 THEN NUL ELSE l[(j + 1) \div 2][1]]

\* The first n names joined are a sequence of characters.
LEMMA JoinedSeq ==
    ASSUME NEW l \in Seq(Names), NEW n \in 0..Len(l)
    PROVE  /\ Joined(l, n) \in Seq(Chars)
           /\ Len(Joined(l, n)) = 2 * n
           /\ \A k \in 1..n : Joined(l, n)[2 * k - 1] = l[k][1] /\ Joined(l, n)[2 * k] = NUL
<1>1. n \in Nat /\ n <= Len(l) /\ Len(l) \in Nat
  BY LenProperties
<1>2. ASSUME NEW j \in 1..(2 * n) PROVE Joined(l, n)[j] \in Chars
  <2>1. CASE j % 2 = 0
    BY <1>1, <2>1 DEF Joined, Chars
  <2>2. CASE j % 2 # 0
    <3>1. (j + 1) \div 2 \in 1..Len(l)
      BY <1>1
    <3>2. l[(j + 1) \div 2] \in Names
      BY <3>1, ElementOfSeq
    <3>3. QED
      BY <1>1, <2>2, <3>2 DEF Joined, Chars
  <2>3. QED
    BY <2>1, <2>2
<1>3. Joined(l, n) \in [1..(2 * n) -> Chars]
  BY <1>2 DEF Joined
<1>4. 2 * n \in Nat
  BY <1>1
<1>5. Joined(l, n) \in Seq(Chars) /\ Len(Joined(l, n)) = 2 * n
  BY <1>3, <1>4
<1>6. ASSUME NEW k \in 1..n
      PROVE  Joined(l, n)[2 * k - 1] = l[k][1] /\ Joined(l, n)[2 * k] = NUL
  <2>1. /\ 2 * k - 1 \in 1..(2 * n) /\ (2 * k - 1) % 2 # 0 /\ ((2 * k - 1) + 1) \div 2 = k
        /\ 2 * k \in 1..(2 * n) /\ (2 * k) % 2 = 0
    BY <1>1
  <2>2. QED
    BY <2>1 DEF Joined
<1>7. QED
  BY <1>5, <1>6

\* One name more is appended with its NUL.
LEMMA JoinedNext ==
    ASSUME NEW l \in Seq(Names), NEW n \in 1..Len(l)
    PROVE  Joined(l, n) = Joined(l, n - 1) \o (l[n] \o <<NUL>>)
<1> DEFINE s == Joined(l, n - 1)
           t == l[n] \o <<NUL>>
           r == Joined(l, n)
<1>1. n \in Nat /\ n - 1 \in 0..Len(l) /\ n \in 0..Len(l) /\ l[n] \in Names
  BY LenProperties, ElementOfSeq
<1>2. s \in Seq(Chars) /\ Len(s) = 2 * (n - 1)
  BY <1>1, JoinedSeq
<1>3. /\ t \in Seq(Chars) /\ Len(t) = 2
      /\ t[1] = l[n][1] /\ t[2] = NUL
  BY <1>1, NameEnded
<1>4. r \in Seq(Chars) /\ Len(r) = 2 * n /\ r[2 * n - 1] = l[n][1] /\ r[2 * n] = NUL
  BY <1>1, JoinedSeq
<1>5. \A j \in 1..(2 * (n - 1)) : r[j] = s[j]
  BY <1>1 DEF Joined
<1> HIDE DEF s, t, r
<1>6. /\ s \o t \in Seq(Chars) /\ Len(s \o t) = 2 * n
      /\ \A j \in 1..(2 * n) : (s \o t)[j] = IF j <= 2 * (n - 1) THEN s[j] ELSE t[j - 2 * (n - 1)]
  <2>1. Len(s) + Len(t) = 2 * n
    BY <1>1, <1>2, <1>3
  <2>2. QED
    <3>1. /\ s \o t \in Seq(Chars) /\ Len(s \o t) = Len(s) + Len(t)
          /\ \A j \in 1..(Len(s) + Len(t)) :
                (s \o t)[j] = IF j <= Len(s) THEN s[j] ELSE t[j - Len(s)]
      BY <1>2, <1>3, ConcatProperties
    <3>2. QED
      BY <1>2, <2>1, <3>1
<1>7. ASSUME NEW j \in 1..(2 * n) PROVE r[j] = (s \o t)[j]
  <2>1. CASE j <= 2 * (n - 1)
    BY <1>1, <1>5, <1>6, <2>1
  <2>2. CASE j = 2 * n - 1
    <3>1. ~(j <= 2 * (n - 1)) /\ j - 2 * (n - 1) = 1
      BY <1>1, <2>2
    <3>2. QED
      BY <1>3, <1>4, <1>6, <2>2, <3>1
  <2>3. CASE j = 2 * n
    <3>1. ~(j <= 2 * (n - 1)) /\ j - 2 * (n - 1) = 2
      BY <1>1, <2>3
    <3>2. QED
      BY <1>3, <1>4, <1>6, <2>3, <3>1
  <2>4. j <= 2 * (n - 1) \/ j = 2 * n - 1 \/ j = 2 * n
    BY <1>1
  <2>5. QED
    BY <2>1, <2>2, <2>3, <2>4
<1>8. r = s \o t
  BY <1>4, <1>6, <1>7, SeqEqual
<1>9. QED
  BY <1>8 DEF r, s, t

\* What luareader_get_list writes is the names and one more NUL.
LEMMA OutputJoined ==
    ASSUME NEW l \in Seq(Names)
    PROVE  Output(l) = Joined(l, Len(l)) \o <<NUL>>
<1> DEFINE n == Len(l)
           s == [k \in 1..n |-> l[k] \o <<NUL>>]
           F(f) == f = [h \in 1..n |-> IF h = 1 THEN s[h] ELSE f[h - 1] \o s[h]]
           w == [h \in 1..n |-> Joined(l, h)]
<1>1. n \in Nat
  BY LenProperties
<1>2. Len(s) = n
  BY <1>1
<1>3. CASE n = 0
  <2>1. FlattenSeq(s) = s
    BY <1>2, <1>3 DEF FlattenSeq
  <2>2. s = << >> /\ Joined(l, n) = << >>
    BY <1>3 DEF Joined
  <2>3. QED
    BY <2>1, <2>2 DEF Output
<1>4. CASE n # 0
  <2>1. ASSUME NEW h \in 1..n PROVE w[h] = IF h = 1 THEN s[h] ELSE w[h - 1] \o s[h]
    <3>1. Joined(l, h) = Joined(l, h - 1) \o s[h]
      BY JoinedNext
    <3>2. CASE h = 1
      <4>1. Joined(l, 0) = << >>
        BY DEF Joined
      <4>2. l[1] \in Names
        BY <3>2, ElementOfSeq
      <4>3. s[1] \in Seq(Chars)
        BY <3>2, <4>2, NameEnded
      <4>4. << >> \o s[1] = s[1]
        BY <4>3, ConcatEmptySeq
      <4>5. Joined(l, 1) = s[1]
        <5>1. h - 1 = 0
          BY <3>2
        <5>2. QED
          BY <3>1, <3>2, <4>1, <4>4, <5>1
      <4>6. QED
        BY <3>2, <4>5
    <3>3. CASE h # 1
      <4>1. h - 1 \in 1..n
        BY <1>1, <3>3
      <4>2. QED
        BY <3>1, <3>3, <4>1
    <3>4. QED
      BY <3>2, <3>3
  <2> HIDE DEF s
  <2>2. F(w)
    BY <2>1
  <2> DEFINE g == CHOOSE f : F(f)
  <2>3. F(g)
    <3>1. \E f : F(f)
      BY <2>2
    <3> HIDE DEF F
    <3>2. QED
      BY <3>1
  <2>4. FlattenSeq(s) = g[n]
    BY <1>2, <1>4 DEF FlattenSeq
  <2> HIDE DEF g
  <2>5. \A h \in 1..n : g[h] = w[h]
    <3> SUFFICES ASSUME NEW h \in 1..n, g[h] # w[h] PROVE FALSE
      OBVIOUS
    <3> DEFINE Bad == {j \in 1..n : g[j] # w[j]}
    <3>1. PICK m \in Bad : \A j \in Bad : m <= j
      <4>1. Bad \in SUBSET Nat /\ Bad # {}
        BY <1>1
      <4>2. QED
        BY <4>1, LeastNumber
    <3>2. m \in 1..n /\ g[m] # w[m]
      BY <3>1
    <3>3. m # 1 => m - 1 \in 1..n /\ g[m - 1] = w[m - 1]
      BY <1>1, <3>1, <3>2
    <3>4. g[m] = IF m = 1 THEN s[m] ELSE g[m - 1] \o s[m]
      BY <2>3, <3>2
    <3>5. QED
      BY <2>1, <3>2, <3>3, <3>4
  <2>6. g[n] = Joined(l, n)
    BY <1>1, <1>4, <2>5
  <2>7. Output(l) = FlattenSeq(s) \o <<NUL>>
    BY DEF Output, s
  <2>8. QED
    BY <2>4, <2>6, <2>7
<1>5. QED
  BY <1>3, <1>4
Evens(n) == {2 * k : k \in 1..n}

\* There are n even numbers up to 2 * n.
LEMMA EvensCount ==
    ASSUME NEW n \in Nat
    PROVE  Cardinality(Evens(n)) = n
<1> DEFINE f == [k \in 1..n |-> 2 * k]
<1>1. f \in Bijection(1..n, Evens(n))
  <2>1. f \in [1..n -> Evens(n)]
    BY DEF Evens
  <2>2. \A a, b \in 1..n : f[a] = f[b] => a = b
    OBVIOUS
  <2>3. \A e \in Evens(n) : \E a \in 1..n : f[a] = e
    BY DEF Evens
  <2> HIDE DEF f
  <2>4. QED
    BY <2>1, <2>2, <2>3 DEF Bijection, Injection, Surjection, IsInjective
<1>2. QED
  BY <1>1, FS_CountingElements DEF ExistsBijection

\* eg_usbto322_init takes the names out of what luareader_get_list has written exactly as
\* they are, up to the number of slots: none is cut, joined, invented or left out.
LEMMA SplitCorrect ==
    ASSUME NEW l \in Seq(Names)
    PROVE  Split(Output(l), Len(Output(l))) =
             [k \in 1..(IF Len(l) < MAX_322_NUM THEN Len(l) ELSE MAX_322_NUM) |-> l[k]]
<1> DEFINE n == Len(l)
           out == Output(l)
           nuls == {j \in 1..Scanned(Len(out)) : out[j] = NUL}
           end(k) == IF k = 0 THEN 0
                     ELSE CHOOSE j \in nuls : Cardinality({h \in nuls : h <= j}) = k
           count == IF Cardinality(nuls) < MAX_322_NUM THEN Cardinality(nuls)
                    ELSE MAX_322_NUM
<1>1. n \in Nat /\ n \in 0..n /\ MAX_322_NUM \in Nat
  BY LenProperties, DevicesInts
<1>2. /\ out \in Seq(Chars) /\ Len(out) = 2 * n + 1
      /\ \A k \in 1..n : out[2 * k - 1] = l[k][1] /\ out[2 * k] = NUL
  <2> DEFINE s == Joined(l, n)
             t == <<NUL>>
  <2>1. /\ s \in Seq(Chars) /\ Len(s) = 2 * n
        /\ \A k \in 1..n : s[2 * k - 1] = l[k][1] /\ s[2 * k] = NUL
    BY <1>1, JoinedSeq
  <2>2. t \in Seq(Chars) /\ Len(t) = 1
    BY DEF Chars
  <2>3. out = s \o t
    BY OutputJoined
  <2> HIDE DEF s, t, out
  <2>4. /\ out \in Seq(Chars) /\ Len(out) = 2 * n + 1
        /\ \A j \in 1..(2 * n + 1) : j <= 2 * n => out[j] = s[j]
    <3>1. /\ s \o t \in Seq(Chars) /\ Len(s \o t) = Len(s) + Len(t)
          /\ \A j \in 1..(Len(s) + Len(t)) :
                (s \o t)[j] = IF j <= Len(s) THEN s[j] ELSE t[j - Len(s)]
      BY <2>1, <2>2, ConcatProperties
    <3>2. QED
      BY <1>1, <2>1, <2>2, <2>3, <3>1
  <2>5. \A k \in 1..n : /\ 2 * k - 1 \in 1..(2 * n + 1) /\ 2 * k - 1 <= 2 * n
                        /\ 2 * k \in 1..(2 * n + 1) /\ 2 * k <= 2 * n
    BY <1>1
  <2>6. QED
    BY <2>1, <2>4, <2>5
<1>3. Split(out, Len(out)) = [k \in 1..count |-> SubSeq(out, end(k - 1) + 1, end(k) - 1)]
  BY DEF Split
<1> HIDE DEF out
<1>4. nuls = Evens(n)
  <2>1. Scanned(Len(out)) = 2 * n
    BY <1>1, <1>2 DEF Scanned
  <2>2. \A k \in 1..n : l[k][1] # NUL
    <3>1. \A k \in 1..n : l[k] \in Names
      BY ElementOfSeq
    <3>2. QED
      BY <3>1, NameEnded
  <2>3. ASSUME NEW j \in 1..(2 * n) PROVE out[j] = NUL <=> j \in Evens(n)
    <3>1. CASE j % 2 = 0
      <4>1. PICK k \in 1..n : j = 2 * k
        BY <1>1, <3>1
      <4>2. QED
        BY <1>2, <4>1 DEF Evens
    <3>2. CASE j % 2 # 0
      <4>1. PICK k \in 1..n : j = 2 * k - 1
        <5>1. (j + 1) \div 2 \in 1..n /\ j = 2 * ((j + 1) \div 2) - 1
          BY <1>1, <3>2
        <5>2. QED
          BY <5>1
      <4>2. j \notin Evens(n)
        BY <1>1, <4>1 DEF Evens
      <4>3. QED
        BY <1>2, <2>2, <4>1, <4>2
    <3>3. QED
      BY <3>1, <3>2
  <2>4. Evens(n) \subseteq 1..(2 * n)
    BY <1>1 DEF Evens
  <2>5. QED
    BY <2>1, <2>3, <2>4
<1> HIDE DEF nuls
<1>5. \A k \in 1..n : end(k) = 2 * k
  <2> SUFFICES ASSUME NEW k \in 1..n PROVE end(k) = 2 * k
    OBVIOUS
  <2> DEFINE Before(j) == Cardinality({h \in nuls : h <= j})
  <2>1. \A m \in 1..n : Before(2 * m) = m
    <3> SUFFICES ASSUME NEW m \in 1..n PROVE Before(2 * m) = m
      OBVIOUS
    <3>1. m \in Nat
      BY <1>1
    <3>2. {h \in nuls : h <= 2 * m} = Evens(m)
      BY <1>1, <1>4, <3>1 DEF Evens
    <3>3. QED
      BY <3>1, <3>2, EvensCount
  <2>2. 2 * k \in nuls
    BY <1>4 DEF Evens
  <2>3. \A j \in nuls : Before(j) = k => j = 2 * k
    <3> SUFFICES ASSUME NEW j \in nuls, Before(j) = k PROVE j = 2 * k
      OBVIOUS
    <3>1. PICK m \in 1..n : j = 2 * m
      BY <1>4 DEF Evens
    <3>2. m = k
      BY <2>1, <3>1
    <3>3. QED
      BY <3>1, <3>2
  <2>4. end(k) = CHOOSE j \in nuls : Before(j) = k
    <3>1. k # 0
      BY <1>1
    <3>2. QED
      BY <3>1, Zenon
  <2> HIDE DEF Before, end
  <2>5. QED
    BY <2>1, <2>2, <2>3, <2>4
<1>6. Cardinality(nuls) = n
  BY <1>1, <1>4, EvensCount
<1>7. end(0) = 0
  OBVIOUS
<1> HIDE DEF end
<1>8. ASSUME NEW k \in 1..n PROVE SubSeq(out, end(k - 1) + 1, end(k) - 1) = l[k]
  <2>1. end(k - 1) + 1 = 2 * k - 1 /\ end(k) - 1 = 2 * k - 1 /\ 2 * k - 1 \in 1..Len(out)
    <3>1. CASE k = 1
      BY <1>1, <1>2, <1>5, <1>7, <3>1
    <3>2. CASE k # 1
      <4>1. k - 1 \in 1..n
        BY <1>1, <3>2
      <4>2. end(k - 1) = 2 * (k - 1) /\ end(k) = 2 * k
        BY <1>5, <4>1
      <4>3. QED
        BY <1>1, <1>2, <4>2
    <3>3. QED
      BY <3>1, <3>2
  <2>2. PICK m \in 1..Len(out) : m = 2 * k - 1
    BY <2>1
  <2>3. out[m] = l[k][1]
    BY <1>2, <2>2
  <2>4. SubSeq(out, m, m) = <<out[m]>>
    <3>1. m \in Int /\ \A h \in m..m : out[h] \in Chars
      BY <1>2, ElementOfSeq
    <3> DEFINE s == SubSeq(out, m, m)
    <3>2. s \in Seq(Chars) /\ Len(s) = 1 /\ s[1] = out[m]
      BY <3>1, SubSeqProperties
    <3> HIDE DEF s
    <3>3. s = <<out[m]>>
      BY <3>2
    <3>4. QED
      BY <3>3 DEF s
  <2>5. l[k] \in Names
    BY ElementOfSeq
  <2>6. l[k] = <<l[k][1]>>
    BY <2>5, NameEnded
  <2>7. QED
    BY <2>1, <2>2, <2>3, <2>4, <2>6
<1>9. count = (IF n < MAX_322_NUM THEN n ELSE MAX_322_NUM) /\ count \in Nat /\ count <= n
  BY <1>1, <1>6
<1> HIDE DEF count
<1>10. [k \in 1..count |-> SubSeq(out, end(k - 1) + 1, end(k) - 1)] = [k \in 1..count |-> l[k]]
  BY <1>1, <1>8, <1>9
<1>11. QED
  BY <1>3, <1>9, <1>10 DEF out

-----------------------------------------------------------------------------
(* Nothing outside the table is written *)

\* The devices are listed readers, at most as many as there are slots.
NamesListed ==
    /\ Len(device_str) \in Nat
    /\ \A k \in 1..Len(device_str) : device_str[k] \in ToSet(listed)
    /\ main = "list" => listed = << >>

\* While init is in a round of its loop there is a device for it.
AtDevice ==
    /\ i # 0
    /\ main \in {"attr", "info", "create", "timer"} => i <= Len(device_str)

TableInv == NamesListed /\ AtDevice /\ WithinTable

\* A list of readers is a sequence of names.
LEMMA ListsSeqs ==
    ASSUME NEW l \in Lists
    PROVE  l \in Seq(Names)
<1>1. PICK s \in SUBSET Names : l \in SetToSeqs(s)
  BY DEF Lists, SetToAllKPermutations
<1>2. IsFiniteSet(s)
  BY PortAssumption, FS_Subset DEF Names
<1>3. PICK n \in Nat : n = Cardinality(s)
  BY <1>2, FS_CardinalityType
<1>4. l \in [1..n -> s]
  BY <1>1, <1>3 DEF SetToSeqs
<1>5. QED
  BY <1>4

\* The table is empty at first.
LEMMA InitTable == Init => TableInv
BY DEF Init, TableInv, NamesListed, AtDevice, WithinTable, Empty, Slots, MAX_322_NUM

\* The list is read: the names in device_str are names of the list.
LEMMA GetListTable == UsbInv /\ TableInv /\ GetList => TableInv'
<1> SUFFICES ASSUME UsbInv, TableInv, GetList PROVE TableInv'
  OBVIOUS
<1>1. main = "list" /\ main' = "device" /\ slot' = slot /\ i' = i
  BY DEF GetList
<1>2. slot[-1] = Empty
  <2>1. listed = << >>
    BY <1>1 DEF TableInv, NamesListed
  <2>2. ToSet(listed) = {}
    BY <2>1 DEF ToSet
  <2>3. QED
    BY <2>2 DEF TableInv, WithinTable
<1>3. NamesListed'
  <2>1. CASE UNCHANGED <<listed, device_str>>
    BY <1>1, <2>1 DEF TableInv, NamesListed, ToSet
  <2>2. CASE /\ listed' \in Lists
             /\ device_str' = Split(Output(listed'), Len(Output(listed')))
    <3>1. PICK l \in Seq(Names) : l = listed'
      BY <2>2, ListsSeqs
    <3> DEFINE n == IF Len(l) < MAX_322_NUM THEN Len(l) ELSE MAX_322_NUM
    <3>2. device_str' = [k \in 1..n |-> l[k]]
      BY <2>2, <3>1, SplitCorrect
    <3>3. n \in Nat /\ n <= Len(l) /\ Len(l) \in Nat
      BY DevicesInts, LenProperties
    <3> HIDE DEF n
    <3>4. Len(device_str') = n
      BY <3>2, <3>3
    <3>5. \A k \in 1..n : device_str'[k] \in ToSet(l)
      <4>1. DOMAIN l = 1..Len(l)
        BY LenProperties
      <4>2. QED
        BY <3>2, <3>3, <4>1 DEF ToSet
    <3>6. QED
      BY <1>1, <3>1, <3>3, <3>4, <3>5 DEF NamesListed, ToSet
  <2>3. QED
    BY <2>1, <2>2 DEF GetList
<1>4. AtDevice'
  BY <1>1 DEF TableInv, AtDevice
<1>5. WithinTable'
  BY <1>1, <1>2 DEF WithinTable
<1>6. QED
  BY <1>3, <1>4, <1>5 DEF TableInv

\* A slot is written by its index, which is -1 only for a reader that has none.
LEMMA SlotWritten ==
    ASSUME UsbInv, TableInv, i <= Len(device_str), ToSet(listed) \subseteq Known
    PROVE  alloc_322_index(device_str[i]) # -1
<1>1. i \in 1..Len(device_str)
  BY DEF UsbInv, Shapes, TableInv, AtDevice, NamesListed
<1>2. device_str[i] \in Known
  BY <1>1 DEF TableInv, NamesListed
<1>3. QED
  BY <1>2, IndexCorrect

\* Filling a slot, of a device that has one, writes inside of the table.
LEMMA FillSlotTable == UsbInv /\ TableInv /\ FillSlot => TableInv'
<1> SUFFICES ASSUME UsbInv, TableInv, FillSlot PROVE TableInv'
  OBVIOUS
<1> DEFINE e == alloc_322_index(device_str[i])
<1>1. /\ main = "device" /\ main' = "attr" /\ i <= Len(device_str)
      /\ i' = i /\ device_str' = device_str /\ listed' = listed
      /\ slot' = [slot EXCEPT ![e].usb_port = device_str[i], ![e].exist = TRUE]
  BY DEF FillSlot
<1>2. NamesListed' /\ AtDevice'
  BY <1>1 DEF TableInv, NamesListed, AtDevice, ToSet
<1>3. ASSUME ToSet(listed) \subseteq Known PROVE slot'[-1] = Empty
  <2>1. e # -1
    BY <1>1, <1>3, SlotWritten
  <2>2. slot'[-1] = slot[-1]
    <3> HIDE DEF e
    <3>1. QED
      BY <1>1, <2>1, DevicesInts DEF UsbInv, Shapes
  <2>3. QED
    BY <1>3, <2>2 DEF TableInv, WithinTable
<1>4. WithinTable'
  BY <1>1, <1>3 DEF WithinTable, ToSet
<1>5. QED
  BY <1>2, <1>4 DEF TableInv

\* So does storing the timer of a device.
LEMMA CreateTimerTable == UsbInv /\ TableInv /\ CreateTimer => TableInv'
<1> SUFFICES ASSUME UsbInv, TableInv, CreateTimer PROVE TableInv'
  OBVIOUS
<1> DEFINE e == alloc_322_index(device_str[i])
<1>1. PICK ok \in BOOLEAN : /\ slot' = [slot EXCEPT ![e].timer = ok]
                            /\ OsalAssert(ok, "device")
  BY DEF CreateTimer
<1>2. /\ main = "timer" /\ main' \in {"device", "assert"} /\ i' = i + 1
      /\ device_str' = device_str /\ listed' = listed
  BY <1>1 DEF OsalAssert, CreateTimer
<1>3. NamesListed' /\ AtDevice'
  BY <1>2 DEF UsbInv, Shapes, TableInv, NamesListed, AtDevice, ToSet
<1>4. ASSUME ToSet(listed) \subseteq Known PROVE slot'[-1] = Empty
  <2>1. i <= Len(device_str)
    BY <1>2 DEF TableInv, AtDevice
  <2>2. e # -1
    BY <1>4, <2>1, SlotWritten
  <2>3. slot'[-1] = slot[-1]
    <3> HIDE DEF e
    <3>1. QED
      BY <1>1, <2>2, DevicesInts DEF UsbInv, Shapes
  <2>4. QED
    BY <1>4, <2>3 DEF TableInv, WithinTable
<1>5. WithinTable'
  BY <1>2, <1>4 DEF WithinTable, ToSet
<1>6. QED
  BY <1>3, <1>5 DEF TableInv

\* The other steps write no slot; init goes on with the device it is at.
LEMMA OtherTable ==
    ASSUME UsbInv, TableInv, UNCHANGED <<listed, device_str, slot, i>>, main' # "list",
           main' \in {"attr", "info", "create", "timer"} =>
                main \in {"attr", "info", "create", "timer"}
    PROVE  TableInv'
BY DEF TableInv, NamesListed, AtDevice, WithinTable, ToSet

\* Every step keeps what is known of the table.
LEMMA NextTable == UsbInv /\ TableInv /\ [Next]_vars => TableInv'
<1> SUFFICES ASSUME UsbInv, TableInv, [Next]_vars PROVE TableInv'
  OBVIOUS
<1>1. CASE GetList
  BY <1>1, GetListTable
<1>2. CASE FillSlot
  BY <1>2, FillSlotTable
<1>3. CASE CreateTimer
  BY <1>3, CreateTimerTable
<1>4. CASE Ready \/ TaskAttr \/ TaskInfo \/ TaskCreate
  BY <1>4, OtherTable DEF Ready, TaskAttr, TaskInfo, TaskCreate, NoThread, OsalAssert
<1>5. CASE (\E k \in Devices : TaskStep(k)) \/ UNCHANGED vars
  BY <1>5 DEF TaskStep, Start, Connect, Out, vars, TableInv, NamesListed, AtDevice,
              WithinTable, ToSet
<1>6. QED
  BY <1>1, <1>2, <1>3, <1>4, <1>5 DEF Next, InitStep

\* If every reader that luareader_get_list returns is on a port that has a slot, then
\* eg_usbto322_init writes nothing before the table usb_ccid_322, whatever the order of
\* the list and however many of its readers there are.
THEOREM TableKept == Spec => []WithinTable
<1>1. TableInv => WithinTable
  BY DEF TableInv
<1>2. QED
  BY <1>1, InitTable, NextTable, UsbInvariant, PTL DEF Spec
=============================================================================
