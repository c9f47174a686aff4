------------------------------- MODULE TlvBox --------------------------------
(***************************************************************************)
(* The message boxes of app/sys/tlv_box.c: values are put under a type,    *)
(* the box is serialized once, the buffer is sent, and the receiver parses *)
(* it into a box of its own.  A box may be put into another one.           *)
(*                                                                         *)
(* Values are sequences of bytes.  A box's m_list is the sequence of its   *)
(* tlvs in the order of the linked list, newest first; KeyList shows that  *)
(* the list behaves as a table.  A call that returns -1 changes nothing    *)
(* that can be reached afterwards and is not an action.                    *)
(*                                                                         *)
(* The buffer carries no data types: both ends have to agree on what is    *)
(* under a type, and the sets of types below are that agreement.           *)
(***************************************************************************)
EXTENDS Integers, Sequences, SequencesExt

CONSTANTS
    Boxes,         \* addresses of tlv_box_t
    ShortTypes,    \* types that hold a short,
    IntTypes,      \* an int,
    CharTypes,     \* a char,
    StringTypes,   \* a string,
    ObjectTypes,   \* a box
    Numbers,       \* the numbers that are put
    Little,        \* the host is little-endian
    MaxBytes       \* bound: the size of a box

Types == ShortTypes \cup IntTypes \cup CharTypes \cup StringTypes \cup ObjectTypes

ShortMax == 2 ^ 15 - 1

ASSUME ShortAssumption ==
    Types \subseteq 0..ShortMax /\ Numbers \subseteq 0..ShortMax /\ MaxBytes \in 0..ShortMax
ASSUME OrderAssumption == Little \in BOOLEAN
ASSUME AgreementAssumption ==
    ObjectTypes \cap (ShortTypes \cup IntTypes \cup CharTypes \cup StringTypes) = {}

VARIABLE box       \* the box at each address

NULL == << -1 >>

NoBox == [live |-> FALSE, list |-> << >>, buffer |-> NULL, bytes |-> 0]

Init == box = [b \in Boxes |-> NoBox]

-----------------------------------------------------------------------------
(* Numbers in memory *)

\* The number that bytes stand for, most significant first, and back.
Number(bytes) == FoldLeft(LAMBDA n, d : n * 256 + d, 0, bytes)

Digits(n, width) == [i \in 1..width |-> (n \div 256 ^ (width - i)) % 256]

\* What a variable holds when its memory holds these bytes, and back.
Load(bytes) == Number(IF Little THEN Reverse(bytes) ELSE bytes)

Store(n, width) == IF Little THEN Reverse(Digits(n, width)) ELSE Digits(n, width)

\* htons and htonl, and ntohs and ntohl, which are the same: the variable whose
\* bytes in memory are n in network order.
Hton(n, width) == Load(Digits(n, width))

-----------------------------------------------------------------------------
(* Lists of tlvs *)

TypesOf(list) == {list[i].type : i \in 1..Len(list)}

\* key_list_get, for a type that is there.
Find(list, t) == list[SelectInSeq(list, LAMBDA tlv : tlv.type = t)]

\* key_list_add: at the front, and refused when the type is there already.
Added(list, tlv) == IF tlv.type \in TypesOf(list) THEN list ELSE <<tlv>> \o list

\* What a tlv adds to m_serialized_bytes.
Size(tlv) == 4 + Len(tlv.value)

\* Mutant: the value of a number is copied as it is.
EncodeCopy(tlv) == Digits(tlv.type, 2) \o Digits(Len(tlv.value), 2) \o tlv.value

\* One tlv as tlv_box_serialize writes it: the type, the length and the value, all
\* through htons or htonl unless the value is bytes.
Encode(tlv) ==
    LET width == Len(tlv.value)
        net(n, w) == Store(Hton(n, w), w)
    IN  net(tlv.type, 2) \o net(width, 2)
            \o (IF tlv.data_type \in {"SHORT", "INT"} THEN net(Load(tlv.value), width)
                ELSE tlv.value)

\* The bytes that tlv_box_serialize writes for a list.
Wire(list) == FlattenSeq([i \in 1..Len(list) |-> Encode(list[i])])

\* One round of the loop of tlv_box_parse: the tlv at the offset is read and put.
ParseTlv(buffer, at) ==
    LET short(o) == Hton(Load(SubSeq(buffer, o + 1, o + 2)), 2)
        length == short(at.offset + 2)
        tlv == [type |-> short(at.offset), data_type |-> "BYTES",
                value |-> SubSeq(buffer, at.offset + 5, at.offset + 4 + length)]
    IN  [offset |-> at.offset + 4 + length, list |-> Added(at.list, tlv)]

\* The list that the loop makes of a buffer.  A round moves on, so there are no more
\* rounds than bytes.
ParseLoop(buffer) ==
    LET after[k \in 0..Len(buffer)] ==
            IF k = 0 THEN [offset |-> 0, list |-> << >>]
            ELSE LET at == after[k - 1]
                 IN  IF at.offset < Len(buffer) THEN ParseTlv(buffer, at) ELSE at
    IN  after[Len(buffer)].list

\* tlv_box_parse: every tlv is put, and the box keeps a copy of the buffer.
Parsed(buffer) ==
    [live |-> TRUE, list |-> ParseLoop(buffer), buffer |-> buffer, bytes |-> Len(buffer)]

-----------------------------------------------------------------------------
(* Operations *)

Serialized(b) == box[b].live /\ box[b].buffer # NULL

\* tlv_box_create
Create(b) ==
    /\ ~box[b].live
    /\ box' = [box EXCEPT ![b] = [NoBox EXCEPT !.live = TRUE]]

\* tlv_box_destroy
Destroy(b) ==
    /\ box[b].live
    /\ box' = [box EXCEPT ![b] = NoBox]

\* Mutant: the size of a tlv that the list refused is counted.
PutCountsRefused(b, tlv) ==
    /\ box[b].live /\ ~Serialized(b)
    /\ box[b].bytes + Size(tlv) <= MaxBytes
    /\ box' = [box EXCEPT ![b].list = Added(@, tlv), ![b].bytes = @ + Size(tlv)]

\* tlv_box_putobject: refused once the box is serialized and when the type is there.
PutObject(b, tlv) ==
    /\ box[b].live /\ ~Serialized(b)
    /\ tlv.type \notin TypesOf(box[b].list)
    /\ box[b].bytes + Size(tlv) <= MaxBytes
    /\ box' = [box EXCEPT ![b].list = Added(@, tlv), ![b].bytes = @ + Size(tlv)]

\* tlv_box_put_short; tlv_box_put_int, and tlv_box_put_long where a long has four
\* bytes; tlv_box_put_char; tlv_box_put_string, which puts the final zero too.
PutShort(b, t, n) == PutObject(b, [type |-> t, data_type |-> "SHORT", value |-> Store(n, 2)])

PutInt(b, t, n) == PutObject(b, [type |-> t, data_type |-> "INT", value |-> Store(n, 4)])

PutChar(b, t, n) == PutObject(b, [type |-> t, data_type |-> "CHAR", value |-> <<n % 256>>])

PutString(b, t, n) ==
    PutObject(b, [type |-> t, data_type |-> "STRING", value |-> <<n % 256, 0>>])

\* tlv_box_put_object: a copy of the other box's buffer; a box that was not
\* serialized has none, so it has to be empty.
PutBox(b, t, o) ==
    /\ b # o /\ box[o].live
    /\ Serialized(o) \/ box[o].bytes = 0
    /\ PutObject(b, [type |-> t, data_type |-> "OBJECT",
                     value |-> IF Serialized(o) THEN box[o].buffer ELSE << >>])

\* tlv_box_serialize (the buffer of an empty box is what malloc(0) returns, which is
\* not NULL).
Serialize(b) ==
    /\ box[b].live /\ ~Serialized(b)
    /\ box' = [box EXCEPT ![b].buffer = Wire(box[b].list)]

\* tlv_box_parse, of a buffer that another box was serialized to.
Parse(b, o) ==
    /\ ~box[b].live
    /\ Serialized(o)
    /\ box' = [box EXCEPT ![b] = Parsed(box[o].buffer)]

\* tlv_box_get_object: the value is parsed into a new box.
GetObject(b, o, t) ==
    /\ ~box[b].live /\ box[o].live
    /\ t \in TypesOf(box[o].list)
    /\ box' = [box EXCEPT ![b] = Parsed(Find(box[o].list, t).value)]

\* tlv_box_get_short, tlv_box_get_int and tlv_box_get_long.
GetNumber(list, t) == LET v == Find(list, t).value IN Hton(Load(v), Len(v))

\* tlv_box_get_char, tlv_box_get_string, tlv_box_get_bytes and
\* tlv_box_get_bytes_ptr, with room enough.
GetBytes(list, t) == Find(list, t).value

Next ==
    \E b \in Boxes :
        \/ Create(b) \/ Destroy(b) \/ Serialize(b)
        \/ \E n \in Numbers :
            \/ \E t \in ShortTypes : PutShort(b, t, n)
            \/ \E t \in IntTypes : PutInt(b, t, n)
            \/ \E t \in CharTypes : PutChar(b, t, n)
            \/ \E t \in StringTypes : PutString(b, t, n)
        \/ \E o \in Boxes :
            \/ Parse(b, o)
            \/ \E t \in ObjectTypes : PutBox(b, t, o) \/ GetObject(b, o, t)

Spec == Init /\ [][Next]_box

-----------------------------------------------------------------------------
(* Properties *)

\* The bytes that a list needs.
TotalSize(list) == FoldLeft(LAMBDA n, tlv : n + Size(tlv), 0, list)

\* m_serialized_bytes is what the tlvs in the list need, so tlv_box_serialize
\* writes exactly the buffer it has allocated, whatever was refused, copied from
\* another box or parsed before.
SizeExact ==
    \A b \in Boxes :
        /\ box[b].bytes = TotalSize(box[b].list)
        /\ Serialized(b) => Len(box[b].buffer) = box[b].bytes

\* A receiver that parses a serialized box's buffer finds the same types, and reads
\* (tlv_box_get_*) what was put: numbers on a host of either byte order, and bytes,
\* which are a whole box when one was put.  It stays so for a box that was itself
\* parsed out of another message and is passed on.
RoundTrip ==
    \A b \in Boxes : Serialized(b) =>
        LET sent == box[b].list
            got == Parsed(box[b].buffer).list
        IN  /\ TypesOf(got) = TypesOf(sent)
            /\ Len(got) = Len(sent)
            /\ \A i \in 1..Len(sent) :
                LET tlv == sent[i] IN
                IF tlv.data_type \in {"SHORT", "INT"}
                THEN GetNumber(got, tlv.type) = Load(tlv.value)
                ELSE GetBytes(got, tlv.type) = tlv.value
=============================================================================
