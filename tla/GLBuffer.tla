------------------------------ MODULE GLBuffer ------------------------------
(***************************************************************************)
(* GLBuffer of src/gl/gl_buffer.cpp: a buffer that is filled from the      *)
(* front, one mapping after the other, while the hardware may still read   *)
(* what was written before.  Only a mapping that invalidates the buffer,   *)
(* or new storage, detaches it from those reads.                           *)
(***************************************************************************)
EXTENDS Naturals

CONSTANTS
    Sizes,        \* sizes for the constructor and EnsureSize, in bytes
    Nums,         \* numbers of elements for Map
    TypeSizes,    \* element sizes for Map
    OneType,      \* a buffer is used with one element size only
    Word          \* modulus of uint32_t: 2^32 in the code

ASSUME SizeAssumption ==
    /\ Sizes \subseteq Nat /\ Nums \subseteq Nat /\ TypeSizes \subseteq Nat \ {0}
    /\ OneType \in BOOLEAN /\ Word \in Nat \ {0}
    /\ \A s \in Sizes : 2 * s < Word
    /\ \A n \in Nums, t \in TypeSizes : 2 * (n * t) < Word

VARIABLES
    m_size,     \* bytes of storage
    m_offset,   \* where the next mapping starts
    m_mapped,
    m_reset,    \* start again at the front
    first,      \* the mapped bytes are those from first
    last,       \*   to last - 1
    wanted,     \* history: bytes asked for in the last Map
    inUse,      \* history: bytes of this storage written by earlier mappings
    typeSize    \* the element size of the buffer's user

bufferVars ==
    <<m_size, m_offset, m_mapped, m_reset, first, last, wanted, inUse, typeSize>>

BufferInit ==
    /\ m_size \in Sizes
    /\ m_offset = 0 /\ m_mapped = FALSE /\ m_reset = TRUE
    /\ first = 0 /\ last = 0 /\ wanted = 0 /\ inUse = {}
    /\ typeSize \in TypeSizes

(* glBufferData when the size is not enough: new storage, nothing in it.   *)
Ensured(size) ==
    IF size > m_size
    THEN [size |-> size, offset |-> 0, inUse |-> {}]
    ELSE [size |-> m_size, offset |-> m_offset, inUse |-> inUse]

(* Storage that is replaced while it is mapped takes the mapping with it,  *)
(* and m_mapped stays set.                                                 *)
EnsureSize(size) ==
    /\ m_size' = Ensured(size).size
    /\ m_offset' = Ensured(size).offset
    /\ inUse' = Ensured(size).inUse
    /\ IF size > m_size THEN first' = 0 /\ last' = 0 /\ wanted' = 0
       ELSE UNCHANGED <<first, last, wanted>>
    /\ UNCHANGED <<m_mapped, m_reset, typeSize>>

(* Map starts again at the front when there is not enough room behind.     *)
Rewinds(e, byteSize) == m_reset \/ (e.offset + byteSize) % Word > e.size

(* Mutant: the offset is returned in bytes.                                *)
ElementOffsetBytes(e, type) == e.offset

ElementOffset(e, type) == e.offset \div type

(* Map asserts that the buffer is not mapped.  A mapping at the front      *)
(* invalidates the buffer, one behind is unsynchronized.  The offset is    *)
(* returned in elements, and the mapping starts at that element.           *)
Map(num, type) ==
    LET byteSize == (num * type) % Word
        e == Ensured(byteSize)
        rewind == Rewinds(e, byteSize)
        offset == IF rewind THEN 0 ELSE ElementOffset(e, type)
    IN  /\ ~m_mapped
        /\ OneType => type = typeSize
        /\ m_mapped' = TRUE
        /\ m_size' = e.size
        /\ m_offset' = IF rewind THEN byteSize ELSE (e.offset + byteSize) % Word
        /\ m_reset' = FALSE
        /\ first' = offset * type
        /\ last' = offset * type + byteSize
        /\ wanted' = num * type
        /\ inUse' = IF rewind THEN {} ELSE e.inUse
        /\ UNCHANGED typeSize

(* The bytes are drawn from, from now on.                                  *)
UnMap ==
    /\ m_mapped
    /\ m_mapped' = FALSE
    /\ inUse' = inUse \cup first..(last - 1)
    /\ UNCHANGED <<m_size, m_offset, m_reset, first, last, wanted, typeSize>>

BufferNext ==
    \/ \E size \in Sizes : EnsureSize(size)
    \/ \E num \in Nums, type \in TypeSizes : Map(num, type)
    \/ UnMap

BufferSpec == BufferInit /\ [][BufferNext]_bufferVars

-----------------------------------------------------------------------------
BufferTypeOK ==
    /\ m_size \in Nat /\ 2 * m_size < Word
    /\ m_offset \in 0..m_size
    /\ m_mapped \in BOOLEAN /\ m_reset \in BOOLEAN
    /\ first \in Nat /\ last \in Nat /\ wanted \in Nat
    /\ inUse \subseteq Nat
    /\ typeSize \in TypeSizes

(* "Return a pointer to a buffer, with num elements of size typesize free" *)
(* (gl_buffer.h:20): the mapped bytes are as many as were asked for, lie   *)
(* in the storage, and none of them was handed out before since the        *)
(* storage was last invalidated or replaced.                               *)
MappedIsFree ==
    /\ BufferTypeOK
    /\ m_mapped => /\ last = first + wanted
                   /\ last <= m_size
                   /\ \A b \in inUse : b < first \/ b >= last
=============================================================================
