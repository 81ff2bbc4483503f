----------------------------- MODULE LoopProofs -----------------------------
(***************************************************************************)
(* The loops of the cipher and of the copy routines compute what the       *)
(* operators of Password say in one step: encode_data and decode_data      *)
(* (Codec), and encode_copy and decode_copy (CopyLoop).                    *)
(***************************************************************************)
EXTENDS Codec, CopyLoop, StreamTheorems

CodecInv == TypeOK /\ LoopInvariant

LEMMA CodecInit == Init => CodecInv
<1>. SUFFICES ASSUME Init PROVE CodecInv
  OBVIOUS
<1>1. x \in Table /\ message \in Seq(Byte) /\ Len(message) \in Nat
  BY CodecAssumption, LenProperties DEF Init
<1>2. TypeOK
  BY <1>1, PassLengthAssumption DEF Init, TypeOK, Table, Byte
<1>3. LoopInvariant
  <2>1. InvertedUpTo(0)
    BY DEF Init, InvertedUpTo, Byte
  <2>2. \A k \in 1 .. Len(message) : ~(k <= 0)
    BY <1>1
  <2>. QED
    BY <1>1, <2>1, <2>2 DEF Init, LoopInvariant
<1>. QED
  BY <1>2, <1>3 DEF CodecInv

(* An in-place step writes one byte and leaves the others.                  *)
LEMMA WriteByte ==
  ASSUME NEW s \in Seq(Byte), NEW t \in Table, NEW k \in Nat, k < Len(s)
  PROVE  LET r == [s EXCEPT ![k + 1] = t[@]] IN
         /\ r \in Seq(Byte) /\ Len(r) = Len(s)
         /\ \A m \in 1 .. Len(s) : r[m] = IF m = k + 1 THEN t[s[m]] ELSE s[m]
<1>1. Len(s) \in Nat /\ k + 1 \in 1 .. Len(s)
  BY LenProperties
<1>2. s[k + 1] \in Byte
  BY <1>1, ElementOfSeq
<1>3. t[s[k + 1]] \in Byte
  BY <1>2 DEF Table
<1>. QED
  BY <1>1, <1>3, ExceptSeq

LEMMA EncodeKeeps == CodecInv /\ EncodeStep => CodecInv'
<1>. SUFFICES ASSUME CodecInv, EncodeStep PROVE CodecInv'
  OBVIOUS
<1>. USE DEF CodecInv
<1>0. /\ Len(message) \in Nat /\ Len(bytes) = Len(message) /\ i \in Nat
      /\ pc = "encode" /\ x' = x /\ message' = message /\ dec' = dec
      /\ InvertedUpTo(0)
      /\ \A k \in 1 .. Len(message) :
           bytes[k] = IF k <= i THEN x[message[k]] ELSE message[k]
  BY LenProperties DEF TypeOK, LoopInvariant, EncodeStep
<1>1. InvertedUpTo(0)'
  BY <1>0 DEF InvertedUpTo
<1>2. CASE i < Len(bytes)
  <2>1. /\ bytes' = [bytes EXCEPT ![i + 1] = x[@]] /\ i' = i + 1 /\ pc' = pc
    BY <1>2 DEF EncodeStep
  <2>2. /\ bytes' \in Seq(Byte) /\ Len(bytes') = Len(bytes)
        /\ \A m \in 1 .. Len(bytes) :
             bytes'[m] = IF m = i + 1 THEN x[bytes[m]] ELSE bytes[m]
    BY <1>0, <1>2, <2>1, WriteByte DEF TypeOK
  <2>3. \A k \in 1 .. Len(message) :
          bytes'[k] = IF k <= i' THEN x[message[k]] ELSE message[k]
    BY <1>0, <2>1, <2>2
  <2>4. TypeOK'
    BY <1>0, <2>1, <2>2 DEF TypeOK
  <2>. QED
    BY <1>0, <1>1, <1>2, <2>1, <2>2, <2>3, <2>4 DEF LoopInvariant
<1>3. CASE ~(i < Len(bytes))
  <2>1. bytes' = bytes /\ i' = 0 /\ pc' = "invert"
    BY <1>3 DEF EncodeStep
  <2>2. i = Len(message)
    BY <1>0, <1>3 DEF LoopInvariant
  <2>3. \A k \in 1 .. Len(message) : bytes'[k] = x[message[k]]
    BY <1>0, <2>1, <2>2
  <2>4. TypeOK'
    BY <1>0, <2>1 DEF TypeOK
  <2>. QED
    BY <1>0, <1>1, <2>1, <2>3, <2>4, PassLengthAssumption DEF LoopInvariant
<1>. QED
  BY <1>2, <1>3

LEMMA InvertKeeps == CodecInv /\ InvertStep => CodecInv'
<1>. SUFFICES ASSUME CodecInv, InvertStep PROVE CodecInv'
  OBVIOUS
<1>. USE DEF CodecInv
<1>0. /\ Len(message) \in Nat /\ i \in Nat /\ PASS_LENGTH \in Nat \ {0}
      /\ pc = "invert" /\ x' = x /\ message' = message /\ bytes' = bytes
      /\ x \in Table /\ dec \in Table /\ i <= PASS_LENGTH
      /\ InvertedUpTo(i)
      /\ Len(bytes) = Len(message)
      /\ \A k \in 1 .. Len(message) : bytes[k] = x[message[k]]
  BY LenProperties, PassLengthAssumption DEF TypeOK, LoopInvariant, InvertStep
<1>1. CASE i < PASS_LENGTH
  <2>1. dec' = [dec EXCEPT ![x[i]] = i] /\ i' = i + 1 /\ pc' = pc
    BY <1>1 DEF InvertStep
  <2>2. i \in Byte /\ x[i] \in Byte
    BY <1>0, <1>1 DEF Byte, Table
  <2>3. /\ dec' \in Table
        /\ \A b \in Byte : dec'[b] = IF b = x[i] THEN i ELSE dec[b]
    BY <1>0, <2>1, <2>2 DEF Table
  <2>4. InvertedUpTo(i)'
    <3>. SUFFICES ASSUME NEW b \in Byte
                  PROVE  LET before == {j \in Byte : j < i + 1 /\ x[j] = b} IN
                         IF before = {} THEN dec'[b] = 0
                           ELSE /\ dec'[b] \in before
                                /\ \A j \in before : j <= dec'[b]
      BY <1>0, <2>1 DEF InvertedUpTo
    <3>. DEFINE old == {j \in Byte : j < i /\ x[j] = b}
                new == {j \in Byte : j < i + 1 /\ x[j] = b}
    <3>1. CASE x[i] = b
      <4>1. dec'[b] = i /\ i \in new
        BY <2>2, <2>3, <3>1, <1>0
      <4>2. \A j \in new : j <= i
        BY <1>0 DEF Byte
      <4>. QED
        BY <4>1, <4>2
    <3>2. CASE x[i] # b
      <4>1. new = old
        BY <3>2, <1>0 DEF Byte
      <4>2. dec'[b] = dec[b]
        BY <2>3, <3>2
      <4>3. IF old = {} THEN dec[b] = 0
                        ELSE dec[b] \in old /\ \A j \in old : j <= dec[b]
        BY <1>0 DEF InvertedUpTo
      <4>. HIDE DEF old, new
      <4>4. IF new = {} THEN dec'[b] = 0
                        ELSE dec'[b] \in new /\ \A j \in new : j <= dec'[b]
        BY <4>1, <4>2, <4>3
      <4>. QED
        BY <4>4 DEF new
    <3>. QED
      BY <3>1, <3>2
  <2>5. TypeOK'
    BY <1>0, <2>1, <2>3 DEF TypeOK
  <2>. QED
    BY <1>0, <1>1, <2>1, <2>4, <2>5 DEF LoopInvariant
<1>2. CASE ~(i < PASS_LENGTH)
  <2>1. dec' = dec /\ i' = 0 /\ pc' = "decode"
    BY <1>2 DEF InvertStep
  <2>2. InvertedUpTo(PASS_LENGTH)'
    <3>1. i = PASS_LENGTH
      BY <1>0, <1>2
    <3>2. InvertedUpTo(PASS_LENGTH)
      BY <1>0, <3>1
    <3>. QED
      BY <3>2, <1>0, <2>1 DEF InvertedUpTo
  <2>3. TypeOK'
    BY <1>0, <2>1 DEF TypeOK
  <2>4. \A k \in 1 .. Len(message) : ~(k <= 0)
    BY <1>0
  <2>. QED
    BY <1>0, <2>1, <2>2, <2>3, <2>4 DEF LoopInvariant
<1>. QED
  BY <1>1, <1>2

LEMMA DecodeKeeps == CodecInv /\ DecodeStep => CodecInv'
<1>. SUFFICES ASSUME CodecInv, DecodeStep PROVE CodecInv'
  OBVIOUS
<1>. USE DEF CodecInv
<1>0. /\ Len(message) \in Nat /\ Len(bytes) = Len(message) /\ i \in Nat
      /\ i <= Len(message)
      /\ pc = "decode" /\ x' = x /\ message' = message /\ dec' = dec
      /\ dec \in Table
      /\ InvertedUpTo(PASS_LENGTH)
      /\ \A k \in 1 .. Len(message) :
           bytes[k] = IF k <= i THEN dec[x[message[k]]] ELSE x[message[k]]
  BY LenProperties DEF TypeOK, LoopInvariant, DecodeStep
<1>1. InvertedUpTo(PASS_LENGTH)'
  BY <1>0 DEF InvertedUpTo
<1>2. CASE i < Len(bytes)
  <2>1. /\ bytes' = [bytes EXCEPT ![i + 1] = dec[@]] /\ i' = i + 1 /\ pc' = pc
    BY <1>2 DEF DecodeStep
  <2>2. /\ bytes' \in Seq(Byte) /\ Len(bytes') = Len(bytes)
        /\ \A m \in 1 .. Len(bytes) :
             bytes'[m] = IF m = i + 1 THEN dec[bytes[m]] ELSE bytes[m]
    BY <1>0, <1>2, <2>1, WriteByte DEF TypeOK
  <2>3. \A k \in 1 .. Len(message) :
          bytes'[k] = IF k <= i' THEN dec[x[message[k]]] ELSE x[message[k]]
    BY <1>0, <2>1, <2>2
  <2>4. TypeOK'
    BY <1>0, <2>1, <2>2 DEF TypeOK
  <2>. QED
    BY <1>0, <1>1, <1>2, <2>1, <2>2, <2>3, <2>4 DEF LoopInvariant
<1>3. CASE ~(i < Len(bytes))
  <2>1. bytes' = bytes /\ i' = i /\ pc' = "done"
    BY <1>3 DEF DecodeStep
  <2>2. \A k \in 1 .. Len(message) : bytes'[k] = dec[x[message[k]]]
    BY <1>0, <1>3, <2>1
  <2>3. TypeOK'
    BY <1>0, <2>1 DEF TypeOK
  <2>. QED
    BY <1>0, <1>1, <2>1, <2>2, <2>3 DEF LoopInvariant
<1>. QED
  BY <1>2, <1>3

LEMMA CodecStep == CodecInv /\ [Next]_vars => CodecInv'
<1>1. CodecInv /\ UNCHANGED vars => CodecInv'
  BY DEF CodecInv, TypeOK, LoopInvariant, InvertedUpTo, vars
<1>. QED
  BY EncodeKeeps, InvertKeeps, DecodeKeeps, <1>1 DEF Next

(* The table the inversion loop has built is the one DecodeTable names.     *)
LEMMA BuiltTable ==
  CodecInv /\ pc = "done" => dec = DecodeTable(x)
<1>. SUFFICES ASSUME CodecInv, pc = "done" PROVE dec = DecodeTable(x)
  OBVIOUS
<1>1. InvertedUpTo(PASS_LENGTH) /\ dec \in Table /\ x \in Table
  BY DEF CodecInv, TypeOK, LoopInvariant
<1>. DEFINE last(b) ==
              {j \in Byte : x[j] = b /\ \A k \in Byte : x[k] = b => k <= j}
            entry(b) == IF last(b) = {} THEN 0 ELSE CHOOSE j \in last(b) : TRUE
<1>2. \A b \in Byte : dec[b] = entry(b)
  <2>. SUFFICES ASSUME NEW b \in Byte PROVE dec[b] = entry(b)
    OBVIOUS
  <2>. DEFINE all == {j \in Byte : j < PASS_LENGTH /\ x[j] = b}
  <2>0. \A j \in Byte : j < PASS_LENGTH
    BY PassLengthAssumption DEF Byte
  <2>1. IF all = {} THEN dec[b] = 0
                    ELSE dec[b] \in all /\ \A j \in all : j <= dec[b]
    BY <1>1 DEF InvertedUpTo
  <2>2. CASE all = {}
    <3>1. last(b) = {}
      BY <2>0, <2>2
    <3>. QED
      BY <2>1, <2>2, <3>1
  <2>3. CASE all # {}
    <3>1. dec[b] \in last(b)
      BY <2>0, <2>1, <2>3
    <3>2. \A j \in last(b) : j = dec[b]
      BY <3>1 DEF Byte
    <3>3. last(b) = {dec[b]}
      BY <3>1, <3>2
    <3>. HIDE DEF last
    <3>. QED
      BY <3>3
  <2>. QED
    BY <2>2, <2>3
<1>3. DecodeTable(x) = [b \in Byte |-> entry(b)]
  BY DEF DecodeTable
<1>. HIDE DEF entry
<1>. QED
  BY <1>1, <1>2, <1>3 DEF Table

(* The loops of encode_data and decode_data compute the operators that the  *)
(* modules of the two proxies use, for every table and every byte array.    *)
THEOREM LoopsCompute == Spec => []LoopsComputeOperators
<1>1. CodecInv => LoopsComputeOperators
  <2>. SUFFICES ASSUME CodecInv PROVE LoopsComputeOperators
    OBVIOUS
  <2>. DEFINE e == encode_data(message, x)
              d == DecodeTable(x)
              r == encode_data(e, d)
  <2>0. x \in Table /\ message \in Seq(Byte) /\ bytes \in Seq(Byte)
        /\ Len(bytes) = Len(message)
    BY DEF CodecInv, TypeOK, LoopInvariant
  <2>1. /\ e \in Seq(Byte) /\ Len(e) = Len(message)
        /\ \A k \in 1 .. Len(message) : e[k] = x[message[k]]
    BY <2>0, EncodeData
  <2>2. d \in Table
    BY DecodeTableType
  <2>. HIDE DEF e, d
  <2>3. /\ r \in Seq(Byte) /\ Len(r) = Len(e)
        /\ \A k \in 1 .. Len(e) : r[k] = d[e[k]]
    BY <2>1, <2>2, EncodeData
  <2>. HIDE DEF r
  <2>4. pc = "invert" => bytes = e
    <3>1. pc = "invert" => \A k \in 1 .. Len(bytes) : bytes[k] = e[k]
      BY <2>0, <2>1 DEF CodecInv, LoopInvariant
    <3>. QED
      BY <2>0, <2>1, <3>1, SeqEqual
  <2>5. pc = "done" => bytes = r
    <3>1. pc = "done" => \A k \in 1 .. Len(bytes) : bytes[k] = r[k]
      BY <2>0, <2>1, <2>3, BuiltTable DEF CodecInv, LoopInvariant, d
    <3>. QED
      BY <2>0, <2>1, <2>3, <3>1, SeqEqual
  <2>. QED
    BY <2>4, <2>5 DEF LoopsComputeOperators, decode_data, r, d, e
<1>. QED
  BY CodecInit, CodecStep, <1>1, PTL DEF Spec

(* What is encoded with a permutation is decoded to itself, for every       *)
(* PASS_LENGTH, every permutation and every byte array.                     *)
THEOREM RoundTripHolds == Spec => []RoundTrip
<1>1. CodecInv /\ LoopsComputeOperators => RoundTrip
  BY DecodeEncode DEF CodecInv, TypeOK, LoopsComputeOperators, RoundTrip
<1>2. Spec => []CodecInv
  BY CodecInit, CodecStep, PTL DEF Spec
<1>. QED
  BY <1>1, <1>2, LoopsCompute, PTL

(* A byte survives the round trip exactly if no higher byte has its code,   *)
(* for every table; so it takes a permutation for all bytes to survive      *)
(* (password.c:73-82).                                                      *)
THEOREM SurvivesExactlyIfLast == Spec => []SurvivesIfLast
<1>1. ASSUME CodecInv, pc = "done", NEW k \in 1 .. Len(message)
      PROVE  bytes[k] = message[k] <=>
               \A b \in Byte : x[b] = x[message[k]] => b <= message[k]
  <2>. DEFINE m == message[k]
              same == {j \in Byte : j < PASS_LENGTH /\ x[j] = x[m]}
  <2>1. /\ x \in Table /\ m \in Byte /\ bytes[k] = dec[x[m]]
        /\ InvertedUpTo(PASS_LENGTH)
    BY <1>1, ElementOfSeq DEF CodecInv, TypeOK, LoopInvariant
  <2>2. \A j \in Byte : j < PASS_LENGTH /\ j \in Int
    BY PassLengthAssumption DEF Byte
  <2>3. x[m] \in Byte /\ m \in same
    BY <2>1, <2>2 DEF Table
  <2>4. dec[x[m]] \in same /\ \A j \in same : j <= dec[x[m]]
    BY <2>1, <2>3 DEF InvertedUpTo
  <2>5. \A b \in Byte : x[b] = x[m] <=> b \in same
    BY <2>2
  <2>. HIDE DEF m, same
  <2>6. dec[x[m]] = m <=> \A b \in Byte : x[b] = x[m] => b <= m
    <3>1. dec[x[m]] \in Byte
      BY <2>4 DEF same
    <3>. QED
      BY <2>1, <2>2, <2>3, <2>4, <2>5, <3>1
  <2>. QED
    BY <2>1, <2>6 DEF m
<1>2. CodecInv => SurvivesIfLast
  BY <1>1 DEF SurvivesIfLast
<1>. QED
  BY CodecInit, CodecStep, <1>2, PTL DEF Spec

-----------------------------------------------------------------------------
CopyInv == CopyTypeOK /\ Conserved /\ FirstTimeIffNothingRead

Coded(s) == encode_data(s, table)

LEMMA CodedSeq ==
  ASSUME NEW s \in Seq(Byte)
  PROVE  Coded(s) \in Seq(Byte)
BY CopyLoopAssumption, EncodeData DEF Coded

LEMMA BufferPrefix ==
  ASSUME NEW b \in Buffer, NEW k \in 0 .. BUFFER_SIZE
  PROVE  /\ SubSeq(b, 1, k) \in Seq(Byte)
         /\ Len(SubSeq(b, 1, k)) = k
         /\ \A m \in 1 .. k : SubSeq(b, 1, k)[m] = b[m]
<1>1. \A m \in 1 .. k : b[m] \in Byte
  BY CopyLoopAssumption DEF Buffer
<1>2. k \in Int
  BY CopyLoopAssumption
<1>. QED
  BY <1>1, <1>2, SubSeqProperties, CopyLoopAssumption

LEMMA CopyStarts == CopyInit => CopyInv
<1>. SUFFICES ASSUME CopyInit PROVE CopyInv
  OBVIOUS
<1>1. /\ input0 \in Seq(Byte) /\ output0 \in Seq(Byte)
      /\ input = input0 /\ output = output0
  BY CopyLoopAssumption DEF CopyInit
<1>2. CopyTypeOK
  BY <1>1, CopyLoopAssumption, PassLengthAssumption
     DEF CopyInit, CopyTypeOK, Buffer, Byte
<1>3. output \o <<>> = output
  BY <1>1, ConcatEmptySeq
<1>4. Conserved
  BY <1>1, <1>3 DEF CopyInit, Conserved, Held
<1>. QED
  BY <1>1, <1>2, <1>4 DEF CopyInit, CopyInv, FirstTimeIffNothingRead

(* Read takes a prefix of the input into buf.                               *)
LEMMA ReadKeeps == CopyInv /\ Read => CopyInv'
<1>. SUFFICES ASSUME CopyInv, Read PROVE CopyInv'
  OBVIOUS
<1>. DEFINE size == IF Len(input) < BUFFER_SIZE THEN Len(input) ELSE BUFFER_SIZE
            taken == SubSeq(input, 1, size)
            rest == SubSeq(input, size + 1, Len(input))
<1>0. /\ BUFFER_SIZE \in Nat \ {0} /\ table \in Table
      /\ input \in Seq(Byte) /\ output \in Seq(Byte)
      /\ Len(input) \in Nat /\ \A m \in 1 .. Len(input) : input[m] \in Byte
      /\ stage = "read" /\ output' = output
      /\ input0' = input0 /\ output0' = output0
  BY CopyLoopAssumption, LenProperties, ElementOfSeq
     DEF CopyInv, CopyTypeOK, Read
<1>1. size \in 0 .. BUFFER_SIZE /\ size <= Len(input) /\ size \in Nat
  BY <1>0
<1>. HIDE DEF size
<1>2. /\ n' = size /\ input' = rest
      /\ buf' = [k \in 1 .. BUFFER_SIZE |-> IF k <= size THEN input[k] ELSE 0]
      /\ stage' = IF size = 0 THEN "done" ELSE "code"
      /\ ret' = IF size = 0 /\ first_time THEN -1 ELSE 0
      /\ first_time' = (first_time /\ size = 0)
  BY DEF Read, size
<1>3. /\ taken \in Seq(Byte) /\ Len(taken) = size
      /\ \A m \in 1 .. size : taken[m] = input[m]
  BY <1>0, <1>1, SubSeqProperties
<1>4. rest \in Seq(Byte)
  BY <1>0, <1>1, SubSeqProperties
<1>5. taken \o rest = input
  <2>1. SubSeq(input, 1, size) \o SubSeq(input, size + 1, Len(input))
          = SubSeq(input, 1, Len(input))
    <3>1. /\ 1 \in 1 .. Len(input) + 1 /\ size \in 1 - 1 .. Len(input)
          /\ Len(input) \in size .. Len(input)
      BY <1>0, <1>1
    <3>. QED
      BY <1>0, <3>1, ConcatAdjacentSubSeq
  <2>2. SubSeq(input, 1, Len(input)) = input
    BY <1>0, SubSeqFull
  <2>. QED
    BY <2>1, <2>2
<1>6. buf' \in Buffer
  <2>1. \A k \in 1 .. BUFFER_SIZE : (IF k <= size THEN input[k] ELSE 0) \in Byte
    BY <1>0, <1>1, PassLengthAssumption DEF Byte
  <2>. QED
    BY <1>2, <2>1 DEF Buffer
<1>7. SubSeq(buf', 1, n') = taken
  <2>. DEFINE b == buf'
  <2>1. \A m \in 1 .. size : b[m] = input[m]
    <3>1. \A m \in 1 .. size : m \in 1 .. BUFFER_SIZE /\ m <= size
      BY <1>0, <1>1
    <3>. QED
      BY <1>2, <3>1
  <2>2. /\ SubSeq(b, 1, size) \in Seq(Byte) /\ Len(SubSeq(b, 1, size)) = size
        /\ \A m \in 1 .. size : SubSeq(b, 1, size)[m] = b[m]
    BY <1>1, <1>6, BufferPrefix
  <2>. HIDE DEF b, taken
  <2>3. SubSeq(b, 1, size) = taken
    BY <1>3, <2>1, <2>2, SeqEqual
  <2>. QED
    BY <1>2, <2>3 DEF b
<1>. HIDE DEF taken, rest
<1>8. CopyTypeOK'
  BY <1>0, <1>1, <1>2, <1>4, <1>6 DEF CopyInv, CopyTypeOK
<1>9. Held' = IF size = 0 THEN <<>> ELSE Coded(taken)
  BY <1>2, <1>7 DEF Held, Coded
<1>10. Held' = Coded(taken)
  <2>1. size = 0 => taken = <<>>
    BY <1>3, EmptySeq
  <2>. QED
    BY <1>9, <2>1, EncodeEmpty DEF Coded
<1>11. Conserved'
  <2>1. output \o Coded(input) = output0 \o Coded(input0)
    <3>1. Held = <<>>
      BY <1>0 DEF Held
    <3>2. output \o <<>> = output
      BY <1>0, ConcatEmptySeq
    <3>. QED
      BY <3>1, <3>2 DEF CopyInv, Conserved, Coded
  <2>2. Coded(input) = Coded(taken) \o Coded(rest)
    BY <1>0, <1>3, <1>4, <1>5, EncodeConcat DEF Coded
  <2>3. (output \o Coded(taken)) \o Coded(rest) = output \o Coded(input)
    <3>1. Coded(taken) \in Seq(Byte) /\ Coded(rest) \in Seq(Byte)
      BY <1>3, <1>4, CodedSeq
    <3>. DEFINE A == Coded(taken)
                B == Coded(rest)
    <3>2. A \in Seq(Byte) /\ B \in Seq(Byte) /\ Coded(input) = A \o B
      BY <3>1, <2>2
    <3>. HIDE DEF A, B
    <3>3. (output \o A) \o B = output \o (A \o B)
      BY <1>0, <3>2, ConcatAssociative
    <3>. QED
      BY <3>2, <3>3 DEF A, B
  <2>. QED
    BY <1>0, <1>2, <1>10, <2>1, <2>3 DEF Conserved, Coded
<1>12. FirstTimeIffNothingRead'
  <2>1. size = 0 => Len(input) = 0
    BY <1>0 DEF size
  <2>2. size = 0 => input = <<>> /\ rest = <<>>
    <3>1. size = 0 => rest = input
      BY <1>0, SubSeqFull DEF rest
    <3>. QED
      BY <1>0, <2>1, <3>1, EmptySeq
  <2>3. size # 0 => input # <<>>
    BY <1>1, EmptySeq
  <2>. QED
    BY <1>0, <1>2, <2>2, <2>3 DEF CopyInv, FirstTimeIffNothingRead
<1>. QED
  BY <1>8, <1>11, <1>12 DEF CopyInv

LEMMA CodeKeeps == CopyInv /\ Code => CopyInv'
<1>. SUFFICES ASSUME CopyInv, Code PROVE CopyInv'
  OBVIOUS
<1>. DEFINE s == SubSeq(buf, 1, n)
<1>0. /\ BUFFER_SIZE \in Nat \ {0} /\ table \in Table
      /\ buf \in Buffer /\ n \in 0 .. BUFFER_SIZE /\ n \in Nat
      /\ stage = "code" /\ stage' = "write"
      /\ input' = input /\ output' = output /\ n' = n /\ ret' = ret
      /\ input0' = input0 /\ output0' = output0 /\ first_time' = first_time
      /\ buf' = [k \in 1 .. BUFFER_SIZE |->
                   IF k <= n THEN table[buf[k]] ELSE buf[k]]
  BY CopyLoopAssumption DEF CopyInv, CopyTypeOK, Code
<1>1. buf' \in Buffer
  BY <1>0 DEF Buffer, Table
<1>2. /\ s \in Seq(Byte) /\ Len(s) = n /\ \A m \in 1 .. n : s[m] = buf[m]
  BY <1>0, BufferPrefix
<1>. HIDE DEF s
<1>3. SubSeq(buf', 1, n) = Coded(s)
  <2>. DEFINE b == buf'
  <2>1. /\ SubSeq(b, 1, n) \in Seq(Byte) /\ Len(SubSeq(b, 1, n)) = n
        /\ \A m \in 1 .. n : SubSeq(b, 1, n)[m] = b[m]
    BY <1>0, <1>1, BufferPrefix
  <2>2. \A m \in 1 .. n : b[m] = table[buf[m]]
    BY <1>0
  <2>3. /\ Coded(s) \in Seq(Byte) /\ Len(Coded(s)) = n
        /\ \A m \in 1 .. n : Coded(s)[m] = table[s[m]]
    BY <1>0, <1>2, EncodeData DEF Coded
  <2>. HIDE DEF b
  <2>4. SubSeq(b, 1, n) = Coded(s)
    BY <1>2, <2>1, <2>2, <2>3, SeqEqual
  <2>. QED
    BY <2>4 DEF b
<1>4. Held' = Held
  BY <1>0, <1>3 DEF Held, Coded, s
<1>5. CopyTypeOK'
  BY <1>0, <1>1 DEF CopyInv, CopyTypeOK
<1>. QED
  BY <1>0, <1>4, <1>5 DEF CopyInv, Conserved, FirstTimeIffNothingRead

LEMMA WriteKeeps == CopyInv /\ Write => CopyInv'
<1>. SUFFICES ASSUME CopyInv, Write PROVE CopyInv'
  OBVIOUS
<1>. DEFINE s == SubSeq(buf, 1, n)
<1>0. /\ BUFFER_SIZE \in Nat \ {0}
      /\ buf \in Buffer /\ n \in 0 .. BUFFER_SIZE
      /\ input \in Seq(Byte) /\ output \in Seq(Byte)
      /\ stage = "write" /\ stage' = "read"
      /\ output' = output \o s /\ n' = 0
      /\ input' = input /\ ret' = ret /\ buf' = buf
      /\ input0' = input0 /\ output0' = output0 /\ first_time' = first_time
  BY CopyLoopAssumption DEF CopyInv, CopyTypeOK, Write
<1>1. s \in Seq(Byte)
  BY <1>0, BufferPrefix
<1>. HIDE DEF s
<1>2. output' \in Seq(Byte)
  BY <1>0, <1>1, ConcatProperties
<1>3. CopyTypeOK'
  BY <1>0, <1>2 DEF CopyInv, CopyTypeOK
<1>4. Conserved'
  <2>1. Held = s /\ Held' = <<>>
    BY <1>0 DEF Held, s
  <2>2. (output \o s) \o <<>> = output \o s
    BY <1>0, <1>2, ConcatEmptySeq
  <2>. QED
    BY <1>0, <2>1, <2>2 DEF CopyInv, Conserved
<1>. QED
  BY <1>0, <1>3, <1>4 DEF CopyInv, FirstTimeIffNothingRead

LEMMA CopyStep == CopyInv /\ [CopyNext]_copyVars => CopyInv'
<1>1. CopyInv /\ UNCHANGED copyVars => CopyInv'
  <2>. SUFFICES ASSUME CopyInv, UNCHANGED copyVars PROVE CopyInv'
    OBVIOUS
  <2>1. Held' = Held
    BY DEF Held, copyVars
  <2>2. Conserved'
    BY <2>1 DEF CopyInv, Conserved, copyVars
  <2>. QED
    BY <2>2 DEF CopyInv, CopyTypeOK, FirstTimeIffNothingRead, copyVars
<1>. QED
  BY ReadKeeps, CodeKeeps, WriteKeeps, <1>1 DEF CopyNext

(* For every buffer size, table and content of the two buffers, the copy    *)
(* routines move everything, transformed and in order, and return -1        *)
(* exactly when there was nothing to move.                                  *)
THEOREM CopyLoopCopiesAll == CopySpec => []CopiesAll
<1>1. CopyInv => CopiesAll
  <2>. SUFFICES ASSUME CopyInv, stage = "done" PROVE CopiesAll
    BY DEF CopiesAll
  <2>1. input = <<>> /\ (first_time => input = input0)
        /\ (~first_time => input0 # <<>>)
        /\ ret = IF first_time THEN -1 ELSE 0
    BY DEF CopyInv, FirstTimeIffNothingRead
  <2>2. (output \o <<>>) \o <<>> = output
    BY ConcatEmptySeq DEF CopyInv, CopyTypeOK
  <2>3. output = output0 \o encode_data(input0, table)
    BY <2>1, <2>2, EncodeEmpty DEF CopyInv, Conserved, Held
  <2>. QED
    BY <2>1, <2>3 DEF CopiesAll
<1>. QED
  BY CopyStarts, CopyStep, <1>1, PTL DEF CopySpec
=============================================================================
