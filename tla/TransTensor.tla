---------------------------- MODULE TransTensor ----------------------------
(***************************************************************************)
(* The conversion of a tensor between memory layouts and element types     *)
(* (src/src/framework/util/tensor/trans_tensor.cpp): the descriptors a     *)
(* ge::TensorDesc is turned into, the checks on them, and the copies.  A   *)
(* copy is the set of its element moves, a move naming the element of the  *)
(* output it writes, the element of the input it reads (or Pad, a zero)    *)
(* and the bytes the two take; what is moved is never looked at.           *)
(***************************************************************************)
EXTENDS Integers, Sequences, FiniteSets

CONSTANTS
  CubeSize,   \* CC_CUBE_SIZE, the channels of a block of two-byte elements
  Int8C0,     \* CC_INT8_C0_SIZE, the channels of a block of bytes: twice that
  Int32Max,   \* the largest int32_t: a uint32_t has twice the range
  MaxCount,   \* MAX_TENSOR_ELEMENT_COUNT
  AlignSize,  \* DATA_MEMORY_ALIGN_SIZE
  DimMax      \* CC_DIM_MAX

Pad == -1
Words == 2 * (Int32Max + 1)
UInt32(v) == v % Words
Int32(v) == ((v + Int32Max + 1) % Words) - Int32Max - 1
CeilDiv(a, b) == (a + b - 1) \div b

(***************************************************************************)
(* Element types and formats.                                              *)
(***************************************************************************)
TypeSize ==
  [FLOAT |-> 4, HALF |-> 2, INT8 |-> 1, INT32 |-> 4, UINT8 |-> 1, INT64 |-> 8, BOOL |-> 1, QUINT8 |-> 1,
   QINT8 |-> 1, DUAL_SUB_INT8 |-> 1, DUAL_SUB_UINT8 |-> 1, BITS2 |-> 1, DUAL |-> 3, INT16 |-> 2, DOUBLE |-> 8]

HashTableFormats == {"HASHTABLE_LOOKUPS", "HASHTABLE_KEYS", "HASHTABLE_VALUE", "HASHTABLE_OUTPUT", "HASHTABLE_HITS"}
Formats4D == {"NCHW", "NC1HWC0", "C1HWNC0", "NHWC1C0", "NC1C0HWPAD", "FSR_NCHW", "FRACTAL_Z", "FRACTAL_Z_C04", "NHWC"}
Formats5D == {"NCDHW", "NDHWC"}

\* The mode of a pair of element types; "none" when the pair is refused.
GetDataTypeTransMode(xType, yType) ==
  CASE xType = yType ->
         CASE xType = "HALF" -> "FP16_NO_TRANS" [] xType = "FLOAT" -> "FLOAT_NO_TRANS"
           [] xType = "INT8" -> "INT8_NO_TRANS" [] xType = "INT32" -> "INT32_NO_TRANS"
           [] xType = "INT64" -> "INT64_NO_TRANS" [] xType \in {"UINT8", "BOOL", "QUINT8"} -> "UINT8_NO_TRANS"
           [] OTHER -> "none"
    [] xType = "FLOAT" /\ yType = "HALF" -> "FLOAT_TO_FP16"
    [] xType = "HALF" /\ yType = "FLOAT" -> "FP16_TO_FLOAT"
    [] xType \in {"UINT8", "QUINT8"} /\ yType = "FLOAT" -> "UINT8_TO_FLOAT"
    [] xType = "INT8" /\ yType = "FLOAT" -> "INT8_TO_FLOAT"
    [] OTHER -> "none"

(***************************************************************************)
(* Descriptors.                                                            *)
(***************************************************************************)
Failed == [ok |-> FALSE]
Overflow == Int32Max + 1

\* Faulty variant: the products are not checked and wrap.
ArrayMulUnchecked(factors) ==
  LET product[i \in 0 .. Len(factors)] == IF i = 0 THEN 1 ELSE Int32(product[i - 1] * factors[i])
  IN  IF factors = <<>> THEN 0 ELSE product[Len(factors)]
\* The product of int32_t factors, or Overflow; the first factor of none is the zero of a cleared array.
CheckInt32ArrayMulOverflow(factors) ==
  LET product[i \in 1 .. Len(factors)] ==
        IF i = 1 THEN factors[1]
        ELSE LET before == product[i - 1]
             IN  IF before = Overflow \/ before * factors[i] \notin -Int32Max - 1 .. Int32Max
                 THEN Overflow ELSE before * factors[i]
  IN  IF factors = <<>> THEN 0 ELSE product[Len(factors)]
CountFits(count) == count # Overflow /\ count <= MaxCount
MulFitsUInt32(a, b) == a * b < Words

\* The channels of a block, as the descriptor counts them.
DescC0(type) ==
  IF type \in {"BOOL", "INT8", "UINT8", "DUAL_SUB_UINT8", "QINT8", "QUINT8", "DUAL_SUB_INT8", "BITS2"}
  THEN Int8C0 ELSE CubeSize

\* A descriptor that no Set function filled: a cleared ccTensor_t.
Cleared == [ok |-> TRUE, format |-> "NCHW", type |-> "FLOAT", size |-> 0, dim |-> <<>>, stride |-> <<>>]

SetTensor4dDescriptor(format, type, n, c, h, w) ==
  LET dim == IF format = "NHWC" THEN <<n, h, w, c>> ELSE <<n, c, h, w>>
      c0 == DescC0(type)
      count == CheckInt32ArrayMulOverflow(
                 IF format \in {"NC1HWC0", "C1HWNC0"} THEN <<n, CeilDiv(c, c0), h, w, c0>> ELSE dim)
      inner == CheckInt32ArrayMulOverflow(<<dim[3], dim[4]>>)
      outer == CheckInt32ArrayMulOverflow(<<dim[2], dim[3] * dim[4]>>)
  IN  IF \/ n <= 0 \/ c <= 0 \/ h <= 0 \/ w <= 0
         \/ format \notin {"NCHW", "NHWC", "NC1HWC0", "C1HWNC0"}
         \/ ~CountFits(count)
         \/ inner = Overflow \/ outer = Overflow
         \/ ~MulFitsUInt32(TypeSize[type], count)
      THEN Failed
      ELSE [ok |-> TRUE, format |-> format, type |-> type, size |-> TypeSize[type] * count,
            dim |-> dim, stride |-> <<outer, inner, dim[4], 1>>]

SetNDTensorDescriptor(format, type, dims) ==
  LET count == CheckInt32ArrayMulOverflow(dims)
  IN  IF \/ format \notin Formats5D \/ Len(dims) # 5
         \/ ~CountFits(count)
         \/ ~MulFitsUInt32(TypeSize[type], UInt32(count))
      THEN Failed
      ELSE [ok |-> TRUE, format |-> format, type |-> type, size |-> TypeSize[type] * UInt32(count),
            dim |-> dims, stride |-> <<0, 0, 0, 0, 0>>]

SetTensorNdDescriptor(type, dims) ==
  LET count == IF dims = <<>> THEN 1 ELSE CheckInt32ArrayMulOverflow(dims)
      strideOf[i \in 1 .. Len(dims)] ==
        IF i = Len(dims) THEN 1
        ELSE LET next == strideOf[i + 1]
             IN  IF next = Overflow \/ dims[i + 1] * next > Int32Max THEN Overflow ELSE dims[i + 1] * next
      stride == [i \in 1 .. Len(dims) |-> strideOf[i]]
  IN  IF \/ Len(dims) > DimMax \/ \E i \in DOMAIN dims : dims[i] <= 0
         \/ ~CountFits(count)
         \/ TypeSize[type] * count > Int32Max
         \/ \E i \in DOMAIN dims : stride[i] = Overflow
      THEN Failed
      ELSE [ok |-> TRUE, format |-> "ND", type |-> type, size |-> TypeSize[type] * count, dim |-> dims, stride |-> stride]

\* The int64_t dimensions of the shape cut to 32 bits and completed with ones, at most four to the left.
TransferDim(dims) ==
  LET cut == [i \in DOMAIN dims |-> Int32(dims[i])]
  IN  CASE Len(dims) = 0 -> <<1, 1, 1, 1>>
        [] Len(dims) = 1 -> <<1>> \o cut \o <<1, 1>>
        [] Len(dims) = 2 -> <<1>> \o cut \o <<1>>
        [] Len(dims) = 3 -> <<1>> \o cut
        [] OTHER -> cut

\* A ge::TensorDesc is [format, type, dims, real], real being its real_dim_cnt.
InitTensorDescriptor(tensor) ==
  LET dims == TransferDim(tensor.dims)
      real == [i \in 1 .. tensor.real |-> IF i \in DOMAIN tensor.dims THEN Int32(tensor.dims[i]) ELSE 0]
  IN  CASE tensor.format \notin HashTableFormats \cup Formats4D \cup Formats5D \cup {"ND"} -> Failed
        [] tensor.type \notin DOMAIN TypeSize -> Failed
        [] tensor.real > DimMax -> Failed
        [] tensor.format = "ND" -> SetTensorNdDescriptor(tensor.type, real)
        [] Len(tensor.dims) > 5 -> Failed
        [] tensor.dims = <<0>> -> Cleared
        [] tensor.format \in Formats5D -> SetNDTensorDescriptor(tensor.format, tensor.type, dims)
        [] tensor.format = "NHWC" -> SetTensor4dDescriptor("NHWC", tensor.type, dims[1], dims[4], dims[2], dims[3])
        [] OTHER -> SetTensor4dDescriptor(tensor.format, tensor.type, dims[1], dims[2], dims[3], dims[4])

\* The bytes the output is given: 0 when the sum does not fit.
GetTensorMemorySizeInBytes(desc) ==
  IF desc.size + 2 * AlignSize - 1 >= Words THEN 0
  ELSE ((desc.size + 2 * AlignSize - 1) \div AlignSize) * AlignSize

\* The second check of the element count, over the dimensions the descriptor kept.
CheckTensorOverFlow(desc) ==
  LET d == desc.dim
      c0 == IF desc.type \in {"BOOL", "INT8", "UINT8", "QUINT8", "DUAL_SUB_UINT8", "DUAL_SUB_INT8"}
            THEN Int8C0 ELSE CubeSize
  IN  CASE desc.format \in {"ND"} \cup HashTableFormats \cup Formats5D -> CountFits(CheckInt32ArrayMulOverflow(d))
        [] Len(d) # 4 -> FALSE
        [] desc.format \in {"NCHW", "NHWC"} -> CountFits(CheckInt32ArrayMulOverflow(d))
        [] desc.format \in {"NC1HWC0", "C1HWNC0"} ->
             CountFits(CheckInt32ArrayMulOverflow(<<d[1], CeilDiv(d[2], c0), d[3], d[4], c0>>))
        [] OTHER -> FALSE

\* The size of the unpadded elements, in the uint32_t arithmetic of the code.
SizeOfDims(desc) ==
  LET size[i \in 0 .. Len(desc.dim)] ==
        IF i = 0 THEN TypeSize[desc.type] ELSE UInt32(size[i - 1] * desc.dim[i])
  IN  size[Len(desc.dim)]

DescNd2NHWC(desc) ==
  LET k == 4 - Len(desc.dim)
      ahead(one) == [i \in 1 .. k |-> one]
  IN  IF Len(desc.dim) \notin 1 .. 4 THEN Failed
      ELSE [desc EXCEPT !.format = "NHWC", !.dim = ahead(1) \o @, !.stride = ahead(0) \o @]

(***************************************************************************)
(* Copies: sets of moves.                                                  *)
(***************************************************************************)
\* The bytes a move of this mode reads and writes.
Reads(mode) ==
  CASE mode \in {"FLOAT_NO_TRANS", "FLOAT_TO_FP16", "INT32_NO_TRANS"} -> 4
    [] mode \in {"FP16_NO_TRANS", "FP16_TO_FLOAT"} -> 2
    [] mode = "INT64_NO_TRANS" -> 8
    [] OTHER -> 1
Writes(mode) ==
  CASE mode \in {"FLOAT_NO_TRANS", "FP16_TO_FLOAT", "UINT8_TO_FLOAT", "INT8_TO_FLOAT", "INT32_NO_TRANS"} -> 4
    [] mode \in {"FP16_NO_TRANS", "FLOAT_TO_FP16"} -> 2
    [] mode = "INT64_NO_TRANS" -> 8
    [] OTHER -> 1

Copied(mode, moves) == [ok |-> TRUE, mode |-> mode, reads |-> Reads(mode), writes |-> Writes(mode), moves |-> moves]
Move(to, from) == [to |-> to, from |-> from]

\* The positions of the nest of loops over the blocks of a NC1HWC0 tensor.
Blocks(n, c1, h, w, c0) ==
  [n : 0 .. n - 1, c1 : 0 .. c1 - 1, h : 0 .. h - 1, w : 0 .. w - 1, c0 : 0 .. c0 - 1]
BlockIdx(p, c1, h, w, c0) == p.n * c1 * h * w * c0 + p.c1 * h * w * c0 + p.h * w * c0 + p.w * c0 + p.c0
Channel(p, c0) == p.c0 + p.c1 * c0
\* Faulty variant: rows and columns are exchanged.
NchwIdxSwapped(p, ch, c, h, w) == p.n * c * h * w + ch * h * w + p.w * h + p.h
NchwIdx(p, ch, c, h, w) == p.n * c * h * w + ch * h * w + p.h * w + p.w
NhwcIdx(p, ch, c, h, w) == p.n * h * w * c + p.h * w * c + p.w * c + ch

Dims4(desc) == <<desc.dim[1], desc.dim[2], desc.dim[3], desc.dim[4]>>

\* The four loops over blocks; every mode without a case of its own moves bytes.
TransTensorNCHWToNC1HWC0(x, y) ==
  LET asked == GetDataTypeTransMode(x.type, y.type)
      mode == IF asked \in {"FLOAT_TO_FP16", "INT32_NO_TRANS", "FLOAT_NO_TRANS", "FP16_NO_TRANS", "UINT8_NO_TRANS"}
              THEN asked ELSE "BYTES"
      c0 == IF asked \in {"UINT8_NO_TRANS", "INT8_NO_TRANS"} THEN 2 * CubeSize ELSE CubeSize
      n == x.dim[1]  c == x.dim[2]  h == x.dim[3]  w == x.dim[4]  c1 == CeilDiv(c, c0)
  IN  IF Dims4(x) # Dims4(y) \/ asked = "none" THEN Failed
      ELSE Copied(mode, {Move(BlockIdx(p, c1, h, w, c0),
                              IF Channel(p, c0) < c THEN NchwIdx(p, Channel(p, c0), c, h, w) ELSE Pad) :
                         p \in Blocks(n, c1, h, w, c0)})

ByteTypes == {"BOOL", "UINT8", "INT8", "QUINT8"}
TransposedDims(nhwc, nchw) == Dims4(nchw) = <<nhwc.dim[1], nhwc.dim[4], nhwc.dim[2], nhwc.dim[3]>>

TransTensorNHWCToNC1HWC0(x, y) ==
  LET mode == GetDataTypeTransMode(x.type, y.type)
      c0 == IF x.type \in ByteTypes THEN 2 * CubeSize ELSE CubeSize
      n == x.dim[1]  h == x.dim[2]  w == x.dim[3]  c == x.dim[4]  c1 == CeilDiv(c, c0)
  IN  IF \/ ~TransposedDims(x, y)
         \/ mode \notin {"FLOAT_TO_FP16", "INT32_NO_TRANS", "FLOAT_NO_TRANS", "UINT8_NO_TRANS", "INT8_NO_TRANS",
                         "FP16_NO_TRANS"}
      THEN Failed
      ELSE Copied(mode, {Move(BlockIdx(p, c1, h, w, c0),
                              IF Channel(p, c0) < c THEN NhwcIdx(p, Channel(p, c0), c, h, w) ELSE Pad) :
                         p \in Blocks(n, c1, h, w, c0)})

TransTensorNC1HWC0ToNCHW(x, y) ==
  LET mode == GetDataTypeTransMode(x.type, y.type)
      c0 == IF x.type \in ByteTypes THEN Int8C0 ELSE CubeSize
      n == x.dim[1]  c == x.dim[2]  h == x.dim[3]  w == x.dim[4]  c1 == CeilDiv(c, c0)
  IN  IF Dims4(x) # Dims4(y) \/ mode \in {"none", "FLOAT_TO_FP16"} THEN Failed
      ELSE Copied(mode, {Move(NchwIdx(p, Channel(p, c0), c, h, w), BlockIdx(p, c1, h, w, c0)) :
                         p \in {q \in Blocks(n, c1, h, w, c0) : Channel(q, c0) < c}})

TransTensorNC1HWC0ToNHWC(x, y) ==
  LET mode == GetDataTypeTransMode(x.type, y.type)
      c0 == IF x.type \in ByteTypes \cup {"BITS2"} THEN 2 * CubeSize ELSE CubeSize
      n == x.dim[1]  c == x.dim[2]  h == x.dim[3]  w == x.dim[4]  c1 == CeilDiv(c, c0)
  IN  IF \/ ~TransposedDims(y, x)
         \/ mode \notin {"FP16_TO_FLOAT", "FP16_NO_TRANS", "UINT8_NO_TRANS", "INT8_NO_TRANS", "FLOAT_NO_TRANS"}
      THEN Failed
      ELSE Copied(mode, {Move(NhwcIdx(p, Channel(p, c0), c, h, w), BlockIdx(p, c1, h, w, c0)) :
                         p \in {q \in Blocks(n, c1, h, w, c0) : Channel(q, c0) < c}})

TransTensorNHWCToNCHW(x, y) ==
  LET mode == GetDataTypeTransMode(x.type, y.type)
      n == y.dim[1]  c == y.dim[2]  h == y.dim[3]  w == y.dim[4]
  IN  IF ~TransposedDims(x, y) \/ mode \in {"none", "FLOAT_TO_FP16"} THEN Failed
      ELSE Copied(mode, {Move(NchwIdx(p, p.c, c, h, w), NhwcIdx(p, p.c, c, h, w)) :
                         p \in [n : 0 .. n - 1, c : 0 .. c - 1, h : 0 .. h - 1, w : 0 .. w - 1]})

\* The copies that keep the order of the elements, and the sizes they read and write.
LinearSizes == [FLOAT |-> 4, HALF |-> 2, INT32 |-> 4, INT64 |-> 8, UINT8 |-> 1]
LinearPairs == {<<"FLOAT", "HALF">>, <<"HALF", "FLOAT">>, <<"FLOAT", "FLOAT">>, <<"INT32", "INT32">>,
                <<"INT64", "INT32">>, <<"INT64", "FLOAT">>, <<"HALF", "UINT8">>}
\* Faulty variant: the size of the output is not looked at.
TransTensorLinearUnchecked(x, y) ==
  IF <<x.type, y.type>> \notin LinearPairs THEN Failed
  ELSE [ok |-> TRUE, mode |-> "LINEAR", reads |-> LinearSizes[x.type], writes |-> LinearSizes[y.type],
        moves |-> {Move(i, i) : i \in 0 .. (x.size \div LinearSizes[x.type]) - 1}]
TransTensorLinear(x, y) ==
  LET count == x.size \div LinearSizes[x.type]
  IN  IF <<x.type, y.type>> \notin LinearPairs THEN Failed
      ELSE IF y.size < count * LinearSizes[y.type] THEN Failed
      ELSE [ok |-> TRUE, mode |-> "LINEAR", reads |-> LinearSizes[x.type], writes |-> LinearSizes[y.type],
            moves |-> {Move(i, i) : i \in 0 .. count - 1}]

DoTransTensor(x, y) ==
  CASE x.format = "NC1HWC0" /\ y.format = "NCHW" -> TransTensorNC1HWC0ToNCHW(x, y)
    [] x.format = "NC1HWC0" /\ y.format = "NHWC" -> TransTensorNC1HWC0ToNHWC(x, y)
    [] x.format = "NHWC" /\ y.format = "NC1HWC0" -> TransTensorNHWCToNC1HWC0(x, y)
    [] x.format = "NCHW" /\ y.format = "NC1HWC0" -> TransTensorNCHWToNC1HWC0(x, y)
    [] x.format = y.format -> TransTensorLinear(x, y)
    [] <<x.format, y.format>> \in {<<"ND", "NCHW">>, <<"NCHW", "ND">>, <<"NHWC", "ND">>} -> TransTensorLinear(x, y)
    [] x.format = "ND" /\ y.format = "NC1HWC0" ->
         LET temp == DescNd2NHWC(x) IN IF temp.ok THEN TransTensorNHWCToNC1HWC0(temp, y) ELSE Failed
    [] x.format = "NC1HWC0" /\ y.format = "ND" ->
         LET temp == DescNd2NHWC(y) IN IF temp.ok THEN TransTensorNC1HWC0ToNHWC(x, temp) ELSE Failed
    [] x.format = "NHWC" /\ y.format = "NCHW" -> TransTensorNHWCToNCHW(x, y)
    [] OTHER -> Failed

\* The exported function, from two ge::TensorDesc: the moves it makes, or Failed.
TransTensor(tensorX, tensorY) ==
  LET x == InitTensorDescriptor(tensorX)
      y == InitTensorDescriptor(tensorY)
  IN  IF ~x.ok \/ ~y.ok THEN Failed
      ELSE IF \/ GetTensorMemorySizeInBytes(y) = 0
              \/ ~CheckTensorOverFlow(x) \/ ~CheckTensorOverFlow(y)
              \/ x.size < SizeOfDims(x)
              \/ y.size > GetTensorMemorySizeInBytes(y)
      THEN Failed ELSE DoTransTensor(x, y)

(***************************************************************************)
(* The variants of an ARM_NEON build.                                      *)
(***************************************************************************)
\* Faulty variant: the rest of a block is not cleared.
NeonC3Uncleared(n, h, w, c0) ==
  {Move(c0 * pixel + lane, 3 * pixel + lane) : pixel \in 0 .. n * h * w - 1, lane \in 0 .. 2}
\* NHWC to NC1HWC0 with three channels: each pixel clears a block and fills its first three elements.
NeonNHWCToNC1HWC0C3(n, h, w, c0) ==
  {Move(c0 * pixel + lane, IF lane < 3 THEN 3 * pixel + lane ELSE Pad) : pixel \in 0 .. n * h * w - 1, lane \in 0 .. c0 - 1}

\* NC1HWC0 to NHWC: the full blocks go pixel by pixel at the stride of a pixel, and so does the last block
\* when it is full; the elements of a last block that is not full are written one pixel after the other.
NeonNC1HWC0ToNHWC(n, c, h, w, c0) ==
  LET c1 == CeilDiv(c, c0)
      c1Align == c % c0
      in(x1, x2, i, lane) == c0 * (c1 * h * w * x1 + h * w * x2 + i) + lane
      out(x1, x2) == c * h * w * x1 + c0 * x2
  IN  {Move(out(x1, x2) + c * i + lane, in(x1, x2, i, lane)) :
         x1 \in 0 .. n - 1, x2 \in 0 .. c1 - 2, i \in 0 .. h * w - 1, lane \in 0 .. c0 - 1}
      \cup IF c1Align = 0
           THEN {Move(out(x1, c1 - 1) + c * i + lane, in(x1, c1 - 1, i, lane)) :
                   x1 \in 0 .. n - 1, i \in 0 .. h * w - 1, lane \in 0 .. c0 - 1}
           ELSE {Move(out(x1, c1 - 1) + c1Align * i + lane, in(x1, c1 - 1, i, lane)) :
                   x1 \in 0 .. n - 1, i \in 0 .. h * w - 1, lane \in 0 .. c1Align - 1}

\* The element by element copies: the remainder one by one at the front, the rest by lanes.
NeonLinear(count, lanes) ==
  {Move(i, i) : i \in 0 .. (count % lanes) - 1}
    \cup {Move((count % lanes) + lanes * k + lane, (count % lanes) + lanes * k + lane) :
            k \in 0 .. (count \div lanes) - 1, lane \in 0 .. lanes - 1}
TransTensorFloatToHALF(count) == {NeonLinear(count, 8), NeonLinear(count, 4)}   \* ARM_NEON, ARM_NEON_32
TransTensorHALFToFloat(count) == {NeonLinear(count, 16), NeonLinear(count, 4)}

\* Which of them a build with ARM_NEON takes in the place of a portable copy.
NeonTakes(x, y, mode) ==
  CASE x.format = "NHWC" -> x.dim[4] = 3 /\ mode \in {"FLOAT_TO_FP16", "UINT8_NO_TRANS"}
    [] y.format = "NHWC" -> \/ y.dim[4] % CubeSize \in {0, 3} /\ mode = "FP16_TO_FLOAT"
                            \/ (y.dim[4] % (2 * CubeSize) = 0 \/ y.dim[4] % CubeSize = 3) /\ mode = "UINT8_NO_TRANS"
    [] OTHER -> FALSE
NeonMoves(x, y, mode) ==
  LET c0 == IF mode = "UINT8_NO_TRANS" THEN 2 * CubeSize ELSE CubeSize
  IN  IF x.format = "NHWC" THEN NeonNHWCToNC1HWC0C3(x.dim[1], x.dim[2], x.dim[3], c0)
      ELSE NeonNC1HWC0ToNHWC(x.dim[1], x.dim[2], x.dim[3], x.dim[4], c0)
=============================================================================
