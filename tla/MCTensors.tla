----------------------------- MODULE MCTensors -----------------------------
(***************************************************************************)
(* The conversions: tensors, numbers, colours, images, filters, operators  *)
(* and models, each behaviour the call or the calls on one of them.        *)
(***************************************************************************)
EXTENDS TransTensor, TLC

Halves == INSTANCE Fp16

CONSTANT WordBits  \* the bits of a word of std::vector<bool>, 64 in the code's builds
ASSUME WordBitsAssumption == WordBits \in Nat \ {0}

VARIABLES
  what,    \* "tensor", "half", "float", "color", "aipp", "ir", "quant", or "model" and "race" for the calls on models
  x,       \* the descriptor of the input of the call, the number, colours or graph to convert; the ROM of a model
  y,       \* the descriptor of the output, or what the call returned, NotYet before the call; the calls on models
  result   \* what the call did; the flag of the calls on models

vars == <<what, x, y, result>>
Cases == INSTANCE MCAipp
Operators == INSTANCE MCIr
Filters == INSTANCE MCQuantize
Files == INSTANCE MCModels
Models == INSTANCE ModelCompatible
  WITH rom <- x, call <- y, IS_MERGED <- result, Call <- 1 .. 2, Roms <- Files!Roms, Inputs <- Files!Given
NotYet == [format |-> "none"]

(***************************************************************************)
(* The calls.                                                              *)
(***************************************************************************)
Shapes == {<<1, 3, 2, 2>>, <<2, 3, 1, 2>>, <<2, 4, 2, 1>>, <<1, 5, 2, 2>>, <<2, 7, 1, 1>>, <<1, 7, 2, 1>>, <<1, 8, 1, 2>>,
           <<2, 9, 1, 2>>, <<1, 11, 2, 1>>, <<2, 9, 5, 5>>, <<2, 9, 7, 7>>, <<2, 10, 7, 7>>}
OddShapes == {<<>>, <<0>>, <<3>>, <<2, 3>>, <<3, 2, 2>>, <<1, 2, 1, 2, 2>>, <<1, 2, -1, 2, 2>>, <<4, 0, 2, 2, 1>>,
              <<-1, 3, 2, 2>>, <<1, 3, 2050, 2>>, <<30, 40, 1, 1>>}
Types == {"FLOAT", "HALF", "INT8", "INT32", "UINT8", "INT64", "BOOL", "QINT8"}
Formats == {"NCHW", "NHWC", "ND", "NC1HWC0"}

Tensor(format, type, s) ==
  [format |-> format, type |-> type, real |-> Len(s),
   dims |-> IF format \in {"NHWC", "ND"} /\ Len(s) = 4 THEN <<s[1], s[3], s[4], s[2]>> ELSE s]
ShapeTensors(formats, types, shapes) == {Tensor(fo, ty, s) : fo \in formats, ty \in types, s \in shapes}

\* Halves and floats around the places where exponents and roundings change.
Mantissas == {0, 1, 2, 511, 512, 1022, 1023}
HalfNumbers == {s * 32768 + e * 1024 + m : s \in 0 .. 1, e \in 0 .. 31, m \in Mantissas}
FloatNumbers == {[s |-> s, e |-> e, m |-> hi * 8192 + lo] :
                   s \in 0 .. 1, e \in {0, 1, 255} \cup 99 .. 145, hi \in Mantissas,
                   lo \in {0, 1, 4095, 4096, 4097, 8191}}

ToConvert ==
  \/ /\ what = "tensor"
     /\ x \in ShapeTensors(Formats, Types, Shapes)
            \cup ShapeTensors(Formats \cup Formats5D, {"FLOAT", "INT8"}, OddShapes)
  \/ what = "half" /\ x \in HalfNumbers
  \/ what = "float" /\ x \in FloatNumbers
  \/ what = "color" /\ x \in Cases!Colors
  \/ what = "aipp" /\ x \in Cases!AippGraphs
  \/ what = "ir" /\ x \in Operators!IrCases
  \/ what = "quant" /\ x \in Filters!QuantCases
Init ==
  \/ ToConvert /\ y = NotYet /\ result = Failed
  \/ what \in {"model", "race"} /\ Models!Init

\* The output of the call has the shape of the input in any format and type, or another shape in one type.
Convert ==
  /\ what = "tensor" /\ y = NotYet
  /\ \E fo \in Formats \cup {x.format}, ty \in Types, s \in Shapes \cup OddShapes :
       LET u == Tensor(fo, ty, s) IN
       /\ \/ \E fx \in Formats \cup Formats5D : x = Tensor(fx, x.type, s)
          \/ ty = x.type /\ s \in {<<1, 3, 2, 2>>, <<3>>}
       /\ y' = u
       /\ result' = TransTensor(x, u)
  /\ UNCHANGED <<what, x>>

ConvertNumber ==
  /\ what \in {"half", "float"}
  /\ y' = IF what = "half" THEN Halves!Fp16ToFloat(x) ELSE Halves!FloatToFp16(x)
  /\ UNCHANGED <<what, x, result>>

ConvertColors ==
  /\ what = "color" /\ y = NotYet
  /\ y' = [runtime |-> Cases!CscOfFormat(x.input, x.target, x.space), builder |-> Cases!SetCscParas(x.input, x.target, x.space)]
  /\ UNCHANGED <<what, x, result>>

FuseImages ==
  /\ what = "aipp" /\ y = NotYet
  /\ y' = Cases!GenerateAippCompatibleInfo(x)
  /\ UNCHANGED <<what, x, result>>

TransferOperator ==
  /\ what = "ir" /\ y = NotYet
  /\ y' = Operators!Transfer(x)
  /\ UNCHANGED <<what, x, result>>

TransferFilters ==
  /\ what = "quant" /\ y = NotYet
  /\ \E g \in Filters!GraphOf(x) : y' = Filters!Change(g)
  /\ UNCHANGED <<what, x, result>>

\* One call, and what restores its result; or two calls that meet at the flag.
RestoreModel ==
  /\ what = "model" /\ Models!Next /\ UNCHANGED what
  /\ y'[2].at = "idle" \/ y'[2].of = 1
RestoreModels ==
  /\ what = "race" /\ Models!Next /\ UNCHANGED what
  /\ \A c \in 1 .. 2 : y'[c].at = "idle" \/ y'[c].of # 0 \/ y'[c].file \in Files!Racers

Next ==
  Convert \/ ConvertNumber \/ ConvertColors \/ FuseImages \/ TransferOperator \/ TransferFilters
  \/ RestoreModel \/ RestoreModels
Spec == Init /\ [][Next]_vars

(***************************************************************************)
(* Properties.                                                             *)
(***************************************************************************)
X == InitTensorDescriptor(x)
Y == InitTensorDescriptor(y)
Done == what = "tensor" /\ y # NotYet

\* A descriptor that passes the checks has the true size of its tensor, padding included, and the true strides:
\* none of the 32-bit products wrapped.
TrueSize(d) ==
  LET c0 == DescC0(d.type)
      blocks == IF d.format = "NC1HWC0" THEN <<d.dim[1], CeilDiv(d.dim[2], c0) * c0, d.dim[3], d.dim[4]>> ELSE d.dim
      size[i \in 0 .. Len(blocks)] == IF i = 0 THEN TypeSize[d.type] ELSE size[i - 1] * blocks[i]
      stride[i \in 1 .. Len(d.dim)] == IF i = Len(d.dim) THEN 1 ELSE stride[i + 1] * d.dim[i + 1]
  IN  /\ d.size = size[Len(blocks)]
      /\ d.size <= TypeSize[d.type] * MaxCount
      /\ d.format \notin Formats5D => d.stride = [i \in 1 .. Len(d.dim) |-> stride[i]]
DescriptorExact ==
  what = "tensor" /\ X.ok /\ X # Cleared /\ (\A i \in DOMAIN X.dim : X.dim[i] > 0) => TrueSize(X)

\* A conversion reads within the input it was told of and writes within the output it was told of.
InBounds ==
  Done /\ result.ok =>
    \A m \in result.moves :
      /\ m.to >= 0 /\ (m.to + 1) * result.writes <= Y.size
      /\ m.from = Pad \/ (m.from >= 0 /\ (m.from + 1) * result.reads <= X.size)

\* A change of layout takes every element to the place the output's layout has for its coordinates, and clears
\* the rest of the output.
Logical(d) == IF d.format = "NHWC" THEN <<d.dim[1], d.dim[4], d.dim[2], d.dim[3]>> ELSE d.dim
Place(d, k) ==
  LET s == Logical(d)
      c0 == DescC0(d.type)
  IN  CASE d.format = "NCHW" -> ((k.n * s[2] + k.c) * s[3] + k.h) * s[4] + k.w
        [] d.format = "NHWC" -> ((k.n * s[3] + k.h) * s[4] + k.w) * s[2] + k.c
        [] OTHER -> (((k.n * CeilDiv(s[2], c0) + k.c \div c0) * s[3] + k.h) * s[4] + k.w) * c0 + (k.c % c0)
SameElement ==
  Done /\ result.ok /\ x.format # y.format /\ "ND" \notin {x.format, y.format} /\ result.mode \notin {"BYTES", "LINEAR"} =>
    LET s == Logical(X)
        moved == {Move(Place(Y, k), Place(X, k)) :
                    k \in [n : 0 .. s[1] - 1, c : 0 .. s[2] - 1, h : 0 .. s[3] - 1, w : 0 .. s[4] - 1]}
    IN  result.moves = moved \cup {Move(to, Pad) : to \in (0 .. Y.size \div result.writes - 1) \ {m.to : m \in moved}}

\* An ARM_NEON build moves the same elements unless the last block of channels is neither full nor the only one.
NeonAgrees ==
  /\ Done /\ result.ok /\ result.mode = "LINEAR" /\ {x.type, y.type} = {"FLOAT", "HALF"} =>
       \A neon \in TransTensorFloatToHALF(Cardinality(result.moves)) \cup TransTensorHALFToFloat(Cardinality(result.moves)) :
         neon = result.moves
  /\ Done /\ result.ok /\ {X.format, Y.format} = {"NHWC", "NC1HWC0"} /\ NeonTakes(X, Y, result.mode) =>
       LET s == Logical(X)
           c0 == IF result.mode = "UINT8_NO_TRANS" THEN 2 * CubeSize ELSE CubeSize
       IN  NeonMoves(X, Y, result.mode) = result.moves
             <=> X.format = "NHWC" \/ s[2] % c0 = 0 \/ s[2] < c0 \/ s[3] * s[4] = 1

\* No size overflowed and no access leaves its buffer.
SizesSound == DescriptorExact /\ InBounds

\* The scalar code moves every element to its place, and NEON code where it agrees.
LayoutSound == SameElement /\ NeonAgrees

\* Numbers. A half is the nearest to its float, a tie to even, for one that overflows the largest half or infinity (comment
\* and code differ, fp16_t.cpp:216), and back and forth is the identity; a filter that is quantised and taken back is near to what it was, and a graph that is dequantised
\* holds its filters times the scale of their channels and says nowhere that it is quantised.
NumbersExact ==
  /\ what = "half" => Halves!HalfKept(x)
  /\ what = "float" => Halves!NearestHalf(x)
  /\ what = "quant" /\ y # NotYet => Filters!QuantizeSound

\* Image preprocessing: the builder and the runtime agree on the conversions of colours, and the runtime takes the
\* inputs of a model apart the way the builder put them together.
AippSound ==
  /\ what = "color" /\ y # NotYet => Cases!ColorsAgree
  /\ what = "aipp" /\ y # NotYet => Cases!FusedGraphSound /\ Cases!InputsRouted

\* Operators: a transfer stamps them for the ROM, keeps what they say, and can be taken back but for what is named.
TransferSound == what = "ir" /\ y # NotYet => Operators!TransferSound

\* Models: the buffer the ROM is given holds every weight once, operators of the version the ROM understands, linked as
\* they were, inputs and filters as its chip takes them, the configuration, and needs nothing more when restored again;
\* calls that run at the same time may spoil the weights of each other, and nothing else.
ModelsRestored == what \in {"model", "race"} => Models!ModelsRestored
=============================================================================
