----------------------------- MODULE AippColors -----------------------------
(***************************************************************************)
(* The colour space conversion of AIPP: the matrix and biases the runtime  *)
(* sets for a target format (InitCscMatrixToRGB and its siblings in        *)
(* aipp_para_impl.cpp) and those the builder writes into the model for a   *)
(* CscPara (ToRGB, ToYUV, SetCscParas in aipp_param_info_converter.cpp).   *)
(* Matrices are sequences of nine numbers, row after row.                  *)
(***************************************************************************)
EXTENDS Integers, Sequences

ColorSpaces == {"JPEG", "BT_601_NARROW", "BT_601_FULL", "BT_709_NARROW"}
Targets == {"YVU444SP", "YUV444SP", "RGB888", "BGR888", "YUV400"}
RgbFormats == {"XRGB8888", "RGB888", "ARGB8888"}
YuvFormats == {"YUV420SP", "YUV422SP", "YUYV", "AYUV444"}

\* The formats of an image: those SetInputFormat takes, and those only a parameter may name.
InputFormats == RgbFormats \cup YuvFormats \cup {"YUV400"}
ImageFormats == InputFormats \cup {"BGR888", "YUV444SP", "YVU444SP", "INVALID"}

Full == {"JPEG", "BT_601_FULL"}
YUV_TO_RGB(space) ==
  CASE space \in Full -> <<<<256, 0, 359>>, <<256, -88, -183>>, <<256, 454, 0>>>>
    [] space = "BT_601_NARROW" -> <<<<298, 0, 409>>, <<298, -100, -208>>, <<298, 516, 0>>>>
    [] space = "BT_709_NARROW" -> <<<<298, 0, 460>>, <<298, -55, -137>>, <<298, 541, 0>>>>
RGB_TO_YUV(space) ==
  CASE space \in Full -> <<<<77, 150, 29>>, <<-43, -85, 128>>, <<128, -107, -21>>>>
    [] space = "BT_601_NARROW" -> <<<<66, 129, 25>>, <<-38, -74, 112>>, <<112, -94, -18>>>>
    [] space = "BT_709_NARROW" -> <<<<47, 157, 16>>, <<-26, -87, 112>>, <<112, -102, -10>>>>

Rows(table, order) == table[order[1]] \o table[order[2]] \o table[order[3]]
Zero3 == <<0, 0, 0>>
Bias(space) == <<IF space = "JPEG" THEN 0 ELSE 16, 128, 128>>
Refused == [ok |-> FALSE]
Csc(matrix, inputBias, outputBias) ==
  [ok |-> TRUE, matrix |-> matrix, inputBias |-> inputBias, outputBias |-> outputBias]

-----------------------------------------------------------------------------
(* The runtime.                                                             *)
InitCscMatrixToRGB(input, target, space) ==
  IF input \in RgbFormats \cup {"BGR888", "YUV400"} THEN Refused
  ELSE Csc(Rows(YUV_TO_RGB(space), IF target = "RGB888" THEN <<1, 2, 3>> ELSE <<3, 2, 1>>), Bias(space), Zero3)

(* Faulty variant: the planes of U and V are not exchanged, those of Y and U are. *)
InitCscMatrixToYUVSwapped(input, target, space) ==
  IF input \in YuvFormats \cup {"YUV400"} THEN Refused
  ELSE Csc(Rows(RGB_TO_YUV(space), IF target = "YUV444SP" THEN <<1, 2, 3>> ELSE <<2, 1, 3>>), Zero3, Bias(space))

InitCscMatrixToYUV(input, target, space) ==
  IF input \in YuvFormats \cup {"YUV400"} THEN Refused
  ELSE Csc(Rows(RGB_TO_YUV(space), IF target = "YUV444SP" THEN <<1, 2, 3>> ELSE <<1, 3, 2>>), Zero3, Bias(space))

InitCscMatrixToGray(input) ==
  CASE input = "YUV400" -> Refused
    [] input \in YuvFormats -> Csc(<<256, 0, 0, 0, 0, 0, 0, 0, 0>>, Zero3, Zero3)
    [] OTHER -> Csc(<<76, 150, 30, 0, 0, 0, 0, 0, 0>>, Zero3, Zero3)

CscOfFormat(input, target, space) ==
  CASE input = "INVALID" \/ target \notin Targets -> Refused
    [] target \in {"RGB888", "BGR888"} -> InitCscMatrixToRGB(input, target, space)
    [] target \in {"YUV444SP", "YVU444SP"} -> InitCscMatrixToYUV(input, target, space)
    [] OTHER -> InitCscMatrixToGray(input)

-----------------------------------------------------------------------------
(* The builder; "enabled" tells whether the model converts at all.          *)
ToRGB(input, target, space) ==
  IF input \in RgbFormats \cup {"YUV400"} THEN Refused
  ELSE Csc(Rows(YUV_TO_RGB(space), IF target = "RGB888" THEN <<1, 2, 3>> ELSE <<3, 2, 1>>), Bias(space), Zero3)
ToYUV(input, target, space) ==
  IF input \in YuvFormats \cup {"YUV400"} THEN Refused
  ELSE Csc(Rows(RGB_TO_YUV(space), IF target = "YUV444SP" THEN <<1, 2, 3>> ELSE <<1, 3, 2>>), Zero3, Bias(space))

SetCscParas(input, target, space) ==
  CASE target \notin Targets -> Refused
    [] target \in {"RGB888", "BGR888"} -> ToRGB(input, target, space)
    [] target \in {"YUV444SP", "YVU444SP"} -> ToYUV(input, target, space)
    [] input \in YuvFormats -> Csc(<<256, 0, 0, 0, 0, 0, 0, 0, 0>>, Zero3, Zero3)
    [] input = "YUV400" -> [ok |-> TRUE, matrix |-> <<>>]
    [] OTHER -> Csc(<<76, 150, 30, 0, 0, 0, 0, 0, 0>>, Zero3, Zero3)
Enabled(csc) == csc.ok /\ csc.matrix # <<>>

\* Only these formats become the input format of a chain.
NamesInput(format) == format \in InputFormats
=============================================================================
