------------------------------ MODULE AippPara ------------------------------
(***************************************************************************)
(* The parameters of the image preprocessing of one input: the C object,   *)
(* kept by the plugin or locally (hiai_tensor_aipp_para.c, _local.c,       *)
(* _legacy.c), AIPPParaImpl, which writes its buffer (aipp_para_impl.cpp), *)
(* and AippPara, the class of the application (HiAiAippPara.cpp,           *)
(* AippTensor.cpp).  A call that fails changes nothing but, at most, the   *)
(* table of functions; a function that is off has the value Off.           *)
(***************************************************************************)
EXTENDS AippColors

CONSTANTS
  Handles,   \* the C objects alive at a time
  MaxBatch,  \* the largest number of batches, 127 in the code
  MaxSets    \* bound on the setters called

VARIABLES
  npu,       \* whether the plugin has HIAI_TensorAipp_create
  table,     \* g_tensorAippFunctionDef: the functions in it and which of its two initialisers ran
  handles,   \* by handle: who made it and its two indices
  base,      \* the handle behind the application's AippPara
  buffer,    \* what the buffer of base says
  late,      \* history: what was changed behind the back of a resize, by batch, or of a colour conversion
  undefined, \* whether a function was handed the other library's object
  sets       \* the setters called

vars == <<npu, table, handles, base, buffer, late, undefined, sets>>

Off == -1
HalfMax == 65504
NoBase == "none"
Free == [by |-> "none", index |-> [input |-> 0, aipp |-> 0]]
Made(by) == [Free EXCEPT !.by = by]
Fresh(n) ==
  [batchNum |-> n, src |-> 0, format |-> "INVALID", csc |-> Refused, swap |-> FALSE,
   batch |-> [b \in 0 .. n - 1 |-> [crop |-> Off, scfInput |-> 0, scfOutput |-> Off, padding |-> Off, minimum |-> 0, varReci |-> 1]]]
NoBuffer == Fresh(0)
NotLate == [resize |-> {}, csc |-> FALSE]

Init ==
  /\ npu \in BOOLEAN
  /\ table = [inited |-> {}, funcs |-> "none"]
  /\ handles = [h \in Handles |-> Free]
  /\ base = NoBase /\ buffer = NoBuffer /\ late = NotLate
  /\ undefined = FALSE /\ sets = 0

-----------------------------------------------------------------------------
(* One table with two initialisers, each of which runs once.                *)
Filled(t, by) == IF by \in t.inited THEN t ELSE [inited |-> t.inited \cup {by}, funcs |-> by]
GetTensorAippFunctionDef_Local(t) == Filled(t, "local")
GetTensorAippFunctionDef_Legacy(t) == Filled(t, "legacy")
GetTensorAippFunctionDef(t) ==
  IF npu THEN GetTensorAippFunctionDef_Legacy(t) ELSE GetTensorAippFunctionDef_Local(t)

CreateLocal(n) == IF n <= MaxBatch THEN "local" ELSE "none"
CreateLegacy(n) == {"legacy", "none"}
CreateBy(t, n) == IF t.funcs = "local" THEN {CreateLocal(n)} ELSE CreateLegacy(n)
\* The plugin may lack the function that answers the buffer.
GetRawBuffer(t, by) == IF t.funcs = "legacy" THEN BOOLEAN ELSE {by = "local"}

(* Faulty variant of Create: the local function is called without its table. *)
CreateBeside(n) ==
  LET t == GetTensorAippFunctionDef(table)
      first == {[table |-> t, by |-> by] : by \in CreateBy(t, n)}
  IN  {IF c.by = "none" THEN [c EXCEPT !.by = CreateLocal(n)] ELSE c : c \in first}

\* Who made the object, "none" if nobody did, and the table afterwards.
Create(n) ==
  LET t == GetTensorAippFunctionDef(table)
      again == GetTensorAippFunctionDef_Local(t)
      Second == IF again.funcs = "local" THEN {CreateLocal(n)} ELSE CreateLegacy(n)
      first == {[table |-> t, by |-> by] : by \in CreateBy(t, n)}
      made == {c \in first : c.by # "none"}
              \cup (IF \E c \in first : c.by = "none" THEN {[table |-> again, by |-> by] : by \in Second} ELSE {})
  IN  UNION {IF c.by = "none" THEN {c}
             ELSE {IF raw THEN c ELSE [c EXCEPT !.by = "none"] : raw \in GetRawBuffer(c.table, c.by)} : c \in made}

\* A function of the table gets an object of the other library: anything may follow.
Reaches(h) == GetTensorAippFunctionDef(table).funcs = handles[h].by
Misdirected(h) ==
  /\ ~Reaches(h) /\ undefined' = TRUE
  /\ UNCHANGED <<npu, table, handles, base, buffer, late, sets>>

TensorAippPara_Create(h, n) ==
  /\ handles[h] = Free
  /\ \E c \in Create(n) : table' = c.table /\ handles' = [handles EXCEPT ![h] = Made(c.by)]
  /\ UNCHANGED <<npu, base, buffer, late, undefined, sets>>

TensorAippPara_Destroy(h) ==
  /\ handles[h] # Free /\ h # base
  /\ \/ Misdirected(h)
     \/ /\ Reaches(h) /\ handles' = [handles EXCEPT ![h] = Free]
        /\ UNCHANGED <<npu, table, base, buffer, late, undefined, sets>>

SetIndex(h, which, value) ==
  /\ handles[h] # Free /\ sets < MaxSets
  /\ \/ Misdirected(h)
     \/ /\ Reaches(h) /\ handles' = [handles EXCEPT ![h].index[which] = value] /\ sets' = sets + 1
        /\ UNCHANGED <<npu, table, base, buffer, late, undefined>>
SetInputIndex(h) == SetIndex(h, "input", 1)
SetInputAippIndex(h) == SetIndex(h, "aipp", 1)

-----------------------------------------------------------------------------
(* The application's object: made for n batches, or around a C object whose *)
(* buffer the model filled, for whatever number of batches.                 *)
CheckBatchNum(n) == n \in 1 .. MaxBatch
Take(h, filled) == base' = h /\ buffer' = filled /\ late' = NotLate

CreateAIPPPara(h, n, filled) ==
  /\ base = NoBase /\ handles[h] = Free
  /\ \E c \in Create(n) :
       /\ table' = c.table
       /\ IF c.by # "none" /\ CheckBatchNum(n)
          THEN handles' = [handles EXCEPT ![h] = Made(c.by)] /\ Take(h, filled)
          ELSE UNCHANGED <<handles, base, buffer, late>>
  /\ UNCHANGED <<npu, undefined, sets>>
InitBatches(h, n) == CreateAIPPPara(h, n, Fresh(n))

InitParaBuff(h, n) ==
  /\ base = NoBase /\ handles[h] # Free
  /\ Take(h, Fresh(n))
  /\ UNCHANGED <<npu, table, handles, undefined, sets>>

Release ==
  /\ base # NoBase
  /\ \/ Misdirected(base)
     \/ /\ Reaches(base) /\ handles' = [handles EXCEPT ![base] = Free]
        /\ Take(NoBase, NoBuffer)
        /\ UNCHANGED <<npu, table, undefined, sets>>

-----------------------------------------------------------------------------
(* The setters.  Those of a batch are for one or for all.                   *)
GetTensorAippCommPara == base # NoBase /\ CheckBatchNum(buffer.batchNum)
Batches == 0 .. buffer.batchNum - 1
BatchSets == {{b} : b \in Batches} \cup {Batches}

(* Faulty variant of UpdateCropPara: the input of the resize is left as it is. *)
UpdateCropParaOnly(batch, size) == [batch EXCEPT !.crop = size]

UpdateCropPara(batch, size) ==
  [batch EXCEPT !.crop = size, !.scfInput = IF batch.scfOutput # Off THEN size ELSE @]
UpdateResizePara(batch, size) ==
  [batch EXCEPT !.scfInput = IF batch.crop # Off THEN batch.crop ELSE buffer.src, !.scfOutput = size]
Clamp(value) == IF value > HalfMax THEN HalfMax ELSE IF value < -HalfMax THEN -HalfMax ELSE value
UpdatePaddingPara(batch, value) == [batch EXCEPT !.padding = Clamp(value)]
UpdateDtcPara(batch, value) == [batch EXCEPT !.minimum = Clamp(value), !.varReci = Clamp(value)]

Sets(written, newLate) ==
  /\ GetTensorAippCommPara /\ sets < MaxSets
  /\ buffer' = written /\ late' = newLate /\ sets' = sets + 1
  /\ UNCHANGED <<npu, table, handles, base, undefined>>
SetAippFuncPara(bs, Update(_)) == [buffer EXCEPT !.batch = [b \in Batches |-> IF b \in bs THEN Update(@[b]) ELSE @[b]]]
InTime(bs) == [late EXCEPT !.resize = @ \ bs]

SetCropPara(bs, size) == Sets(SetAippFuncPara(bs, LAMBDA batch : UpdateCropPara(batch, size)), InTime(bs))
SetResizePara(bs, size) == Sets(SetAippFuncPara(bs, LAMBDA batch : UpdateResizePara(batch, size)), InTime(bs))
SetPaddingPara(bs, value) == Sets(SetAippFuncPara(bs, LAMBDA batch : UpdatePaddingPara(batch, value)), late)
SetDtcPara(bs, value) == Sets(SetAippFuncPara(bs, LAMBDA batch : UpdateDtcPara(batch, value)), late)

SetInputShape(size) ==
  Sets([buffer EXCEPT !.src = size],
       [late EXCEPT !.resize = @ \cup {b \in Batches : buffer.batch[b].scfOutput # Off /\ buffer.batch[b].crop = Off}])
SetInputFormat(format) ==
  /\ format \in InputFormats
  /\ Sets([buffer EXCEPT !.format = format], [late EXCEPT !.csc = buffer.csc.ok /\ (@ \/ format # buffer.format)])
SetChannelSwapPara(swap) == Sets([buffer EXCEPT !.swap = swap], late)

SetCscFormat(target, space) ==
  LET csc == CscOfFormat(buffer.format, target, space)
  IN  csc.ok /\ Sets([buffer EXCEPT !.csc = csc], [late EXCEPT !.csc = FALSE])
\* A bias is kept as a byte; the application answers for a matrix of its own.
Bytes(bias) == [i \in DOMAIN bias |-> bias[i] % 256]
SetCscMatrix(m) ==
  Sets([buffer EXCEPT !.csc = [m EXCEPT !.inputBias = Bytes(@), !.outputBias = Bytes(@)]], [late EXCEPT !.csc = TRUE])

-----------------------------------------------------------------------------
(* A tensor around a graphics buffer: one batch, cropped to the image.      *)
GrallocFormats == {"YUV422SP", "YUV420SP", "YUYV", "YUV400"}
ImageFormatOf(given, found) == IF given = "INVALID" THEN found ELSE given
CreateAiPPTensorFromHandle(h, given, found, stride, width) ==
  /\ found \in GrallocFormats /\ ImageFormatOf(given, found) = found
  /\ CreateAIPPPara(h, 1, [Fresh(1) EXCEPT !.format = found, !.src = stride, !.batch[0] = UpdateCropPara(@, width)])

-----------------------------------------------------------------------------
(* The getters: the default for an object that is not there, or a batch     *)
(* that is not.                                                             *)
CheckBatchIndex(b) == GetTensorAippCommPara /\ b \in Batches
GetBatchCount == IF GetTensorAippCommPara THEN buffer.batchNum ELSE 0
GetCropPara(b) == IF CheckBatchIndex(b) /\ buffer.batch[b].crop # Off THEN buffer.batch[b].crop ELSE 0
GetEnableCrop(b) == CheckBatchIndex(b) /\ buffer.batch[b].crop # Off
GetEnableResize(b) == CheckBatchIndex(b) /\ buffer.batch[b].scfOutput # Off
GetPaddingPara(b) == IF CheckBatchIndex(b) /\ buffer.batch[b].padding # Off THEN buffer.batch[b].padding ELSE 0
GetDtcPara(b) == IF CheckBatchIndex(b) THEN buffer.batch[b].minimum ELSE 0
GetInputShape == IF GetTensorAippCommPara THEN buffer.src ELSE 0
GetInputFormat == IF GetTensorAippCommPara THEN buffer.format ELSE "INVALID"
GetEnableCsc == GetTensorAippCommPara /\ buffer.csc.ok
GetCscPara == IF GetTensorAippCommPara THEN buffer.csc ELSE Refused

-----------------------------------------------------------------------------
CropSizes == {1, 2}
Values == {70000, -70000}
Matrices == {Csc(<<1, 0, 0, 0, 1, 0, 0, 0, 1>>, <<-16, 0, 300>>, Zero3)}
Setters ==
  \/ \E bs \in BatchSets : \/ \E size \in CropSizes : SetCropPara(bs, size)
                           \/ SetResizePara(bs, 1)
                           \/ \E value \in Values : SetPaddingPara(bs, value) \/ SetDtcPara(bs, value)
  \/ \E size \in CropSizes : SetInputShape(size)
  \/ \E format \in {"YUYV", "RGB888"} : SetInputFormat(format)
  \/ \E target \in {"RGB888", "YUV444SP"} : SetCscFormat(target, "JPEG")
  \/ \E m \in Matrices : SetCscMatrix(m)
  \/ SetChannelSwapPara(TRUE)

Objects ==
  \/ \E h \in Handles : \/ TensorAippPara_Create(h, 1) \/ TensorAippPara_Destroy(h)
                        \/ SetInputIndex(h) \/ SetInputAippIndex(h)
                        \/ \E n \in 0 .. MaxBatch + 1 : InitBatches(h, n) \/ InitParaBuff(h, n)
                        \/ \E given \in {"INVALID", "YUYV", "RGB888"}, found \in {"YUYV", "RGB888"} :
                             CreateAiPPTensorFromHandle(h, given, found, 2, 1)
  \/ Release

Next == ~undefined /\ (Setters \/ Objects)
Spec == Init /\ [][Next]_vars

-----------------------------------------------------------------------------
(* A resize takes the cropped image, or the whole image if nothing is       *)
(* cropped, whatever the order of the setters; only a new shape of the      *)
(* image behind a resize leaves it with the old one.                        *)
ResizeInputCurrent ==
  \A b \in 0 .. MaxBatch : GetEnableResize(b) /\ b \notin late.resize =>
    buffer.batch[b].scfInput = IF GetEnableCrop(b) THEN GetCropPara(b) ELSE GetInputShape

(* A colour conversion is the one of the image's format, unless the format  *)
(* was set after it or the matrix is the application's; its biases are      *)
(* bytes, and every value of a channel is one a half can hold.              *)
CscCurrent ==
  GetEnableCsc =>
    /\ ~late.csc => \E target \in Targets, space \in ColorSpaces : GetCscPara = CscOfFormat(GetInputFormat, target, space)
    /\ \A i \in 1 .. 3 : GetCscPara.inputBias[i] \in 0 .. 255
ValuesFit == \A b \in 0 .. GetBatchCount - 1 : GetPaddingPara(b) \in -HalfMax .. HalfMax /\ GetDtcPara(b) \in -HalfMax .. HalfMax

(* A local object reaches local functions only.  A plugin's object reaches  *)
(* local functions once a creation the plugin refused has overwritten the   *)
(* table, and in no other way.                                              *)
HandlesServed ==
  /\ \A h \in Handles : handles[h].by = "local" => Reaches(h)
  /\ undefined => table = [inited |-> {"local", "legacy"}, funcs |-> "local"]

ParaSound == ResizeInputCurrent /\ CscCurrent /\ ValuesFit /\ HandlesServed
=============================================================================
