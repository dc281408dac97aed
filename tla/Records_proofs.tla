--------------------------- MODULE Records_proofs ---------------------------
(***************************************************************************)
(* Proofs about the components of Records, for any number of objects and   *)
(* any inputs: what is said of one of them is kept by its own actions, and *)
(* no step of another reaches its variables.                               *)
(***************************************************************************)
EXTENDS Records, SequenceTheorems, FiniteSetTheorems, TLAPS

(***************************************************************************)
(* AIPP parameters: the table of functions and the objects it serves.      *)
(***************************************************************************)

\* Without a plugin only the local initialiser runs; with one the plugin's comes first.
TableKnown ==
  /\ npu \in BOOLEAN
  /\ npu => table \in {[inited |-> {}, funcs |-> "none"], [inited |-> {"legacy"}, funcs |-> "legacy"],
                       [inited |-> {"legacy", "local"}, funcs |-> "local"]}
  /\ ~npu => table \in {[inited |-> {}, funcs |-> "none"], [inited |-> {"local"}, funcs |-> "local"]}

\* An object says who made it; the table has had that library's functions.
ObjectsKnown ==
  /\ handles \in [Paras -> [by : {"none", "local", "legacy"}, index : [input : Int, aipp : Int]]]
  /\ \A h \in Paras :
       /\ handles[h].by = "none" => handles[h] = Params!Free
       /\ handles[h].by = "local" => table.funcs = "local"
       /\ handles[h].by = "legacy" => "legacy" \in table.inited
  /\ base # Params!NoBase => base \in Paras /\ handles[base].by # "none"

ObjectsInv == TableKnown /\ ObjectsKnown /\ Params!HandlesServed

\* What a creation can lead to: the table only moves on, and an object is one of a
\* library whose functions are there.
LEMMA CreateOutcome ==
  ASSUME ObjectsInv, NEW n \in Int, NEW c \in Params!Create(n)
  PROVE  /\ c.by \in {"none", "local", "legacy"}
         /\ npu => c.table \in {[inited |-> {"legacy"}, funcs |-> "legacy"], [inited |-> {"legacy", "local"}, funcs |-> "local"]}
         /\ ~npu => c.table = [inited |-> {"local"}, funcs |-> "local"]
         /\ table.funcs = "local" => c.table = table
         /\ c.by = "local" => c.table.funcs = "local"
         /\ c.by = "legacy" => "legacy" \in c.table.inited
<1>1. PICK d \in {[table |-> Params!GetTensorAippFunctionDef(table), by |-> by] :
                    by \in Params!CreateBy(Params!GetTensorAippFunctionDef(table), n)}
               \cup {[table |-> Params!GetTensorAippFunctionDef_Local(Params!GetTensorAippFunctionDef(table)), by |-> by] :
                    by \in Params!CreateBy(Params!GetTensorAippFunctionDef_Local(Params!GetTensorAippFunctionDef(table)), n)} :
        c = d \/ c = [d EXCEPT !.by = "none"]
  BY DEF Params!Create, Params!CreateBy
<1> DEFINE t == Params!GetTensorAippFunctionDef(table)
           again == Params!GetTensorAippFunctionDef_Local(t)
<1>2. /\ npu => t \in {[inited |-> {"legacy"}, funcs |-> "legacy"], [inited |-> {"legacy", "local"}, funcs |-> "local"]}
      /\ ~npu => t = [inited |-> {"local"}, funcs |-> "local"]
      /\ table.funcs = "local" => t = table
  BY DEF ObjectsInv, TableKnown, Params!GetTensorAippFunctionDef, Params!GetTensorAippFunctionDef_Local,
         Params!GetTensorAippFunctionDef_Legacy, Params!Filled
<1>3. /\ npu => again = [inited |-> {"legacy", "local"}, funcs |-> "local"]
      /\ ~npu => again = [inited |-> {"local"}, funcs |-> "local"]
      /\ table.funcs = "local" => again = table
  <2>1. {"legacy"} \cup {"local"} = {"legacy", "local"}
    OBVIOUS
  <2> QED BY <1>2, <2>1 DEF Params!GetTensorAippFunctionDef_Local, Params!Filled, ObjectsInv, TableKnown
<1> HIDE DEF t, again
<1>4. \E by \in {"none", "local", "legacy"} :
        /\ d = [table |-> t, by |-> by] \/ d = [table |-> again, by |-> by]
        /\ by = "local" => d.table.funcs = "local"
        /\ by = "legacy" => d.table.funcs # "local"
  BY <1>1 DEF t, again, Params!CreateBy, Params!CreateLocal, Params!CreateLegacy
<1> QED BY <1>1, <1>2, <1>3, <1>4 DEF ObjectsInv, TableKnown

LEMMA ObjectsInit == Params!Init => ObjectsInv
  BY DEF Params!Init, ObjectsInv, TableKnown, ObjectsKnown, Params!HandlesServed, Params!Free, Params!NoBase,
         Params!Reaches

\* A call handed an object of the other library: the object is the plugin's, and the
\* table has gone over to the local functions.
LEMMA MisdirectedKept ==
  ASSUME ObjectsInv, NEW h \in Paras, handles[h].by # "none", Params!Misdirected(h)
  PROVE  ObjectsInv'
<1>1. UNCHANGED <<npu, table, handles, base>>
  BY DEF Params!Misdirected
<1>2. npu /\ table = [inited |-> {"local", "legacy"}, funcs |-> "local"]
  <2>1. handles[h].by \in {"local", "legacy"}
    BY DEF ObjectsInv, ObjectsKnown
  <2>2. CASE handles[h].by = "local"
    BY <2>2 DEF ObjectsInv, Params!HandlesServed, Params!Misdirected
  <2>3. CASE handles[h].by = "legacy"
    <3>1. "legacy" \in table.inited
      BY <2>3 DEF ObjectsInv, ObjectsKnown
    <3>2. npu /\ table \in {[inited |-> {"legacy"}, funcs |-> "legacy"], [inited |-> {"legacy", "local"}, funcs |-> "local"]}
      BY <3>1 DEF ObjectsInv, TableKnown
    <3>3. table.funcs # "legacy"
      BY <2>3, <3>1, <3>2 DEF Params!Misdirected, Params!Reaches, Params!GetTensorAippFunctionDef,
            Params!GetTensorAippFunctionDef_Legacy, Params!Filled
    <3> QED BY <3>2, <3>3
  <2> QED BY <2>1, <2>2, <2>3
<1>3. (\A k \in Paras : handles[k].by = "local" => Params!Reaches(k))'
  <2> SUFFICES ASSUME NEW k \in Paras, handles[k].by = "local" PROVE Params!Reaches(k)'
    BY <1>1
  <2> QED BY <1>1 DEF ObjectsInv, Params!HandlesServed, Params!Reaches, Params!GetTensorAippFunctionDef,
            Params!GetTensorAippFunctionDef_Legacy, Params!GetTensorAippFunctionDef_Local, Params!Filled
<1> QED BY <1>1, <1>2, <1>3 DEF ObjectsInv, TableKnown, ObjectsKnown, Params!HandlesServed

\* A new object h of library "by", none if the creation failed, under the table it left.
LEMMA MadeKept ==
  ASSUME ObjectsInv, ~undefined, NEW h \in Paras, NEW n \in Int, NEW c \in Params!Create(n),
         handles[h] = Params!Free, table' = c.table,
         \/ handles' = [handles EXCEPT ![h] = Params!Made(c.by)] /\ (base' = base \/ (c.by # "none" /\ base' = h))
         \/ UNCHANGED <<handles, base>>,
         UNCHANGED <<npu, undefined>>
  PROVE  ObjectsInv'
<1>1. /\ c.by \in {"none", "local", "legacy"}
      /\ npu => table' \in {[inited |-> {"legacy"}, funcs |-> "legacy"], [inited |-> {"legacy", "local"}, funcs |-> "local"]}
      /\ ~npu => table' = [inited |-> {"local"}, funcs |-> "local"]
      /\ table.funcs = "local" => table' = table
      /\ c.by = "local" => table'.funcs = "local"
      /\ c.by = "legacy" => "legacy" \in table'.inited
  BY CreateOutcome
<1>2. TableKnown'
  BY <1>1 DEF ObjectsInv, TableKnown
<1>3. ObjectsKnown'
  <2>1. "legacy" \in table.inited => "legacy" \in table'.inited
    BY <1>1 DEF ObjectsInv, TableKnown
  <2>2. handles' \in [Paras -> [by : {"none", "local", "legacy"}, index : [input : Int, aipp : Int]]]
    BY <1>1 DEF ObjectsInv, ObjectsKnown, Params!Made, Params!Free
  <2>3. ASSUME NEW k \in Paras
        PROVE  /\ handles'[k].by = "none" => handles'[k] = Params!Free
               /\ handles'[k].by = "local" => table'.funcs = "local"
               /\ handles'[k].by = "legacy" => "legacy" \in table'.inited
    <3>1. CASE handles'[k] = handles[k]
      BY <1>1, <2>1, <3>1 DEF ObjectsInv, ObjectsKnown
    <3>2. CASE k = h /\ handles'[k] = Params!Made(c.by)
      BY <1>1, <3>2 DEF Params!Made, Params!Free
    <3> QED BY <3>1, <3>2 DEF ObjectsInv, ObjectsKnown
  <2>4. base' # Params!NoBase => base' \in Paras /\ handles'[base'].by # "none"
    <3>1. handles[h].by = "none"
      BY DEF Params!Free
    <3>2. base # Params!NoBase => base \in Paras /\ base # h /\ handles[base].by # "none"
      BY <3>1 DEF ObjectsInv, ObjectsKnown
    <3> QED BY <3>2, <1>1 DEF ObjectsInv, ObjectsKnown, Params!Made, Params!Free
  <2> QED BY <2>2, <2>3, <2>4 DEF ObjectsKnown, Params!Free, Params!NoBase
<1>4. Params!HandlesServed'
  <2> SUFFICES ASSUME NEW k \in Paras, handles'[k].by = "local" PROVE Params!Reaches(k)'
    BY DEF Params!HandlesServed
  <2>1. table'.funcs = "local"
    BY <1>3 DEF ObjectsKnown
  <2>2. Params!GetTensorAippFunctionDef(table)' = table'
    BY <1>1, <2>1 DEF Params!GetTensorAippFunctionDef, Params!GetTensorAippFunctionDef_Local, ObjectsInv, TableKnown,
            Params!GetTensorAippFunctionDef_Legacy, Params!Filled
  <2> QED BY <2>1, <2>2 DEF Params!Reaches
<1> QED BY <1>2, <1>3, <1>4 DEF ObjectsInv

\* An object is freed or one of its indices is set.
LEMMA ServedKept ==
  ASSUME ObjectsInv, ~undefined, NEW h \in Paras, handles[h].by # "none",
         \/ handles' = [handles EXCEPT ![h] = Params!Free] /\ base' \in {base, Params!NoBase} /\ base' # h
         \/ /\ base' = base
            /\ \E which \in {"input", "aipp"} : handles' = [handles EXCEPT ![h].index[which] = 1],
         UNCHANGED <<npu, table, undefined>>
  PROVE  ObjectsInv'
<1>1. ObjectsKnown'
  <2>1. handles' \in [Paras -> [by : {"none", "local", "legacy"}, index : [input : Int, aipp : Int]]]
    BY DEF ObjectsInv, ObjectsKnown, Params!Free
  <2>2. ASSUME NEW k \in Paras
        PROVE  \/ handles'[k] = handles[k]
               \/ k = h /\ handles'[k] = Params!Free
               \/ k = h /\ handles'[k].by = handles[h].by
    BY DEF ObjectsInv, ObjectsKnown
  <2>3. Params!Free.by = "none" /\ UNCHANGED Params!Free
    BY DEF Params!Free
  <2>4. base' # Params!NoBase => base' = base /\ base \in Paras /\ handles'[base].by # "none"
    BY <2>2 DEF ObjectsInv, ObjectsKnown
  <2> QED BY <2>1, <2>2, <2>3, <2>4 DEF ObjectsInv, ObjectsKnown, Params!NoBase
<1>2. Params!HandlesServed'
  <2> SUFFICES ASSUME NEW k \in Paras, handles'[k].by = "local" PROVE Params!Reaches(k)'
    BY DEF Params!HandlesServed
  <2>1. table'.funcs = "local"
    BY <1>1 DEF ObjectsKnown
  <2>2. Params!GetTensorAippFunctionDef(table)' = table'
    BY <2>1 DEF Params!GetTensorAippFunctionDef, Params!GetTensorAippFunctionDef_Local, ObjectsInv, TableKnown,
            Params!GetTensorAippFunctionDef_Legacy, Params!Filled
  <2> QED BY <2>1, <2>2 DEF Params!Reaches
<1> QED BY <1>1, <1>2 DEF ObjectsInv, TableKnown

-----------------------------------------------------------------------------
(***************************************************************************)
(* AIPP parameters: what the buffer says.                                  *)
(***************************************************************************)
HalfRange == -Params!HalfMax .. Params!HalfMax
Batch == [crop : Int, scfInput : Int, scfOutput : Int, padding : HalfRange, minimum : HalfRange, varReci : Int]
BatchesOf(w) == 0 .. w.batchNum - 1

BufferTyped(w, l) ==
  /\ w = [batchNum |-> w.batchNum, src |-> w.src, format |-> w.format, csc |-> w.csc, swap |-> w.swap, batch |-> w.batch]
  /\ w.batchNum \in Nat /\ w.src \in Int
  /\ w.batch \in [BatchesOf(w) -> Batch]
  /\ l = [resize |-> l.resize, csc |-> l.csc]

\* A resize whose image did not change behind its back takes the crop or the image.
ResizeKept(w, l) ==
  \A b \in BatchesOf(w) : w.batch[b].scfOutput # Params!Off /\ b \notin l.resize =>
    w.batch[b].scfInput = IF w.batch[b].crop # Params!Off THEN w.batch[b].crop ELSE w.src

\* A conversion whose format did not change behind its back is the one of that format.
CscKept(w, l) ==
  w.csc.ok =>
    /\ ~l.csc => \E target \in Params!Targets, space \in Params!ColorSpaces : w.csc = Params!CscOfFormat(w.format, target, space)
    /\ \A i \in 1 .. 3 : w.csc.inputBias[i] \in 0 .. 255

BufferKnown(w, l) == BufferTyped(w, l) /\ ResizeKept(w, l) /\ CscKept(w, l)
BufferInv == BufferKnown(buffer, late)
ParasInv == ObjectsInv /\ BufferInv

LEMMA HalfBound == Params!HalfMax \in Int /\ Params!HalfMax >= 1
  BY DEF Params!HalfMax

LEMMA HalfRangeHolds == HalfRange \subseteq Int /\ -1 \in HalfRange /\ 0 \in HalfRange
  BY HalfBound DEF HalfRange

LEMMA ClampFits == \A v \in Int : Params!Clamp(v) \in HalfRange /\ Params!Clamp(v) \in Int
  BY HalfBound DEF Params!Clamp, HalfRange

LEMMA FreshKnown ==
  ASSUME NEW n \in Nat
  PROVE  BufferKnown(Params!Fresh(n), Params!NotLate)
<1> DEFINE f == Params!Fresh(n)
<1>1. /\ f.batchNum = n /\ f.src = 0 /\ f.csc = [ok |-> FALSE]
      /\ f.batch = [b \in 0 .. n - 1 |-> [crop |-> -1, scfInput |-> 0, scfOutput |-> -1, padding |-> -1,
                                          minimum |-> 0, varReci |-> 1]]
      /\ f = [batchNum |-> f.batchNum, src |-> f.src, format |-> f.format, csc |-> f.csc, swap |-> f.swap, batch |-> f.batch]
  BY DEF Params!Fresh, Params!Off, Params!Refused
<1> HIDE DEF f
<1>2. BufferTyped(f, Params!NotLate)
  BY <1>1, HalfRangeHolds DEF BufferTyped, BatchesOf, Batch, Params!NotLate
<1>3. ResizeKept(f, Params!NotLate) /\ CscKept(f, Params!NotLate)
  BY <1>1 DEF ResizeKept, CscKept, BatchesOf, Params!Off
<1> QED BY <1>2, <1>3 DEF BufferKnown, f

LEMMA ImageKnown ==
  ASSUME NEW found
  PROVE  BufferKnown([Params!Fresh(1) EXCEPT !.format = found, !.src = 2, !.batch[0] = Params!UpdateCropPara(@, 1)],
                     Params!NotLate)
<1> DEFINE f == Params!Fresh(1)
           w == [f EXCEPT !.format = found, !.src = 2, !.batch[0] = Params!UpdateCropPara(@, 1)]
           cropped == Params!UpdateCropPara(f.batch[0], 1)
<1>1. /\ f.csc = [ok |-> FALSE] /\ f.batchNum = 1
      /\ f = [batchNum |-> f.batchNum, src |-> f.src, format |-> f.format, csc |-> f.csc, swap |-> f.swap, batch |-> f.batch]
      /\ f.batch \in [{0} -> Batch] /\ f.batch[0].scfOutput = -1
  <2>1. /\ f.batch = [b \in 0 .. 0 |-> [crop |-> -1, scfInput |-> 0, scfOutput |-> -1, padding |-> -1, minimum |-> 0, varReci |-> 1]]
        /\ f.csc = [ok |-> FALSE] /\ f.batchNum = 1
        /\ f = [batchNum |-> f.batchNum, src |-> f.src, format |-> f.format, csc |-> f.csc, swap |-> f.swap, batch |-> f.batch]
    BY DEF Params!Fresh, Params!Refused, Params!Off
  <2>2. 0 .. 0 = {0}
    OBVIOUS
  <2> HIDE DEF f
  <2> QED BY <2>1, <2>2, HalfRangeHolds DEF Batch
<1> HIDE DEF f
<1>2. cropped \in Batch /\ cropped.scfOutput = -1
  <2>1. ASSUME NEW o \in Batch, o.scfOutput = -1
        PROVE  Params!UpdateCropPara(o, 1) \in Batch /\ Params!UpdateCropPara(o, 1).scfOutput = -1
    <3>1. Params!UpdateCropPara(o, 1) = [o EXCEPT !.crop = 1]
      <4>1. Params!UpdateCropPara(o, 1) = [[o EXCEPT !.crop = 1] EXCEPT !.scfInput = o.scfInput]
        BY <2>1, Zenon DEF Params!UpdateCropPara, Params!Off
      <4> QED BY <4>1 DEF Batch
    <3> QED BY <2>1, <3>1 DEF Batch
  <2>2. f.batch[0] \in Batch /\ f.batch[0].scfOutput = -1
    BY <1>1
  <2> QED BY <2>1, <2>2
<1> HIDE DEF cropped
<1>3. /\ w.batchNum = 1 /\ w.src = 2 /\ w.csc = [ok |-> FALSE] /\ w.batch = [f.batch EXCEPT ![0] = cropped]
      /\ w = [batchNum |-> w.batchNum, src |-> w.src, format |-> w.format, csc |-> w.csc, swap |-> w.swap, batch |-> w.batch]
  <2>1. w = [[[f EXCEPT !.format = found] EXCEPT !.src = 2] EXCEPT !.batch[0] = cropped]
    BY Zenon DEF cropped
  <2> HIDE DEF w
  <2>2. w = [batchNum |-> 1, src |-> 2, format |-> found, csc |-> [ok |-> FALSE], swap |-> f.swap,
             batch |-> [f.batch EXCEPT ![0] = cropped]]
    BY <1>1, <2>1
  <2> QED BY <2>2
<1> HIDE DEF w
<1>4. w.batch \in [{0} -> Batch] /\ w.batch[0].scfOutput = -1
  BY <1>1, <1>2, <1>3
<1>5. BatchesOf(w) = {0}
  BY <1>3 DEF BatchesOf
<1>6. BufferTyped(w, Params!NotLate)
  BY <1>3, <1>4, <1>5 DEF BufferTyped, Params!NotLate
<1>7. w.csc.ok = FALSE
  BY <1>3
<1>8. ResizeKept(w, Params!NotLate) /\ CscKept(w, Params!NotLate)
  BY <1>4, <1>5, <1>7 DEF ResizeKept, CscKept, Params!Off
<1> QED BY <1>6, <1>8 DEF BufferKnown, w, f

\* A setter of batches changes those batches and nothing else of the buffer: it sets the
\* input of the resize anew, or leaves what a resize is about alone.
LEMMA BatchesKnown ==
  ASSUME BufferInv, NEW bs, NEW l, l \in {late, Params!InTime(bs)}, NEW f, NEW w, w = [buffer EXCEPT !.batch = f],
         DOMAIN f = BatchesOf(buffer),
         f = [b \in DOMAIN f |-> f[b]],
         \A b \in BatchesOf(buffer) \cap bs :
           /\ f[b] \in Batch
           /\ \/ f[b].scfOutput # Params!Off =>
                   f[b].scfInput = IF f[b].crop # Params!Off THEN f[b].crop ELSE buffer.src
              \/ /\ l = late
                 /\ f[b].crop = buffer.batch[b].crop /\ f[b].scfInput = buffer.batch[b].scfInput
                 /\ f[b].scfOutput = buffer.batch[b].scfOutput,
         \A b \in BatchesOf(buffer) \ bs : f[b] = buffer.batch[b]
  PROVE  BufferKnown(w, l)
<1>1. f \in [BatchesOf(buffer) -> Batch]
  BY DEF BufferInv, BufferKnown, BufferTyped
<1>2. /\ w = [batchNum |-> buffer.batchNum, src |-> buffer.src, format |-> buffer.format, csc |-> buffer.csc,
              swap |-> buffer.swap, batch |-> f]
      /\ l = [resize |-> l.resize, csc |-> late.csc] /\ l.csc = late.csc
      /\ BatchesOf(w) = BatchesOf(buffer)
  BY DEF BufferInv, BufferKnown, BufferTyped, Params!InTime, BatchesOf
<1>3. BufferTyped(w, l)
  BY <1>1, <1>2 DEF BufferInv, BufferKnown, BufferTyped
<1>4. ResizeKept(w, l)
  <2> SUFFICES ASSUME NEW b \in BatchesOf(buffer), f[b].scfOutput # Params!Off, b \notin l.resize
               PROVE  f[b].scfInput = IF f[b].crop # Params!Off THEN f[b].crop ELSE buffer.src
    BY <1>2 DEF ResizeKept
  <2>1. CASE b \in bs
    BY <2>1 DEF BufferInv, BufferKnown, ResizeKept
  <2>2. CASE b \notin bs
    <3>1. b \notin late.resize
      BY <2>2 DEF Params!InTime, BufferInv, BufferKnown, BufferTyped
    <3> QED BY <2>2, <3>1 DEF BufferInv, BufferKnown, ResizeKept
  <2> QED BY <2>1, <2>2
<1>5. CscKept(w, l)
  BY <1>2 DEF BufferInv, BufferKnown, CscKept
<1> QED BY <1>3, <1>4, <1>5 DEF BufferKnown

LEMMA CropKnown ==
  ASSUME BufferInv, NEW bs, NEW size \in Params!CropSizes, Params!SetCropPara(bs, size)
  PROVE  BufferInv'
<1> DEFINE f == [b \in BatchesOf(buffer) |-> IF b \in bs THEN Params!UpdateCropPara(buffer.batch[b], size) ELSE buffer.batch[b]]
<1>1. buffer' = [buffer EXCEPT !.batch = f] /\ late' = Params!InTime(bs)
  BY DEF Params!SetCropPara, Params!Sets, Params!SetAippFuncPara, Params!Batches, BatchesOf
<1>2. ASSUME NEW b \in BatchesOf(buffer) \cap bs
      PROVE  /\ f[b] \in Batch
             /\ f[b].scfOutput # Params!Off => f[b].scfInput = IF f[b].crop # Params!Off THEN f[b].crop ELSE buffer.src
  <2> DEFINE o == buffer.batch[b]
  <2>1. o \in Batch
    BY DEF BufferInv, BufferKnown, BufferTyped
  <2>2. f[b] = [[o EXCEPT !.crop = size] EXCEPT !.scfInput = IF o.scfOutput # Params!Off THEN size ELSE o.scfInput]
    <3>1. f[b] = Params!UpdateCropPara(o, size)
      OBVIOUS
    <3> QED BY <3>1, Zenon DEF Params!UpdateCropPara
  <2>3. size \in Int /\ size # Params!Off
    BY DEF Params!CropSizes, Params!Off
  <2> HIDE DEF f, o
  <2> QED BY <2>1, <2>2, <2>3 DEF Batch
<1>3. \A b \in BatchesOf(buffer) \ bs : f[b] = buffer.batch[b]
  OBVIOUS
<1>4. DOMAIN f = BatchesOf(buffer) /\ f = [b \in DOMAIN f |-> f[b]]
  OBVIOUS
<1> HIDE DEF f
<1>5. BufferKnown(buffer', late')
  BY <1>1, <1>2, <1>3, <1>4, BatchesKnown
<1> QED BY <1>5 DEF BufferInv

LEMMA ResizeKnown ==
  ASSUME BufferInv, NEW bs, NEW size \in {1}, Params!SetResizePara(bs, size)
  PROVE  BufferInv'
<1> DEFINE f == [b \in BatchesOf(buffer) |-> IF b \in bs THEN Params!UpdateResizePara(buffer.batch[b], size) ELSE buffer.batch[b]]
<1>1. buffer' = [buffer EXCEPT !.batch = f] /\ late' = Params!InTime(bs)
  BY DEF Params!SetResizePara, Params!Sets, Params!SetAippFuncPara, Params!Batches, BatchesOf
<1>2. ASSUME NEW b \in BatchesOf(buffer) \cap bs
      PROVE  /\ f[b] \in Batch
             /\ f[b].scfOutput # Params!Off => f[b].scfInput = IF f[b].crop # Params!Off THEN f[b].crop ELSE buffer.src
  <2> DEFINE o == buffer.batch[b]
  <2>1. o \in Batch
    BY DEF BufferInv, BufferKnown, BufferTyped
  <2>2. f[b] = [[o EXCEPT !.scfInput = IF o.crop # Params!Off THEN o.crop ELSE buffer.src] EXCEPT !.scfOutput = size]
    <3>1. f[b] = Params!UpdateResizePara(o, size)
      OBVIOUS
    <3> QED BY <3>1, Zenon DEF Params!UpdateResizePara
  <2>3. size \in Int /\ buffer.src \in Int
    BY DEF BufferInv, BufferKnown, BufferTyped
  <2> HIDE DEF f, o
  <2>4. f[b] \in Batch
    BY <2>1, <2>2, <2>3 DEF Batch
  <2>5. f[b].scfOutput # Params!Off => f[b].scfInput = IF f[b].crop # Params!Off THEN f[b].crop ELSE buffer.src
    BY <2>1, <2>2, <2>3 DEF Batch
  <2> QED BY <2>4, <2>5 DEF o
<1>3. \A b \in BatchesOf(buffer) \ bs : f[b] = buffer.batch[b]
  OBVIOUS
<1>4. DOMAIN f = BatchesOf(buffer) /\ f = [b \in DOMAIN f |-> f[b]]
  OBVIOUS
<1> HIDE DEF f
<1>5. BufferKnown(buffer', late')
  BY <1>1, <1>2, <1>3, <1>4, BatchesKnown
<1> QED BY <1>5 DEF BufferInv

LEMMA PaddingKnown ==
  ASSUME BufferInv, NEW bs, NEW v \in Params!Values, Params!SetPaddingPara(bs, v)
  PROVE  BufferInv'
<1> DEFINE f == [b \in BatchesOf(buffer) |-> IF b \in bs THEN Params!UpdatePaddingPara(buffer.batch[b], v) ELSE buffer.batch[b]]
<1>1. buffer' = [buffer EXCEPT !.batch = f] /\ late' = late
  BY DEF Params!SetPaddingPara, Params!Sets, Params!SetAippFuncPara, Params!Batches, BatchesOf
<1>2. ASSUME NEW b \in BatchesOf(buffer) \cap bs
      PROVE  /\ f[b] \in Batch
             /\ f[b].crop = buffer.batch[b].crop /\ f[b].scfInput = buffer.batch[b].scfInput /\ f[b].scfOutput = buffer.batch[b].scfOutput
  <2> DEFINE o == buffer.batch[b]
  <2>1. o \in Batch
    BY DEF BufferInv, BufferKnown, BufferTyped
  <2>2. f[b] = [o EXCEPT !.padding = Params!Clamp(v)]
    <3>1. f[b] = Params!UpdatePaddingPara(o, v)
      OBVIOUS
    <3> QED BY <3>1, Zenon DEF Params!UpdatePaddingPara
  <2>3. Params!Clamp(v) \in HalfRange /\ Params!Clamp(v) \in Int
    BY ClampFits DEF Params!Values
  <2> HIDE DEF f, o
  <2>4. f[b] \in Batch
    BY <2>1, <2>2, <2>3 DEF Batch
  <2>5. f[b].crop = o.crop /\ f[b].scfInput = o.scfInput /\ f[b].scfOutput = o.scfOutput
    BY <2>1, <2>2, <2>3 DEF Batch
  <2> QED BY <2>4, <2>5 DEF o
<1>3. \A b \in BatchesOf(buffer) \ bs : f[b] = buffer.batch[b]
  OBVIOUS
<1>4. DOMAIN f = BatchesOf(buffer) /\ f = [b \in DOMAIN f |-> f[b]]
  OBVIOUS
<1> HIDE DEF f
<1>5. BufferKnown(buffer', late')
  BY <1>1, <1>2, <1>3, <1>4, BatchesKnown
<1> QED BY <1>5 DEF BufferInv

LEMMA DtcKnown ==
  ASSUME BufferInv, NEW bs, NEW v \in Params!Values, Params!SetDtcPara(bs, v)
  PROVE  BufferInv'
<1> DEFINE f == [b \in BatchesOf(buffer) |-> IF b \in bs THEN Params!UpdateDtcPara(buffer.batch[b], v) ELSE buffer.batch[b]]
<1>1. buffer' = [buffer EXCEPT !.batch = f] /\ late' = late
  BY DEF Params!SetDtcPara, Params!Sets, Params!SetAippFuncPara, Params!Batches, BatchesOf
<1>2. ASSUME NEW b \in BatchesOf(buffer) \cap bs
      PROVE  /\ f[b] \in Batch
             /\ f[b].crop = buffer.batch[b].crop /\ f[b].scfInput = buffer.batch[b].scfInput /\ f[b].scfOutput = buffer.batch[b].scfOutput
  <2> DEFINE o == buffer.batch[b]
  <2>1. o \in Batch
    BY DEF BufferInv, BufferKnown, BufferTyped
  <2>2. f[b] = [[o EXCEPT !.minimum = Params!Clamp(v)] EXCEPT !.varReci = Params!Clamp(v)]
    <3>1. f[b] = Params!UpdateDtcPara(o, v)
      OBVIOUS
    <3> QED BY <3>1, Zenon DEF Params!UpdateDtcPara
  <2>3. Params!Clamp(v) \in HalfRange /\ Params!Clamp(v) \in Int
    BY ClampFits DEF Params!Values
  <2> HIDE DEF f, o
  <2>4. f[b] \in Batch
    BY <2>1, <2>2, <2>3 DEF Batch
  <2>5. f[b].crop = o.crop /\ f[b].scfInput = o.scfInput /\ f[b].scfOutput = o.scfOutput
    BY <2>1, <2>2, <2>3 DEF Batch
  <2> QED BY <2>4, <2>5 DEF o
<1>3. \A b \in BatchesOf(buffer) \ bs : f[b] = buffer.batch[b]
  OBVIOUS
<1>4. DOMAIN f = BatchesOf(buffer) /\ f = [b \in DOMAIN f |-> f[b]]
  OBVIOUS
<1> HIDE DEF f
<1>5. BufferKnown(buffer', late')
  BY <1>1, <1>2, <1>3, <1>4, BatchesKnown
<1> QED BY <1>5 DEF BufferInv

LEMMA ShapeKnown ==
  ASSUME BufferInv, NEW size \in Params!CropSizes, Params!SetInputShape(size)
  PROVE  BufferInv'
<1> DEFINE behind == {b \in BatchesOf(buffer) : buffer.batch[b].scfOutput # Params!Off /\ buffer.batch[b].crop = Params!Off}
<1>1. buffer' = [buffer EXCEPT !.src = size] /\ late' = [late EXCEPT !.resize = @ \cup behind]
  BY DEF Params!SetInputShape, Params!Sets, Params!Batches, BatchesOf
<1>2. \A b \in BatchesOf(buffer) : buffer.batch[b].scfOutput # Params!Off /\ b \notin behind => buffer.batch[b].crop # Params!Off
  OBVIOUS
<1> HIDE DEF behind
<1>3. size \in Int
  BY DEF Params!CropSizes
<1>4. /\ buffer' = [batchNum |-> buffer.batchNum, src |-> size, format |-> buffer.format, csc |-> buffer.csc,
                    swap |-> buffer.swap, batch |-> buffer.batch]
      /\ late' = [resize |-> late.resize \cup behind, csc |-> late.csc]
  BY <1>1 DEF BufferInv, BufferKnown, BufferTyped
<1>5. BufferTyped(buffer', late') /\ CscKept(buffer', late')
  BY <1>3, <1>4 DEF BufferInv, BufferKnown, BufferTyped, CscKept, BatchesOf
<1>6. ResizeKept(buffer', late')
  BY <1>2, <1>4 DEF BufferInv, BufferKnown, ResizeKept, BatchesOf
<1> QED BY <1>5, <1>6 DEF BufferInv, BufferKnown

\* A setter that leaves the batches, the image and the resizes alone.
LEMMA RestKnown ==
  ASSUME BufferInv, NEW w, NEW l,
         w = [batchNum |-> buffer.batchNum, src |-> buffer.src, format |-> w.format, csc |-> w.csc,
              swap |-> w.swap, batch |-> buffer.batch],
         l = [resize |-> late.resize, csc |-> l.csc], CscKept(w, l)
  PROVE  BufferKnown(w, l)
<1>1. w.batchNum = buffer.batchNum /\ w.src = buffer.src /\ w.batch = buffer.batch /\ l.resize = late.resize
  OBVIOUS
<1>2. BufferTyped(w, l)
  BY <1>1 DEF BufferInv, BufferKnown, BufferTyped, BatchesOf
<1>3. ResizeKept(w, l)
  BY <1>1 DEF BufferInv, BufferKnown, ResizeKept, BatchesOf
<1> QED BY <1>2, <1>3 DEF BufferKnown

LEMMA FormatKnown ==
  ASSUME BufferInv, NEW format, Params!SetInputFormat(format)
  PROVE  BufferInv'
<1>1. /\ buffer' = [buffer EXCEPT !.format = format]
      /\ late' = [late EXCEPT !.csc = buffer.csc.ok /\ (@ \/ format # buffer.format)]
  BY DEF Params!SetInputFormat, Params!Sets
<1>2. /\ buffer' = [batchNum |-> buffer.batchNum, src |-> buffer.src, format |-> format, csc |-> buffer.csc,
                    swap |-> buffer.swap, batch |-> buffer.batch]
      /\ late' = [resize |-> late.resize, csc |-> buffer.csc.ok /\ (late.csc \/ format # buffer.format)]
  BY <1>1, Zenon DEF BufferInv, BufferKnown, BufferTyped
<1>3. /\ buffer'.csc = buffer.csc /\ buffer'.format = format
      /\ late'.csc = (buffer.csc.ok /\ (late.csc \/ format # buffer.format))
  BY <1>2
<1>4. CscKept(buffer', late')
  BY <1>3, Zenon DEF BufferInv, BufferKnown, CscKept
<1> QED BY <1>2, <1>4, RestKnown DEF BufferInv

LEMMA SwapKnown ==
  ASSUME BufferInv, Params!SetChannelSwapPara(TRUE)
  PROVE  BufferInv'
<1>1. /\ buffer' = [batchNum |-> buffer.batchNum, src |-> buffer.src, format |-> buffer.format, csc |-> buffer.csc,
                    swap |-> TRUE, batch |-> buffer.batch]
      /\ late' = [resize |-> late.resize, csc |-> late.csc]
  BY DEF Params!SetChannelSwapPara, Params!Sets, BufferInv, BufferKnown, BufferTyped
<1>2. CscKept(buffer', late')
  BY <1>1 DEF BufferInv, BufferKnown, CscKept
<1> QED BY <1>1, <1>2, RestKnown DEF BufferInv

\* The biases of every conversion are bytes.
LEMMA CscBytes ==
  ASSUME NEW format, NEW target, NEW space, Params!CscOfFormat(format, target, space).ok
  PROVE  \A i \in 1 .. 3 : Params!CscOfFormat(format, target, space).inputBias[i] \in 0 .. 255
<1>1. PICK c : c = Params!CscOfFormat(format, target, space)
  OBVIOUS
<1>2. /\ Params!Refused.ok = FALSE
      /\ \A m, i, o : Params!Csc(m, i, o).inputBias = i
      /\ Params!Zero3 = <<0, 0, 0>>
  BY DEF Params!Refused, Params!Csc, Params!Zero3
<1>3. \A i \in 1 .. 3 : Params!Zero3[i] \in 0 .. 255 /\ Params!Bias(space)[i] \in 0 .. 255
  BY DEF Params!Bias, Params!Zero3
<1>4. c.inputBias \in {Params!Zero3, Params!Bias(space)}
  <2>1. CASE target \in {"RGB888", "BGR888"}
    <3>1. c = Params!Refused \/ c = Params!InitCscMatrixToRGB(format, target, space)
      BY <1>1, <2>1 DEF Params!CscOfFormat, Params!Targets
    <3> QED BY <1>1, <1>2, <3>1 DEF Params!InitCscMatrixToRGB
  <2>2. CASE target \in {"YUV444SP", "YVU444SP"}
    <3>1. c = Params!Refused \/ c = Params!InitCscMatrixToYUV(format, target, space)
      BY <1>1, <2>2 DEF Params!CscOfFormat, Params!Targets
    <3> QED BY <1>1, <1>2, <3>1 DEF Params!InitCscMatrixToYUV
  <2>3. CASE target \notin {"RGB888", "BGR888", "YUV444SP", "YVU444SP"}
    <3>1. c = Params!Refused \/ c = Params!InitCscMatrixToGray(format)
      BY <1>1, <2>3 DEF Params!CscOfFormat, Params!Targets
    <3>2. Params!InitCscMatrixToGray(format) = Params!Refused \/ Params!InitCscMatrixToGray(format).inputBias = Params!Zero3
      BY <1>2 DEF Params!InitCscMatrixToGray
    <3> QED BY <1>1, <1>2, <3>1, <3>2
  <2> QED BY <2>1, <2>2, <2>3
<1> QED BY <1>1, <1>3, <1>4

LEMMA CscFormatKnown ==
  ASSUME BufferInv, NEW target \in {"RGB888", "YUV444SP"}, Params!SetCscFormat(target, "JPEG")
  PROVE  BufferInv'
<1> DEFINE c == Params!CscOfFormat(buffer.format, target, "JPEG")
<1>1. c.ok /\ buffer' = [buffer EXCEPT !.csc = c] /\ late' = [late EXCEPT !.csc = FALSE]
  BY DEF Params!SetCscFormat, Params!Sets
<1>2. \A i \in 1 .. 3 : c.inputBias[i] \in 0 .. 255
  BY <1>1, CscBytes
<1>3. target \in Params!Targets /\ "JPEG" \in Params!ColorSpaces
  BY DEF Params!Targets, Params!ColorSpaces
<1>4. \E t \in Params!Targets, s \in Params!ColorSpaces : c = Params!CscOfFormat(buffer.format, t, s)
  BY <1>3
<1> HIDE DEF c
<1>5. /\ buffer' = [batchNum |-> buffer.batchNum, src |-> buffer.src, format |-> buffer.format, csc |-> c,
                    swap |-> buffer.swap, batch |-> buffer.batch]
      /\ late' = [resize |-> late.resize, csc |-> FALSE]
  BY <1>1 DEF BufferInv, BufferKnown, BufferTyped
<1>6. buffer'.csc = c /\ buffer'.format = buffer.format /\ late'.csc = FALSE
  BY <1>5
<1>7. CscKept(buffer', late')
  BY <1>2, <1>4, <1>6 DEF CscKept
<1> QED BY <1>5, <1>7, RestKnown DEF BufferInv

LEMMA CscMatrixKnown ==
  ASSUME BufferInv, NEW m \in Params!Matrices, Params!SetCscMatrix(m)
  PROVE  BufferInv'
<1> DEFINE c == [m EXCEPT !.inputBias = Params!Bytes(@), !.outputBias = Params!Bytes(@)]
<1>1. buffer' = [buffer EXCEPT !.csc = c] /\ late' = [late EXCEPT !.csc = TRUE]
  BY DEF Params!SetCscMatrix, Params!Sets
<1>2. \A i \in 1 .. 3 : c.inputBias[i] \in 0 .. 255
  <2>1. m = [ok |-> TRUE, matrix |-> m.matrix, inputBias |-> <<-16, 0, 300>>, outputBias |-> m.outputBias]
    BY DEF Params!Matrices, Params!Csc
  <2>2. c = [[m EXCEPT !.inputBias = Params!Bytes(m.inputBias)] EXCEPT !.outputBias = Params!Bytes(m.outputBias)]
    BY Zenon
  <2> HIDE DEF c
  <2>3. c.inputBias = Params!Bytes(<<-16, 0, 300>>)
    BY <2>1, <2>2
  <2>4. ASSUME NEW i \in 1 .. 3 PROVE Params!Bytes(<<-16, 0, 300>>)[i] \in 0 .. 255
    BY DEF Params!Bytes
  <2> QED BY <2>3, <2>4
<1> HIDE DEF c
<1>3. /\ buffer' = [batchNum |-> buffer.batchNum, src |-> buffer.src, format |-> buffer.format, csc |-> c,
                    swap |-> buffer.swap, batch |-> buffer.batch]
      /\ late' = [resize |-> late.resize, csc |-> TRUE]
  BY <1>1 DEF BufferInv, BufferKnown, BufferTyped
<1>4. buffer'.csc = c /\ late'.csc = TRUE
  BY <1>3
<1>5. CscKept(buffer', late')
  BY <1>2, <1>4 DEF CscKept
<1> QED BY <1>3, <1>5, RestKnown DEF BufferInv

LEMMA ObjectsSame == ObjectsInv /\ UNCHANGED <<npu, table, handles, base, undefined>> => ObjectsInv'
  BY DEF ObjectsInv, TableKnown, ObjectsKnown, Params!HandlesServed, Params!Free, Params!NoBase, Params!Reaches,
         Params!GetTensorAippFunctionDef, Params!GetTensorAippFunctionDef_Local, Params!GetTensorAippFunctionDef_Legacy,
         Params!Filled

LEMMA BufferSame == BufferInv /\ UNCHANGED <<buffer, late>> => BufferInv'
  BY DEF BufferInv

LEMMA SettersKeep == ParasInv /\ Params!Setters => ParasInv'
<1> SUFFICES ASSUME ParasInv, Params!Setters PROVE ParasInv'
  OBVIOUS
<1>1. UNCHANGED <<npu, table, handles, base, undefined>>
  BY DEF Params!Setters, Params!Sets, Params!SetCropPara, Params!SetResizePara, Params!SetPaddingPara, Params!SetDtcPara,
         Params!SetInputShape, Params!SetInputFormat, Params!SetCscFormat, Params!SetCscMatrix, Params!SetChannelSwapPara
<1>2. BufferInv'
  <2> USE DEF ParasInv
  <2>1. CASE \E bs \in Params!BatchSets : \E size \in Params!CropSizes : Params!SetCropPara(bs, size)
    BY <2>1, CropKnown
  <2>2. CASE \E bs \in Params!BatchSets : Params!SetResizePara(bs, 1)
    BY <2>2, ResizeKnown
  <2>3. CASE \E bs \in Params!BatchSets : \E v \in Params!Values : Params!SetPaddingPara(bs, v)
    BY <2>3, PaddingKnown
  <2>4. CASE \E bs \in Params!BatchSets : \E v \in Params!Values : Params!SetDtcPara(bs, v)
    BY <2>4, DtcKnown
  <2>5. CASE \E size \in Params!CropSizes : Params!SetInputShape(size)
    BY <2>5, ShapeKnown
  <2>6. CASE \E format \in {"YUYV", "RGB888"} : Params!SetInputFormat(format)
    BY <2>6, FormatKnown
  <2>7. CASE \E target \in {"RGB888", "YUV444SP"} : Params!SetCscFormat(target, "JPEG")
    BY <2>7, CscFormatKnown
  <2>8. CASE \E m \in Params!Matrices : Params!SetCscMatrix(m)
    BY <2>8, CscMatrixKnown
  <2>9. CASE Params!SetChannelSwapPara(TRUE)
    BY <2>9, SwapKnown
  <2> QED BY <2>1, <2>2, <2>3, <2>4, <2>5, <2>6, <2>7, <2>8, <2>9 DEF Params!Setters
<1> QED BY <1>1, <1>2, ObjectsSame DEF ParasInv

LEMMA TakeKnown ==
  ASSUME NEW h, NEW filled, Params!Take(h, filled), BufferKnown(filled, Params!NotLate)
  PROVE  BufferInv'
  BY DEF Params!Take, BufferInv

\* An application's object made of a new C object keeps what is known, given a known buffer.
LEMMA CreateKeeps ==
  ASSUME ParasInv, ~undefined, NEW h \in Paras, NEW n \in Int, NEW filled, BufferKnown(filled, Params!NotLate),
         Params!CreateAIPPPara(h, n, filled)
  PROVE  ParasInv'
<1>1. PICK c \in Params!Create(n) :
        /\ table' = c.table
        /\ IF c.by # "none" /\ Params!CheckBatchNum(n)
           THEN handles' = [handles EXCEPT ![h] = Params!Made(c.by)] /\ Params!Take(h, filled)
           ELSE UNCHANGED <<handles, base, buffer, late>>
  BY DEF Params!CreateAIPPPara
<1>2. ObjectsInv'
  <2>1. handles[h] = Params!Free /\ UNCHANGED <<npu, undefined>>
    BY DEF Params!CreateAIPPPara
  <2>2. \/ handles' = [handles EXCEPT ![h] = Params!Made(c.by)] /\ c.by # "none" /\ base' = h
        \/ UNCHANGED <<handles, base>>
    BY <1>1 DEF Params!Take
  <2> QED BY <1>1, <2>1, <2>2, MadeKept DEF ParasInv
<1>3. BufferInv'
  BY <1>1, TakeKnown, BufferSame DEF ParasInv
<1> QED BY <1>2, <1>3 DEF ParasInv

LEMMA ObjectsKeep == ParasInv /\ ~undefined /\ Params!Objects => ParasInv'
<1> SUFFICES ASSUME ParasInv, ~undefined, Params!Objects PROVE ParasInv'
  OBVIOUS
<1> USE DEF ParasInv
<1>0. \A h \in Paras : handles[h] # Params!Free => handles[h].by # "none"
  BY DEF ObjectsInv, ObjectsKnown
<1>1. ASSUME NEW h \in Paras, NEW n \in Int, Params!TensorAippPara_Create(h, n) PROVE ParasInv'
  <2>1. PICK c \in Params!Create(n) : table' = c.table /\ handles' = [handles EXCEPT ![h] = Params!Made(c.by)]
    BY <1>1 DEF Params!TensorAippPara_Create
  <2>2. handles[h] = Params!Free /\ UNCHANGED <<npu, base, buffer, late, undefined>>
    BY <1>1 DEF Params!TensorAippPara_Create
  <2>3. \/ handles' = [handles EXCEPT ![h] = Params!Made(c.by)] /\ (base' = base \/ (c.by # "none" /\ base' = h))
        \/ UNCHANGED <<handles, base>>
    BY <2>1, <2>2
  <2>4. ObjectsInv'
    BY <2>1, <2>2, <2>3, MadeKept
  <2>5. BufferInv'
    BY <2>2, BufferSame
  <2> QED BY <2>4, <2>5
<1>2. ASSUME NEW h \in Paras, Params!TensorAippPara_Destroy(h) PROVE ParasInv'
  <2>1. CASE Params!Misdirected(h)
    BY <1>0, <1>2, <2>1, MisdirectedKept, BufferSame DEF Params!TensorAippPara_Destroy, Params!Misdirected
  <2>2. CASE ~Params!Misdirected(h)
    BY <1>0, <1>2, <2>2, ServedKept, BufferSame DEF Params!TensorAippPara_Destroy
  <2> QED BY <2>1, <2>2
<1>3. ASSUME NEW h \in Paras, NEW which \in {"input", "aipp"}, Params!SetIndex(h, which, 1) PROVE ParasInv'
  <2>1. CASE Params!Misdirected(h)
    BY <1>0, <1>3, <2>1, MisdirectedKept, BufferSame DEF Params!SetIndex, Params!Misdirected
  <2>2. CASE ~Params!Misdirected(h)
    BY <1>0, <1>3, <2>2, ServedKept, BufferSame DEF Params!SetIndex
  <2> QED BY <2>1, <2>2
<1>4. ASSUME NEW h \in Paras, NEW n \in 0 .. MaxBatch + 1, Params!InitBatches(h, n) PROVE ParasInv'
  BY <1>4, BatchAssumption, FreshKnown, CreateKeeps DEF Params!InitBatches
<1>5. ASSUME NEW h \in Paras, NEW n \in 0 .. MaxBatch + 1, Params!InitParaBuff(h, n) PROVE ParasInv'
  <2>1. /\ base' = h /\ base = Params!NoBase /\ handles[h].by # "none"
        /\ UNCHANGED <<npu, table, handles, undefined>>
    BY <1>0, <1>5 DEF Params!InitParaBuff, Params!Take
  <2>2. ObjectsInv'
    BY <2>1 DEF ObjectsInv, TableKnown, ObjectsKnown, Params!HandlesServed, Params!Free, Params!NoBase, Params!Reaches,
         Params!GetTensorAippFunctionDef, Params!GetTensorAippFunctionDef_Local, Params!GetTensorAippFunctionDef_Legacy,
         Params!Filled
  <2>3. BufferInv'
    BY <1>5, BatchAssumption, FreshKnown, TakeKnown DEF Params!InitParaBuff
  <2> QED BY <2>2, <2>3
<1>6. ASSUME NEW h \in Paras, NEW given, NEW found, Params!CreateAiPPTensorFromHandle(h, given, found, 2, 1) PROVE ParasInv'
  <2> DEFINE image == [Params!Fresh(1) EXCEPT !.format = found, !.src = 2, !.batch[0] = Params!UpdateCropPara(@, 1)]
  <2>1. Params!CreateAIPPPara(h, 1, image)
    BY <1>6, Zenon DEF Params!CreateAiPPTensorFromHandle
  <2>2. BufferKnown(image, Params!NotLate)
    BY ImageKnown, Zenon
  <2> HIDE DEF image
  <2> QED BY <2>1, <2>2, CreateKeeps
<1>7. ASSUME Params!Release PROVE ParasInv'
  <2>1. base # Params!NoBase /\ base \in Paras /\ handles[base].by # "none"
    BY <1>7 DEF Params!Release, ObjectsInv, ObjectsKnown
  <2>2. CASE Params!Misdirected(base)
    BY <2>1, <2>2, MisdirectedKept, BufferSame DEF Params!Misdirected
  <2>3. CASE ~Params!Misdirected(base)
    <3>1. /\ handles' = [handles EXCEPT ![base] = Params!Free] /\ Params!Take(Params!NoBase, Params!Fresh(0))
          /\ UNCHANGED <<npu, table, undefined>>
      BY <1>7, <2>3 DEF Params!Release, Params!NoBuffer
    <3>2. base' = Params!NoBase
      BY <3>1 DEF Params!Take
    <3>3. ObjectsInv'
      BY <2>1, <3>1, <3>2, ServedKept
    <3>4. BufferInv'
      BY <3>1, FreshKnown, TakeKnown
    <3> QED BY <3>3, <3>4
  <2> QED BY <2>2, <2>3
<1> QED BY <1>1, <1>2, <1>3, <1>4, <1>5, <1>6, <1>7 DEF Params!Objects, Params!SetInputIndex, Params!SetInputAippIndex

LEMMA ParasInit == Params!Init => ParasInv
  BY ObjectsInit, FreshKnown DEF Params!Init, Params!NoBuffer, ParasInv, BufferInv

LEMMA ParasNext == ParasInv /\ Params!Next => ParasInv'
  BY SettersKeep, ObjectsKeep DEF Params!Next

\* What the getters answer follows.
LEMMA ParasSound == ParasInv => Params!ParaSound
<1> SUFFICES ASSUME ParasInv PROVE Params!ParaSound
  OBVIOUS
<1>1. Params!Batches = BatchesOf(buffer)
  BY DEF Params!Batches, BatchesOf
<1>2. Params!ResizeInputCurrent
  BY <1>1 DEF ParasInv, BufferInv, BufferKnown, ResizeKept, Params!ResizeInputCurrent, Params!GetEnableResize,
     Params!GetEnableCrop, Params!GetCropPara, Params!GetInputShape, Params!CheckBatchIndex
<1>3. Params!CscCurrent
  BY DEF ParasInv, BufferInv, BufferKnown, CscKept, Params!CscCurrent, Params!GetEnableCsc, Params!GetCscPara,
     Params!GetInputFormat
<1>4. Params!ValuesFit
  <2> SUFFICES ASSUME NEW b \in 0 .. Params!GetBatchCount - 1
               PROVE  Params!GetPaddingPara(b) \in HalfRange /\ Params!GetDtcPara(b) \in HalfRange
    BY DEF Params!ValuesFit, HalfRange
  <2>1. CASE Params!CheckBatchIndex(b)
    BY <1>1, <2>1, HalfRangeHolds
    DEF ParasInv, BufferInv, BufferKnown, BufferTyped, Batch, Params!GetPaddingPara, Params!GetDtcPara, Params!CheckBatchIndex
  <2>2. CASE ~Params!CheckBatchIndex(b)
    BY <2>2, HalfRangeHolds DEF Params!GetPaddingPara, Params!GetDtcPara
  <2> QED BY <2>1, <2>2
<1> QED BY <1>2, <1>3, <1>4 DEF ParasInv, ObjectsInv, Params!ParaSound

-----------------------------------------------------------------------------
(***************************************************************************)
(* The component as a part of the whole.                                   *)
(***************************************************************************)

\* In every reachable state the AIPP parameters answer what the calls before said: the input of a resize is the
\* crop, or the whole image without one, a conversion of colours is the one of the image's format, every value fits
\* its half and every bias its byte, and no object is given to the library that did not make it, unless the plugin
\* that made others refused one (tensor_aipp_para.cpp, aipp_para.cpp).
THEOREM ParametersAreSound == RecordsSpec => []ParaSound
<1> DEFINE Inv == part = "paras" => ParasInv
<1>1. RecordsInit => Inv
  BY ParasInit DEF RecordsInit
<1>2. Inv /\ [RecordsNext]_recordVars => Inv'
  <2> SUFFICES ASSUME Inv, [RecordsNext]_recordVars, part' = "paras" PROVE ParasInv'
    OBVIOUS
  <2>1. CASE ParasStep
    BY <2>1, ParasNext DEF ParasStep
  <2>2. CASE UNCHANGED recordVars
    BY <2>2, ObjectsSame, BufferSame DEF recordVars, paraVars, ParasInv
  <2> QED BY <2>1, <2>2 DEF RecordsNext, OptionsStep, ModelsStep, GraphsStep, AttrsStep, BuffersStep
<1>3. Inv => ParaSound
  BY ParasSound DEF ParaSound
<1> QED BY <1>1, <1>2, <1>3, PTL DEF RecordsSpec

-----------------------------------------------------------------------------
(***************************************************************************)
(* Attributes.  A wrapper is of the message that is there or of one that   *)
(* is gone; but for a value that was misread, only a list can be gone, and *)
(* what an attribute holds is what was set.                                *)
(***************************************************************************)

AttrCases == Attrs!Basic \cup Attrs!Members \cup {"bytes", "list", "none"}
Wrappable == Attrs!Members \cup {"list"}
DefForm(d) ==
  /\ d = [case |-> d.case, val |-> d.val, type |-> d.type, items |-> d.items, wrapped |-> d.wrapped, gone |-> d.gone]
  /\ d.items = [k \in Attrs!ListKinds |-> d.items[k]]
  /\ d.case \in AttrCases /\ d.type \in Attrs!ListKinds \cup {"none"}
  /\ d.wrapped \subseteq Wrappable
SaidForm(s) == s = [kind |-> s.kind, v |-> s.v] /\ s.kind \in Attrs!Kinds \cup {"none"}

\* Every wrapper is of the member that is there, or gone with its message.
Wrappers(d) == d.wrapped \subseteq d.gone \cup {d.case} /\ d.case \notin d.gone
AttrKnown(d) == DefForm(d) /\ Wrappers(d) /\ d.gone \subseteq {"list"} /\ (d.case = "none" => d.gone = {})

\* What is held is what was said, and a list has a type.
Faithful(d, s) ==
  /\ d.case = "list" => d.type # "none"
  /\ Attrs!GetValueType(d) = s.kind
  /\ s.kind # "none" => Attrs!Content(d, s.kind) = s.v

HeldInv ==
  /\ DOMAIN attrs \subseteq Names /\ attrs = [n \in DOMAIN attrs |-> attrs[n]]
  /\ \A n \in DOMAIN attrs : AttrKnown(attrs[n])
  /\ said = [n \in Names |-> said[n]]
  /\ \A n \in Names : SaidForm(said[n])
  /\ \A n \in Names \ broken : Faithful(Attrs!Here(n), said[n])
ValueInv ==
  /\ value = [type |-> value.type, def |-> value.def, said |-> value.said, misread |-> value.misread]
  /\ value.misread \in BOOLEAN /\ DefForm(value.def) /\ SaidForm(value.said)
  /\ ~value.misread =>
       Faithful(value.def, value.said) /\ value.type = value.said.kind /\ value.def.gone = {} /\ Wrappers(value.def)
ViewInv == view # "" => view \in DOMAIN attrs /\ attrs[view].case = "tensor" /\ "tensor" \in attrs[view].wrapped
DescInv ==
  /\ attrDesc = [hasOutAttr |-> attrDesc.hasOutAttr, layout |-> attrDesc.layout, dtype |-> attrDesc.dtype,
                 device |-> attrDesc.device, size |-> attrDesc.size, key |-> attrDesc.key,
                 keyWrapper |-> attrDesc.keyWrapper, last |-> attrDesc.last, attrs |-> attrDesc.attrs]
  /\ Attrs!DataTypeKept
AttrsInv == HeldInv /\ ValueInv /\ ViewInv /\ DescInv /\ Attrs!ReadsAnswer /\ Attrs!NothingGoneIsUsed

\* What another case, a wrapper, a new content make of an attribute.
LEMMA SwitchForm ==
  ASSUME NEW d, DefForm(d), NEW case \in AttrCases
  PROVE  LET s == Attrs!Switch(d, case)
         IN /\ DefForm(s) /\ s.case = case /\ s.wrapped = d.wrapped
            /\ s.gone = IF d.case = case THEN d.gone ELSE d.gone \cup ({d.case} \cap d.wrapped)
            /\ d.case = case => s = d
            /\ d.case # case => s.type = "none"
<1>1. CASE d.case = case
  BY <1>1 DEF Attrs!Switch
<1>2. CASE d.case # case
  <2> DEFINE g == d.gone \cup ({d.case} \cap d.wrapped)
  <2>1. Attrs!Switch(d, case) =
          [case |-> case, val |-> <<>>, type |-> "none", items |-> Attrs!NoItems, wrapped |-> d.wrapped, gone |-> g]
    BY <1>2, Zenon DEF Attrs!Switch, Attrs!AttrDef
  <2> HIDE DEF g
  <2>2. Attrs!NoItems = [k \in Attrs!ListKinds |-> Attrs!NoItems[k]]
    BY DEF Attrs!NoItems
  <2>3. g = d.gone \cup ({d.case} \cap d.wrapped)
    BY DEF g
  <2> QED BY <1>2, <2>1, <2>2, <2>3 DEF DefForm
<1> QED BY <1>1, <1>2

LEMMA WrapForm ==
  ASSUME NEW d, DefForm(d), NEW m \in Wrappable
  PROVE  LET w == Attrs!Wrap(d, m)
         IN /\ DefForm(w)
            /\ m \in d.wrapped => w = d
            /\ m \notin d.wrapped =>
                 /\ w.case = m /\ w.wrapped = d.wrapped \cup {m}
                 /\ w.gone = IF d.case = m THEN d.gone ELSE d.gone \cup ({d.case} \cap d.wrapped)
            /\ d.case = m => w.case = m /\ w.val = d.val /\ w.type = d.type /\ w.items = d.items /\ w.gone = d.gone
<1>1. CASE m \in d.wrapped
  BY <1>1 DEF Attrs!Wrap
<1>2. CASE m \notin d.wrapped
  <2> DEFINE s == Attrs!Switch(d, m)
             w == [s EXCEPT !.wrapped = @ \cup {m}]
  <2>1. Attrs!Wrap(d, m) = w
    BY <1>2, Zenon DEF Attrs!Wrap
  <2>2. m \in AttrCases
    BY DEF AttrCases, Wrappable
  <2>3. /\ DefForm(s) /\ s.case = m /\ s.wrapped = d.wrapped /\ (d.case = m => s = d)
        /\ s.gone = IF d.case = m THEN d.gone ELSE d.gone \cup ({d.case} \cap d.wrapped)
    BY <2>2, SwitchForm
  <2> HIDE DEF s
  <2>4. w = [case |-> s.case, val |-> s.val, type |-> s.type, items |-> s.items,
             wrapped |-> s.wrapped \cup {m}, gone |-> s.gone]
    BY <2>3 DEF DefForm
  <2> HIDE DEF w
  <2>5. /\ w.case = s.case /\ w.val = s.val /\ w.type = s.type /\ w.items = s.items
        /\ w.wrapped = s.wrapped \cup {m} /\ w.gone = s.gone
    BY <2>4
  <2>6. DefForm(w)
    BY <2>3, <2>4, <2>5 DEF DefForm
  <2> QED BY <1>2, <2>1, <2>3, <2>5, <2>6
<1> QED BY <1>1, <1>2

\* An attribute with another content, with other items of a kind, with those items and their type.
WithVal(d, v) == [d EXCEPT !.val = v]
WithItems(d, k, v) == [d EXCEPT !.items[k] = v]
WithList(d, k, v) == [d EXCEPT !.items[k] = v, !.type = k]

LEMMA PutForm ==
  ASSUME NEW d, DefForm(d), NEW v
  PROVE  LET p == WithVal(d, v)
         IN /\ DefForm(p) /\ p.val = v
            /\ p.case = d.case /\ p.type = d.type /\ p.items = d.items /\ p.wrapped = d.wrapped /\ p.gone = d.gone
<1> DEFINE p == WithVal(d, v)
<1>1. p = [case |-> d.case, val |-> v, type |-> d.type, items |-> d.items, wrapped |-> d.wrapped, gone |-> d.gone]
  BY DEF DefForm, WithVal
<1> HIDE DEF p
<1>2. /\ p.case = d.case /\ p.val = v /\ p.type = d.type /\ p.items = d.items
      /\ p.wrapped = d.wrapped /\ p.gone = d.gone
  BY <1>1
<1>3. DefForm(p)
  BY <1>1, <1>2 DEF DefForm
<1> QED BY <1>2, <1>3 DEF p

LEMMA PutListForm ==
  ASSUME NEW d, DefForm(d), NEW k \in Attrs!ListKinds, NEW v
  PROVE  LET p == WithItems(d, k, v)
             q == WithList(d, k, v)
         IN /\ DefForm(p) /\ p.case = d.case /\ p.wrapped = d.wrapped /\ p.gone = d.gone
            /\ DefForm(q) /\ q.case = d.case /\ q.wrapped = d.wrapped /\ q.gone = d.gone
            /\ q.type = k /\ q.items[k] = v
<1> DEFINE items == [d.items EXCEPT ![k] = v]
           p == WithItems(d, k, v)
           q == WithList(d, k, v)
<1>0. items = [j \in Attrs!ListKinds |-> items[j]] /\ items[k] = v
  BY DEF DefForm
<1>1. p = [d EXCEPT !.items = items]
  BY Zenon DEF WithItems
<1>2. q = [[d EXCEPT !.items = items] EXCEPT !.type = k]
  BY Zenon DEF WithList
<1> HIDE DEF items, p, q
<1>3. /\ p = [case |-> d.case, val |-> d.val, type |-> d.type, items |-> items, wrapped |-> d.wrapped, gone |-> d.gone]
      /\ q = [case |-> d.case, val |-> d.val, type |-> k, items |-> items, wrapped |-> d.wrapped, gone |-> d.gone]
  BY <1>1, <1>2 DEF DefForm
<1>4. /\ p.case = d.case /\ p.val = d.val /\ p.type = d.type /\ p.items = items
      /\ p.wrapped = d.wrapped /\ p.gone = d.gone
      /\ q.case = d.case /\ q.val = d.val /\ q.type = k /\ q.items = items
      /\ q.wrapped = d.wrapped /\ q.gone = d.gone
  BY <1>3
<1>5. DefForm(p)
  BY <1>0, <1>3, <1>4 DEF DefForm
<1>6. DefForm(q)
  BY <1>0, <1>3, <1>4 DEF DefForm
<1> QED BY <1>0, <1>4, <1>5, <1>6 DEF p, q

\* A wrapper is of what is there or gone, still, when the case changes to a member that is not gone.
LEMMA SwitchKeeps ==
  ASSUME NEW d, DefForm(d), Wrappers(d), NEW case \in AttrCases, case \notin d.gone
  PROVE  Wrappers(Attrs!Switch(d, case))
<1> DEFINE s == Attrs!Switch(d, case)
<1>1. /\ s.case = case /\ s.wrapped = d.wrapped /\ (d.case = case => s = d)
      /\ d.case # case => s.gone = d.gone \cup ({d.case} \cap d.wrapped)
  BY SwitchForm
<1> HIDE DEF s
<1>2. CASE d.case = case
  BY <1>1, <1>2 DEF s
<1>3. CASE d.case # case
  BY <1>1, <1>3 DEF Wrappers, s
<1> QED BY <1>2, <1>3

LEMMA WrapKeeps ==
  ASSUME NEW d, DefForm(d), Wrappers(d), NEW m \in Wrappable, m \notin d.gone
  PROVE  LET w == Attrs!Wrap(d, m)
         IN /\ DefForm(w) /\ Wrappers(w) /\ w.case = m /\ m \in w.wrapped /\ d.wrapped \subseteq w.wrapped
            /\ w.gone = IF d.case = m THEN d.gone ELSE d.gone \cup ({d.case} \cap d.wrapped)
<1> DEFINE w == Attrs!Wrap(d, m)
<1>0. DefForm(w)
  BY WrapForm
<1>1. CASE m \in d.wrapped
  <2>1. w = d /\ d.case = m
    BY <1>1, WrapForm DEF Wrappers
  <2> QED BY <1>0, <1>1, <2>1
<1>2. CASE m \notin d.wrapped
  <2>1. /\ w.case = m /\ w.wrapped = d.wrapped \cup {m}
        /\ w.gone = IF d.case = m THEN d.gone ELSE d.gone \cup ({d.case} \cap d.wrapped)
    BY <1>2, WrapForm
  <2> HIDE DEF w
  <2>2. Wrappers(w)
    <3>1. CASE d.case = m
      BY <2>1, <3>1 DEF Wrappers
    <3>2. CASE d.case # m
      BY <2>1, <3>2 DEF Wrappers
    <3> QED BY <3>1, <3>2
  <2>3. m \in w.wrapped /\ d.wrapped \subseteq w.wrapped
    BY <2>1
  <2> QED BY <1>0, <2>1, <2>2, <2>3 DEF w
<1> QED BY <1>1, <1>2

\* Which setter a value is for.
LEMMA SetOf ==
  ASSUME NEW d, NEW x
  PROVE  /\ x.kind \in Attrs!Basic \cup {"bytes"} => Attrs!Set(d, x) = Attrs!SetBasic(d, x)
         /\ x.kind = "graph" => Attrs!Set(d, x) = Attrs!SetGraph(d, x)
         /\ x.kind \in Attrs!Members \ {"graph"} => Attrs!Set(d, x) = Attrs!SetMember(d, x)
         /\ x.kind = "list_tensor" => Attrs!Set(d, x) = Attrs!SetTensorList(d, x)
         /\ x.kind \in Attrs!ListKinds \ {"list_tensor"} => Attrs!Set(d, x) = Attrs!SetList(d, x)
<1> USE DEF Attrs!Basic, Attrs!Members, Attrs!ListKinds
<1>1. x.kind \in Attrs!Basic \cup {"bytes"} => Attrs!Set(d, x) = Attrs!SetBasic(d, x)
  BY DEF Attrs!Set
<1>2. x.kind = "graph" => Attrs!Set(d, x) = Attrs!SetGraph(d, x)
  BY DEF Attrs!Set
<1>3. x.kind \in Attrs!Members \ {"graph"} => Attrs!Set(d, x) = Attrs!SetMember(d, x)
  BY DEF Attrs!Set
<1>4. x.kind = "list_tensor" => Attrs!Set(d, x) = Attrs!SetTensorList(d, x)
  BY DEF Attrs!Set
<1>5. x.kind \in Attrs!ListKinds \ {"list_tensor"} => Attrs!Set(d, x) = Attrs!SetList(d, x)
  BY DEF Attrs!Set
<1> QED BY <1>1, <1>2, <1>3, <1>4, <1>5

\* What a set leaves: a well-formed attribute whatever it was before, and what was set where no message is gone.
LEMMA SetForm ==
  ASSUME NEW d, DefForm(d), NEW x, x.kind \in Attrs!Kinds
  PROVE  DefForm(Attrs!Set(d, x))
<1> DEFINE list == Attrs!Wrap(d, "list")
           member == Attrs!Wrap(d, x.kind)
           basic == Attrs!Switch(d, x.kind)
<1>1. CASE x.kind \in Attrs!Basic \cup {"bytes"}
  <2>1. DefForm(basic)
    BY <1>1, SwitchForm DEF AttrCases
  <2>2. Attrs!Set(d, x) = WithVal(basic, x.v)
    BY <1>1, SetOf DEF Attrs!SetBasic, WithVal
  <2> QED BY <2>1, <2>2, PutForm
<1>2. CASE x.kind \in Attrs!Members
  <2>1. DefForm(member)
    BY <1>2, WrapForm DEF Wrappable
  <2>2. Attrs!Set(d, x) = WithVal(member, x.v) \/ Attrs!Set(d, x) = member
    BY <1>2, SetOf DEF WithVal, Attrs!SetMember, Attrs!SetGraph
  <2> QED BY <2>1, <2>2, PutForm
<1>3. CASE x.kind \in Attrs!ListKinds
  <2>1. DefForm(list)
    BY WrapForm DEF Wrappable
  <2>2. \/ Attrs!Set(d, x) = WithList(list, x.kind, x.v)
        \/ Attrs!Set(d, x) = WithItems(list, x.kind, Attrs!Accepted(x.v))
    BY <1>3, SetOf DEF WithList, WithItems, Attrs!SetList, Attrs!SetTensorList
  <2> HIDE DEF list
  <2> QED BY <1>3, <2>1, <2>2, PutListForm
<1> QED BY <1>1, <1>2, <1>3 DEF Attrs!Kinds

LEMMA SetKeeps ==
  ASSUME NEW d, DefForm(d), Wrappers(d), NEW x, x.kind \in Attrs!Kinds, ~Attrs!TouchesGone(d, x.kind)
  PROVE  LET s == Attrs!Set(d, x)
         IN /\ Wrappers(s) /\ s.case = Attrs!Member(x.kind)
            /\ s.gone = IF d.case = s.case THEN d.gone ELSE d.gone \cup ({d.case} \cap d.wrapped)
            /\ x.kind \in Attrs!Members => x.kind \in s.wrapped
            /\ ~Attrs!Fails(x) => Faithful(s, x)
<1> DEFINE list == Attrs!Wrap(d, "list")
           member == Attrs!Wrap(d, x.kind)
           basic == Attrs!Switch(d, x.kind)
           s == Attrs!Set(d, x)
<1>1. CASE x.kind \in Attrs!Basic \cup {"bytes"}
  <2>0. x.kind \in AttrCases /\ x.kind \notin d.gone /\ x.kind \notin Attrs!ListKinds /\ x.kind \notin Attrs!Members
        /\ x.kind # "list" /\ Attrs!Member(x.kind) = x.kind
    BY <1>1 DEF AttrCases, Attrs!TouchesGone, Attrs!Member, Attrs!Basic, Attrs!ListKinds, Attrs!Members
  <2>1. /\ DefForm(basic) /\ Wrappers(basic) /\ basic.case = x.kind
        /\ basic.gone = IF d.case = x.kind THEN d.gone ELSE d.gone \cup ({d.case} \cap d.wrapped)
    BY <2>0, SwitchForm, SwitchKeeps
  <2>2. s = WithVal(basic, x.v)
    BY <1>1, SetOf DEF Attrs!SetBasic, WithVal
  <2> HIDE DEF basic, s
  <2>3. s.case = basic.case /\ s.val = x.v /\ s.gone = basic.gone /\ s.wrapped = basic.wrapped
    BY <2>1, <2>2, PutForm
  <2>4. Faithful(s, x)
    BY <2>0, <2>1, <2>3 DEF Faithful, Attrs!GetValueType, Attrs!Content
  <2> QED BY <2>0, <2>1, <2>3, <2>4 DEF Wrappers, s
<1>2. CASE x.kind \in Attrs!Members
  <2>0. x.kind \in Wrappable /\ x.kind \notin d.gone /\ x.kind \notin Attrs!ListKinds
        /\ x.kind # "list" /\ Attrs!Member(x.kind) = x.kind
    BY <1>2 DEF Wrappable, Attrs!TouchesGone, Attrs!Member, Attrs!ListKinds, Attrs!Members
  <2>1. /\ DefForm(member) /\ Wrappers(member) /\ member.case = x.kind /\ x.kind \in member.wrapped
        /\ member.gone = IF d.case = x.kind THEN d.gone ELSE d.gone \cup ({d.case} \cap d.wrapped)
    BY <2>0, WrapKeeps
  <2>2. s = WithVal(member, x.v) \/ (s = member /\ Attrs!Fails(x))
    BY <1>2, SetOf DEF WithVal, Attrs!SetMember, Attrs!SetGraph, Attrs!Fails
  <2> HIDE DEF member, s
  <2>3. CASE s = member /\ Attrs!Fails(x)
    BY <2>0, <2>1, <2>3 DEF s
  <2>4. CASE s = WithVal(member, x.v)
    <3>1. s.case = member.case /\ s.val = x.v /\ s.gone = member.gone /\ s.wrapped = member.wrapped
      BY <2>1, <2>4, PutForm
    <3>2. Faithful(s, x)
      BY <2>0, <2>1, <3>1 DEF Faithful, Attrs!GetValueType, Attrs!Content
    <3> QED BY <2>0, <2>1, <3>1, <3>2 DEF Wrappers, s
  <2> QED BY <2>2, <2>3, <2>4
<1>3. CASE x.kind \in Attrs!ListKinds
  <2>0. "list" \in Wrappable /\ "list" \notin d.gone /\ Attrs!Member(x.kind) = "list" /\ x.kind # "none"
        /\ x.kind \notin Attrs!Members
    BY <1>3 DEF Wrappable, Attrs!TouchesGone, Attrs!Member, Attrs!ListKinds, Attrs!Members
  <2>1. /\ DefForm(list) /\ Wrappers(list) /\ list.case = "list"
        /\ list.gone = IF d.case = "list" THEN d.gone ELSE d.gone \cup ({d.case} \cap d.wrapped)
    BY <2>0, WrapKeeps
  <2>2. \/ s = WithList(list, x.kind, x.v)
        \/ s = WithItems(list, x.kind, Attrs!Accepted(x.v)) /\ Attrs!Fails(x)
    BY <1>3, SetOf DEF WithList, WithItems, Attrs!SetList, Attrs!SetTensorList, Attrs!Fails
  <2> HIDE DEF list, s
  <2>3. CASE s = WithItems(list, x.kind, Attrs!Accepted(x.v)) /\ Attrs!Fails(x)
    <3>1. s.case = "list" /\ s.gone = list.gone /\ s.wrapped = list.wrapped
      BY <1>3, <2>1, <2>3, PutListForm
    <3> QED BY <2>0, <2>1, <2>3, <3>1 DEF Wrappers, s
  <2>4. CASE s = WithList(list, x.kind, x.v)
    <3>1. s.case = "list" /\ s.gone = list.gone /\ s.wrapped = list.wrapped /\ s.type = x.kind /\ s.items[x.kind] = x.v
      BY <1>3, <2>1, <2>4, PutListForm
    <3>2. Faithful(s, x)
      BY <1>3, <2>0, <3>1 DEF Faithful, Attrs!GetValueType, Attrs!Content
    <3> QED BY <2>0, <2>1, <3>1, <3>2 DEF Wrappers, s
  <2> QED BY <2>2, <2>3, <2>4
<1> QED BY <1>1, <1>2, <1>3 DEF Attrs!Kinds

\* What a getter leaves: it may switch the case, but keeps what is there when it looks for that.
LEMMA GetOf ==
  ASSUME NEW d, NEW kind
  PROVE  /\ kind \in Attrs!Basic => Attrs!Get(d, kind) = d
         /\ kind = "bytes" => Attrs!Get(d, kind) = Attrs!Switch(d, "bytes")
         /\ kind = "graph" => Attrs!Get(d, kind) = WithVal(Attrs!Wrap(d, "graph"), <<>>)
         /\ kind \in Attrs!Kinds \ (Attrs!Basic \cup {"bytes", "graph"}) =>
              Attrs!Get(d, kind) = Attrs!Wrap(d, Attrs!Member(kind))
<1>1. kind \in Attrs!Basic => Attrs!Get(d, kind) = d
  BY DEF Attrs!Get, Attrs!Basic
<1>2. kind = "bytes" => Attrs!Get(d, kind) = Attrs!Switch(d, "bytes")
  BY DEF Attrs!Get, Attrs!Basic
<1>3. kind = "graph" => Attrs!Get(d, kind) = Attrs!GetGraph(d)
  BY DEF Attrs!Get, Attrs!Basic
<1>4. kind \in Attrs!Kinds \ (Attrs!Basic \cup {"bytes", "graph"}) =>
        Attrs!Get(d, kind) = Attrs!Wrap(d, Attrs!Member(kind))
  BY DEF Attrs!Get, Attrs!Basic
<1>5. Attrs!GetGraph(d) = WithVal(Attrs!Wrap(d, "graph"), <<>>)
  BY DEF Attrs!GetGraph, WithVal
<1> QED BY <1>1, <1>2, <1>3, <1>4, <1>5

LEMMA MemberOf ==
  ASSUME NEW kind \in Attrs!Kinds
  PROVE  /\ kind \in Attrs!Basic \cup {"bytes"} => kind \in AttrCases /\ Attrs!Member(kind) = kind
         /\ kind \in Attrs!Members => kind \in AttrCases /\ Attrs!Member(kind) = kind
         /\ kind \in Attrs!ListKinds => Attrs!Member(kind) = "list"
         /\ kind \notin Attrs!Basic \cup {"bytes"} => Attrs!Member(kind) \in Wrappable
         /\ kind \notin {"none", "list"} /\ Attrs!Member(kind) \in AttrCases /\ Attrs!Member(kind) # "none"
  BY DEF Attrs!Kinds, Attrs!Member, Attrs!Basic, Attrs!Members, Attrs!ListKinds, AttrCases, Wrappable

LEMMA BytesForm ==
  ASSUME NEW d, DefForm(d)
  PROVE  /\ DefForm(Attrs!Switch(d, "bytes")) /\ Attrs!Switch(d, "bytes").case = "bytes"
         /\ d.case = "bytes" => Attrs!Switch(d, "bytes") = d
<1>1. "bytes" \in AttrCases
  BY DEF AttrCases
<1> QED BY <1>1, SwitchForm

LEMMA GetForm ==
  ASSUME NEW d, DefForm(d), NEW kind \in Attrs!Kinds
  PROVE  DefForm(Attrs!Get(d, kind))
<1>1. CASE kind \in Attrs!Basic
  BY <1>1, GetOf
<1>2. CASE kind = "bytes"
  BY <1>2, GetOf, BytesForm
<1>3. CASE kind = "graph"
  <2>1. "graph" \in Wrappable
    BY DEF Wrappable, Attrs!Members
  <2>2. DefForm(Attrs!Wrap(d, "graph"))
    BY <2>1, WrapForm
  <2> QED BY <1>3, <2>2, GetOf, PutForm
<1>4. CASE kind \notin Attrs!Basic \cup {"bytes", "graph"}
  <2> DEFINE m == Attrs!Member(kind)
  <2>1. Attrs!Get(d, kind) = Attrs!Wrap(d, m)
    BY <1>4, GetOf
  <2>2. m \in Wrappable
    BY <1>4, MemberOf
  <2> HIDE DEF m
  <2>3. DefForm(Attrs!Wrap(d, m))
    BY <2>2, WrapForm
  <2> QED BY <2>1, <2>3
<1> QED BY <1>1, <1>2, <1>3, <1>4

LEMMA GetKeeps ==
  ASSUME NEW d, DefForm(d), Wrappers(d), NEW kind \in Attrs!Kinds, ~Attrs!TouchesGone(d, kind),
         Attrs!Get(d, kind).case = d.case
  PROVE  LET g == Attrs!Get(d, kind)
         IN /\ Wrappers(g) /\ g.gone = d.gone /\ g.type = d.type /\ g.items = d.items /\ d.wrapped \subseteq g.wrapped
            /\ kind # "graph" => g.val = d.val
            /\ kind = "graph" => d.case = "graph" /\ g.val = <<>>
            /\ kind \in Attrs!Members => kind \in g.wrapped
<1> DEFINE g == Attrs!Get(d, kind)
<1>1. CASE kind \in Attrs!Basic
  <2>1. g = d /\ kind # "graph" /\ kind \notin Attrs!Members
    BY <1>1, GetOf DEF Attrs!Basic, Attrs!Members
  <2> QED BY <2>1
<1>2. CASE kind = "bytes"
  <2>1. g = Attrs!Switch(d, "bytes") /\ kind \notin Attrs!Members
    BY <1>2, GetOf DEF Attrs!Members
  <2>2. d.case = "bytes"
    BY <2>1, BytesForm
  <2>3. g = d
    BY <2>1, <2>2, BytesForm
  <2> QED BY <1>2, <2>1, <2>3
<1>3. CASE kind = "graph"
  <2> DEFINE w == Attrs!Wrap(d, "graph")
  <2>1. "graph" \in Wrappable /\ "graph" \notin d.gone
    BY <1>3, MemberOf DEF Wrappable, Attrs!TouchesGone, Attrs!Members
  <2>2. DefForm(w) /\ Wrappers(w) /\ w.case = "graph" /\ "graph" \in w.wrapped /\ d.wrapped \subseteq w.wrapped
    BY <2>1, WrapKeeps
  <2>3. g = WithVal(w, <<>>)
    BY <1>3, GetOf
  <2> HIDE DEF w, g
  <2>4. DefForm(g) /\ g.val = <<>> /\ g.case = w.case /\ g.type = w.type /\ g.items = w.items
        /\ g.wrapped = w.wrapped /\ g.gone = w.gone
    BY <2>2, <2>3, PutForm
  <2>5. d.case = "graph"
    BY <2>2, <2>4 DEF g
  <2>6. w.type = d.type /\ w.items = d.items /\ w.gone = d.gone
    BY <2>1, <2>5, WrapForm DEF w
  <2> QED BY <1>3, <2>2, <2>4, <2>5, <2>6 DEF Wrappers, g
<1>4. CASE kind \notin Attrs!Basic \cup {"bytes", "graph"}
  <2> DEFINE m == Attrs!Member(kind)
  <2>1. m \in Wrappable /\ m \notin d.gone /\ (kind \in Attrs!Members => m = kind)
    BY <1>4, MemberOf DEF Attrs!TouchesGone
  <2>2. g = Attrs!Wrap(d, m)
    BY <1>4, GetOf
  <2> HIDE DEF m, g
  <2>3. DefForm(g) /\ Wrappers(g) /\ g.case = m /\ m \in g.wrapped /\ d.wrapped \subseteq g.wrapped
    BY <2>1, <2>2, WrapKeeps
  <2>4. d.case = m
    BY <2>3 DEF g
  <2>5. g.val = d.val /\ g.type = d.type /\ g.items = d.items /\ g.gone = d.gone
    BY <2>1, <2>2, <2>4, WrapForm
  <2> QED BY <1>4, <2>1, <2>3, <2>5 DEF g
<1> QED BY <1>1, <1>2, <1>3, <1>4

\* A typed read looks for what is there.
LEMMA TypedGet ==
  ASSUME NEW d, DefForm(d), Wrappers(d), NEW kind \in Attrs!Kinds, Attrs!GetValueType(d) = kind
  PROVE  /\ ~Attrs!TouchesGone(d, kind) /\ d.case = Attrs!Member(kind) /\ Attrs!Get(d, kind).case = d.case
         /\ d.case = "list" => d.type # "none"
<1>1. d.case = Attrs!Member(kind) /\ (d.case = "list" => d.type # "none")
  <2>1. CASE d.case = "list"
    <3>1. kind \in Attrs!ListKinds
      BY <2>1, MemberOf DEF DefForm, Attrs!GetValueType
    <3> QED BY <2>1, <3>1, MemberOf DEF Attrs!GetValueType
  <2>2. CASE d.case # "list"
    <3>1. d.case = kind /\ kind \in AttrCases
      BY <2>2 DEF DefForm, Attrs!GetValueType
    <3>2. kind \notin Attrs!ListKinds
      BY <3>1 DEF AttrCases, Attrs!Basic, Attrs!Members, Attrs!ListKinds
    <3> QED BY <2>2, <3>1, <3>2 DEF Attrs!Member
  <2> QED BY <2>1, <2>2
<1>2. ~Attrs!TouchesGone(d, kind)
  BY <1>1 DEF Attrs!TouchesGone, Wrappers
<1>3. Attrs!Get(d, kind).case = d.case
  <2>1. CASE kind \in Attrs!Basic
    BY <2>1, GetOf
  <2>2. CASE kind = "bytes"
    BY <2>2, <1>1, GetOf, MemberOf, BytesForm
  <2>3. CASE kind = "graph"
    <3>1. d.case = "graph" /\ "graph" \in Wrappable
      BY <1>1, <2>3, MemberOf DEF Wrappable, Attrs!Members
    <3>2. DefForm(Attrs!Wrap(d, "graph")) /\ Attrs!Wrap(d, "graph").case = "graph"
      BY <3>1, WrapForm
    <3> QED BY <2>3, <3>1, <3>2, GetOf, PutForm
  <2>4. CASE kind \notin Attrs!Basic \cup {"bytes", "graph"}
    <3> DEFINE m == Attrs!Member(kind)
    <3>1. Attrs!Get(d, kind) = Attrs!Wrap(d, m) /\ m \in Wrappable /\ d.case = m
      BY <1>1, <2>4, GetOf, MemberOf
    <3> HIDE DEF m
    <3>2. Attrs!Wrap(d, m).case = m
      BY <3>1, WrapForm
    <3> QED BY <3>1, <3>2
  <2> QED BY <2>1, <2>2, <2>3, <2>4
<1> QED BY <1>1, <1>2, <1>3

\* What a copy of an attribute is, and the one that is created.
LEMMA CopyForm ==
  ASSUME NEW d, DefForm(d)
  PROVE  LET c == Attrs!CopyFrom(d)
         IN /\ AttrKnown(c) /\ c.gone = {} /\ c.case = d.case /\ c.type = d.type /\ c.val = d.val /\ c.items = d.items
            /\ \A s : Faithful(d, s) => Faithful(c, s)
<1> DEFINE c == Attrs!CopyFrom(d)
<1>1. c = [[d EXCEPT !.wrapped = {}] EXCEPT !.gone = {}]
  BY Zenon DEF Attrs!CopyFrom
<1> HIDE DEF c
<1>2. c = [case |-> d.case, val |-> d.val, type |-> d.type, items |-> d.items, wrapped |-> {}, gone |-> {}]
  BY <1>1 DEF DefForm
<1>3. /\ c.gone = {} /\ c.wrapped = {} /\ c.case = d.case /\ c.type = d.type /\ c.val = d.val /\ c.items = d.items
  BY <1>2
<1>4. DefForm(c)
  BY <1>2, <1>3 DEF DefForm
<1>5. \A s : Faithful(d, s) => Faithful(c, s)
  BY <1>3 DEF Faithful, Attrs!GetValueType, Attrs!Content
<1> QED BY <1>3, <1>4, <1>5 DEF AttrKnown, Wrappers, c

LEMMA CreatedKnown ==
  AttrKnown(Attrs!AttrDef) /\ Attrs!AttrDef.gone = {} /\ Faithful(Attrs!AttrDef, Attrs!Nothing) /\ SaidForm(Attrs!Nothing)
<1> DEFINE c == Attrs!AttrDef
<1>1. /\ c = [case |-> "none", val |-> <<>>, type |-> "none", items |-> Attrs!NoItems, wrapped |-> {}, gone |-> {}]
      /\ c.case = "none" /\ c.val = <<>> /\ c.type = "none" /\ c.items = Attrs!NoItems /\ c.wrapped = {} /\ c.gone = {}
  BY DEF Attrs!AttrDef
<1> HIDE DEF c
<1>2. Attrs!NoItems = [k \in Attrs!ListKinds |-> Attrs!NoItems[k]]
  BY DEF Attrs!NoItems
<1>3. AttrKnown(c)
  BY <1>1, <1>2 DEF AttrKnown, DefForm, Wrappers, AttrCases
<1>4. Attrs!Nothing = [kind |-> "none", v |-> <<>>] /\ Attrs!Nothing.kind = "none" /\ Attrs!Nothing.v = <<>>
  BY DEF Attrs!Nothing, Attrs!Said
<1>5. Faithful(c, Attrs!Nothing)
  BY <1>1, <1>4 DEF Faithful, Attrs!GetValueType
<1> QED BY <1>1, <1>3, <1>4, <1>5 DEF SaidForm, c

\* An attribute whose type a set finds has no message of it that is gone, and after it looks as it should.
LEMMA AttrSet ==
  ASSUME NEW d, AttrKnown(d), NEW x, x.kind \in Attrs!Kinds, ~Attrs!Refused(Attrs!GetValueType(d), x)
  PROVE  LET s == Attrs!Set(d, x)
         IN /\ ~Attrs!TouchesGone(d, x.kind) /\ AttrKnown(s)
            /\ ~Attrs!Fails(x) => Faithful(s, x)
            /\ d.case = "tensor" /\ "tensor" \in d.wrapped => s.case = "tensor" /\ "tensor" \in s.wrapped
<1> DEFINE s == Attrs!Set(d, x)
           type == Attrs!GetValueType(d)
<1>0. DefForm(d) /\ Wrappers(d) /\ d.gone \subseteq {"list"} /\ (d.case = "none" => d.gone = {})
  BY DEF AttrKnown
<1>1. type = x.kind \/ type = "none"
  BY DEF Attrs!Refused
<1>2. type = "none" => d.gone = {} /\ d.case \in {"none", "list"}
  BY <1>0 DEF Attrs!GetValueType, Wrappers
<1>3. type = x.kind => ~Attrs!TouchesGone(d, x.kind) /\ d.case = Attrs!Member(x.kind)
  BY <1>0, TypedGet
<1>4. ~Attrs!TouchesGone(d, x.kind)
  BY <1>1, <1>2, <1>3 DEF Attrs!TouchesGone
<1>5. /\ Wrappers(s) /\ s.case = Attrs!Member(x.kind)
      /\ s.gone = IF d.case = s.case THEN d.gone ELSE d.gone \cup ({d.case} \cap d.wrapped)
      /\ x.kind \in Attrs!Members => x.kind \in s.wrapped
      /\ ~Attrs!Fails(x) => Faithful(s, x)
  BY <1>0, <1>4, SetKeeps
<1>6. DefForm(s)
  BY <1>0, SetForm
<1>7. s.gone \subseteq {"list"}
  <2>1. CASE d.case = s.case
    BY <1>0, <1>5, <2>1
  <2>2. CASE d.case # s.case
    <3>1. d.gone = {} /\ d.case \in {"none", "list"}
      BY <1>1, <1>2, <1>3, <1>5, <2>2
    <3> QED BY <1>5, <2>2, <3>1, <1>0 DEF DefForm, Wrappable, Attrs!Members
  <2> QED BY <2>1, <2>2
<1>8. s.case # "none"
  BY <1>5, MemberOf
<1>9. d.case = "tensor" => x.kind = "tensor"
  BY <1>1, <1>2 DEF Attrs!GetValueType
<1>10. ASSUME x.kind = "tensor" PROVE s.case = "tensor" /\ "tensor" \in s.wrapped
  BY <1>5, <1>10, MemberOf DEF Attrs!Members
<1> QED BY <1>4, <1>5, <1>6, <1>7, <1>8, <1>9, <1>10 DEF AttrKnown

LEMMA AttrGet ==
  ASSUME NEW d, AttrKnown(d), NEW kind \in Attrs!Kinds, Attrs!GetValueType(d) = kind
  PROVE  LET g == Attrs!Get(d, kind)
         IN /\ ~Attrs!TouchesGone(d, kind) /\ AttrKnown(g)
            /\ kind # "graph" => \A s : Faithful(d, s) => Faithful(g, s)
            /\ kind = "graph" => Faithful(g, [kind |-> "graph", v |-> <<>>])
            /\ kind = "tensor" => g.case = "tensor" /\ "tensor" \in g.wrapped
            /\ d.case = "tensor" /\ "tensor" \in d.wrapped => g.case = "tensor" /\ "tensor" \in g.wrapped
<1> DEFINE g == Attrs!Get(d, kind)
<1>0. DefForm(d) /\ Wrappers(d) /\ d.gone \subseteq {"list"} /\ (d.case = "none" => d.gone = {})
  BY DEF AttrKnown
<1>1. /\ ~Attrs!TouchesGone(d, kind) /\ d.case = Attrs!Member(kind) /\ g.case = d.case
      /\ d.case = "list" => d.type # "none"
  BY <1>0, TypedGet
<1>2. /\ Wrappers(g) /\ g.gone = d.gone /\ g.type = d.type /\ g.items = d.items /\ d.wrapped \subseteq g.wrapped
      /\ kind # "graph" => g.val = d.val
      /\ kind = "graph" => d.case = "graph" /\ g.val = <<>>
      /\ kind \in Attrs!Members => kind \in g.wrapped
  BY <1>0, <1>1, GetKeeps
<1>3. DefForm(g)
  BY <1>0, GetForm
<1> HIDE DEF g
<1>4. AttrKnown(g)
  BY <1>0, <1>1, <1>2, <1>3 DEF AttrKnown
<1>5. kind # "graph" => \A s : Faithful(d, s) => Faithful(g, s)
  BY <1>1, <1>2 DEF Faithful, Attrs!GetValueType, Attrs!Content
<1>6. kind = "graph" => Faithful(g, [kind |-> "graph", v |-> <<>>])
  <2> SUFFICES ASSUME kind = "graph", NEW s, s.kind = "graph", s.v = <<>> PROVE Faithful(g, s)
    OBVIOUS
  <2> QED BY <1>1, <1>2 DEF Faithful, Attrs!GetValueType, Attrs!Content, Attrs!ListKinds
<1>7. kind = "tensor" => g.case = "tensor" /\ "tensor" \in g.wrapped
  BY <1>1, <1>2, MemberOf DEF Attrs!Members
<1>8. d.case = "tensor" /\ "tensor" \in d.wrapped => g.case = "tensor" /\ "tensor" \in g.wrapped
  BY <1>1, <1>2
<1> QED BY <1>1, <1>4, <1>5, <1>6, <1>7, <1>8 DEF g

-----------------------------------------------------------------------------
(* The calls.                                                               *)

LEMMA HereKnown ==
  ASSUME HeldInv, NEW n \in Names
  PROVE  AttrKnown(Attrs!Here(n))
  BY CreatedKnown DEF HeldInv, Attrs!Here

\* An attribute is put, and with it what was said of it, or that it is broken.
LEMMA PutHeld ==
  ASSUME HeldInv, NEW name \in Names, NEW new, AttrKnown(new), Attrs!Put(name, new),
         NEW s, SaidForm(s), said' = [said EXCEPT ![name] = s],
         \A n \in Names \ {name} : n \in broken => n \in broken',
         name \notin broken' => Faithful(new, s)
  PROVE  HeldInv' /\ Attrs!Here(name)' = new
<1>1. /\ attrs' = [n \in DOMAIN attrs \cup {name} |-> IF n = name THEN new ELSE attrs[n]]
      /\ DOMAIN attrs' = DOMAIN attrs \cup {name} /\ attrs'[name] = new
      /\ \A n \in DOMAIN attrs' : n # name => n \in DOMAIN attrs /\ attrs'[n] = attrs[n]
  BY DEF Attrs!Put
<1>2. /\ said' = [n \in Names |-> said'[n]] /\ said'[name] = s
      /\ \A n \in Names : n # name => said'[n] = said[n]
  BY DEF HeldInv
<1>3. \A n \in Names : Attrs!Here(n)' = IF n = name THEN new ELSE Attrs!Here(n)
  BY <1>1 DEF Attrs!Here
<1>4. DOMAIN attrs' \subseteq Names /\ attrs' = [n \in DOMAIN attrs' |-> attrs'[n]]
  BY <1>1 DEF HeldInv
<1>5. \A n \in DOMAIN attrs' : AttrKnown(attrs'[n])
  BY <1>1 DEF HeldInv
<1>6. \A n \in Names : SaidForm(said'[n])
  BY <1>2 DEF HeldInv
<1>7. \A n \in Names \ broken' : Faithful(Attrs!Here(n)', said'[n])
  <2> TAKE n \in Names \ broken'
  <2>1. CASE n = name
    BY <1>2, <1>3, <2>1
  <2>2. CASE n # name
    <3>1. Faithful(Attrs!Here(n), said[n])
      BY <2>2 DEF HeldInv
    <3> QED BY <1>2, <1>3, <2>2, <3>1
  <2> QED BY <2>1, <2>2
<1> QED BY <1>2, <1>3, <1>4, <1>5, <1>6, <1>7 DEF HeldInv

\* What is put where a tensor is looked at must hold one.
LEMMA PutView ==
  ASSUME ViewInv, NEW name \in Names, NEW new, Attrs!Put(name, new),
         \/ view' = view /\ (view # "" /\ view = name => new.case = "tensor" /\ "tensor" \in new.wrapped)
         \/ view' = name /\ new.case = "tensor" /\ "tensor" \in new.wrapped
         \/ view' = ""
  PROVE  ViewInv'
<1>1. /\ DOMAIN attrs' = DOMAIN attrs \cup {name} /\ attrs'[name] = new
      /\ \A n \in DOMAIN attrs' : n # name => n \in DOMAIN attrs /\ attrs'[n] = attrs[n]
  BY DEF Attrs!Put
<1>2. CASE view' # ""
  <2>1. CASE view' = name
    BY <1>1, <1>2, <2>1 DEF ViewInv
  <2>2. CASE view' # name
    <3>1. view' = view
      BY <1>2, <2>2
    <3> QED BY <1>1, <1>2, <2>2, <3>1 DEF ViewInv
  <2> QED BY <2>1, <2>2
<1> QED BY <1>2 DEF ViewInv

LEMMA HeldSame == HeldInv /\ UNCHANGED <<attrs, said, broken>> => HeldInv'
  BY DEF HeldInv, Attrs!Here
LEMMA ViewSame == ViewInv /\ UNCHANGED <<attrs, view>> => ViewInv'
  BY DEF ViewInv
LEMMA ValueSame == ValueInv /\ UNCHANGED value => ValueInv'
  BY DEF ValueInv
LEMMA DescSame == DescInv /\ UNCHANGED attrDesc => DescInv'
  BY DEF DescInv, Attrs!DataTypeKept, Attrs!dtype

\* A call without a read answers nothing, and one that touches nothing gone is sound.
LEMMA NoReadKept == Attrs!NoRead => Attrs!ReadsAnswer'
<1> SUFFICES ASSUME got' = [kind |-> "none"] PROVE Attrs!ReadsAnswer'
  BY DEF Attrs!NoRead
<1>1. got'.kind = "none"
  OBVIOUS
<1> QED BY <1>1, Zenon DEF Attrs!ReadsAnswer
LEMMA NothingTouched == freed' = "" => Attrs!NothingGoneIsUsed'
  BY DEF Attrs!NothingGoneIsUsed

LEMMA SaidSame ==
  ASSUME HeldInv, NEW name \in Names, UNCHANGED said
  PROVE  said' = [said EXCEPT ![name] = said[name]] /\ SaidForm(said[name])
<1>1. SaidForm(said[name]) /\ said = [n \in Names |-> said[n]]
  BY DEF HeldInv
<1>2. said = [said EXCEPT ![name] = said[name]]
  BY <1>1
<1> QED BY <1>1, <1>2

LEMMA UtilsSetKeeps ==
  ASSUME AttrsInv, NEW name \in Names, NEW x \in AttrValues, Attrs!UtilsSet(name, x)
  PROVE  AttrsInv'
<1> DEFINE old == Attrs!Here(name)
           refused == Attrs!Refused(Attrs!GetValueType(old), x)
<1>0. freed = "" /\ UNCHANGED <<attrDesc, value, view>> /\ Attrs!NoRead
  BY DEF Attrs!UtilsSet, Attrs!Calling
<1>1. x.kind \in Attrs!Kinds /\ SaidForm(x)
  BY AttrsAssumption DEF ValueWellFormed, SaidForm
<1>2. AttrKnown(old)
  BY HereKnown DEF AttrsInv
<1>3. /\ HeldInv /\ ViewInv
      /\ view # "" /\ view = name => old.case = "tensor" /\ "tensor" \in old.wrapped
      /\ name \notin broken => Faithful(old, said[name])
  BY <1>0 DEF AttrsInv, HeldInv, ViewInv, Attrs!Here
<1>4. CASE refused
  <2>1. Attrs!Put(name, old) /\ UNCHANGED <<said, broken, freed>>
    BY <1>4 DEF Attrs!UtilsSet
  <2>2. said' = [said EXCEPT ![name] = said[name]] /\ SaidForm(said[name])
    BY <1>3, <2>1, SaidSame
  <2> HIDE DEF old
  <2>3. HeldInv'
    BY <1>2, <1>3, <2>1, <2>2, PutHeld
  <2>4. ViewInv'
    BY <1>0, <1>3, <2>1, PutView
  <2> QED BY <1>0, <2>1, <2>3, <2>4, ValueSame, DescSame, NoReadKept, NothingTouched DEF AttrsInv
<1>5. CASE ~refused
  <2> DEFINE s == Attrs!Set(old, x)
  <2>0. /\ ~Attrs!TouchesGone(old, x.kind) /\ AttrKnown(s)
        /\ ~Attrs!Fails(x) => Faithful(s, x)
        /\ old.case = "tensor" /\ "tensor" \in old.wrapped => s.case = "tensor" /\ "tensor" \in s.wrapped
    BY <1>1, <1>2, <1>5, AttrSet
  <2>1. Attrs!Put(name, s) /\ UNCHANGED freed
    BY <1>5, <2>0 DEF Attrs!UtilsSet
  <2>2. IF Attrs!Fails(x) THEN broken' = broken \cup {name} /\ UNCHANGED said
        ELSE said' = [said EXCEPT ![name] = x] /\ broken' = broken \ {name}
    BY <1>5 DEF Attrs!UtilsSet
  <2> HIDE DEF s, old
  <2>3. HeldInv'
    <3>1. CASE Attrs!Fails(x)
      <4>1. said' = [said EXCEPT ![name] = said[name]] /\ SaidForm(said[name])
        BY <1>3, <2>2, <3>1, SaidSame
      <4> QED BY <1>3, <2>0, <2>1, <2>2, <3>1, <4>1, PutHeld
    <3>2. CASE ~Attrs!Fails(x)
      BY <1>1, <1>3, <2>0, <2>1, <2>2, <3>2, PutHeld
    <3> QED BY <3>1, <3>2
  <2>4. ViewInv'
    BY <1>0, <1>3, <2>0, <2>1, PutView
  <2> QED BY <1>0, <2>1, <2>3, <2>4, ValueSame, DescSame, NoReadKept, NothingTouched DEF AttrsInv
<1> QED BY <1>4, <1>5

LEMMA KindOf ==
  ASSUME NEW kind \in {x.kind : x \in AttrValues} \cup {"int32", "uint32"}
  PROVE  /\ Attrs!Wide(kind) \in Attrs!Kinds
         /\ kind \in Attrs!Kinds => Attrs!Wide(kind) = kind /\ (\A v : Attrs!InRange(kind, v))
<1>1. CASE kind \in {"int32", "uint32"}
  BY <1>1 DEF Attrs!Wide, Attrs!Kinds, Attrs!Basic, Attrs!Members, Attrs!ListKinds
<1>2. CASE kind \notin {"int32", "uint32"}
  <2>1. kind \in Attrs!Kinds
    BY <1>2, AttrsAssumption DEF ValueWellFormed
  <2> QED BY <1>2, <2>1 DEF Attrs!Wide, Attrs!InRange
<1> QED BY <1>1, <1>2

LEMMA SaidPut ==
  ASSUME NEW s, SaidForm(s), NEW v
  PROVE  LET t == [s EXCEPT !.v = v] IN SaidForm(t) /\ t.kind = s.kind /\ t.v = v /\ t = [kind |-> s.kind, v |-> v]
<1> DEFINE t == [s EXCEPT !.v = v]
<1>1. t = [kind |-> s.kind, v |-> v]
  BY DEF SaidForm
<1> HIDE DEF t
<1>2. t.kind = s.kind /\ t.v = v
  BY <1>1
<1> QED BY <1>1, <1>2 DEF SaidForm, t

LEMMA UtilsGetKeeps ==
  ASSUME AttrsInv, NEW name \in Names, NEW kind \in {x.kind : x \in AttrValues} \cup {"int32", "uint32"},
         Attrs!UtilsGet(name, kind)
  PROVE  AttrsInv'
<1> DEFINE d == Attrs!Here(name)
           wide == Attrs!Wide(kind)
           typed == name \in DOMAIN attrs /\ Attrs!GetValueType(d) = wide
           content == Attrs!Content(d, wide)
           ok == typed /\ Attrs!InRange(kind, content)
           s == said[name]
           answer == IF ok THEN Attrs!Said(kind, content) ELSE Attrs!Nothing
<1>1. /\ freed = "" /\ UNCHANGED <<attrDesc, value, broken>>
      /\ got' = [kind |-> kind, name |-> name, ok |-> ok, v |-> answer]
      /\ IF typed /\ kind \in Attrs!Kinds THEN Attrs!Put(name, Attrs!Get(d, kind)) ELSE UNCHANGED attrs
      /\ freed' = IF typed /\ Attrs!TouchesGone(d, wide) THEN "UtilsGet" ELSE ""
      /\ said' = IF ok /\ kind = "graph" THEN [said EXCEPT ![name].v = <<>>] ELSE said
      /\ view' = IF ok /\ kind = "tensor" THEN name ELSE view
  BY DEF Attrs!UtilsGet, Attrs!Calling
<1>2. /\ wide \in Attrs!Kinds
      /\ kind \in Attrs!Kinds => wide = kind /\ Attrs!InRange(kind, content)
  BY KindOf
<1>3. AttrKnown(d)
  BY HereKnown DEF AttrsInv
<1>4. /\ HeldInv /\ ViewInv /\ SaidForm(s)
      /\ view # "" /\ view = name => d.case = "tensor" /\ "tensor" \in d.wrapped
      /\ name \notin broken => Faithful(d, s)
  BY DEF AttrsInv, HeldInv, ViewInv, Attrs!Here
<1>5. name \notin broken => (ok <=> s.kind = wide /\ Attrs!InRange(kind, s.v)) /\ (ok => content = s.v)
  <2> SUFFICES ASSUME name \notin broken
               PROVE  (ok <=> s.kind = wide /\ Attrs!InRange(kind, s.v)) /\ (ok => content = s.v)
    OBVIOUS
  <2>1. wide # "none"
    BY <1>2, MemberOf
  <2>2. Attrs!GetValueType(d) = s.kind /\ (s.kind # "none" => Attrs!Content(d, s.kind) = s.v)
    BY <1>4 DEF Faithful
  <2>3. Attrs!GetValueType(d) = wide => name \in DOMAIN attrs
    <3>1. ASSUME name \notin DOMAIN attrs PROVE Attrs!GetValueType(d) = "none"
      BY <3>1 DEF Attrs!Here, Attrs!GetValueType, Attrs!AttrDef
    <3> QED BY <2>1, <3>1
  <2> QED BY <2>1, <2>2, <2>3
<1> HIDE DEF ok
<1>6. got'.kind = kind /\ got'.name = name /\ got'.ok = ok /\ got'.v = answer
  BY <1>1
<1>7. freed' = "" /\ (typed => ~Attrs!TouchesGone(d, wide))
  BY <1>1, <1>2, <1>3, TypedGet DEF AttrKnown
<1>8. Attrs!ReadsAnswer'
  <2> SUFFICES ASSUME name \notin broken', kind # "graph"
               PROVE  /\ ok <=> said'[name].kind = wide /\ Attrs!InRange(kind, said'[name].v)
                      /\ ok => answer.v = said'[name].v
    BY <1>6, Zenon DEF Attrs!ReadsAnswer
  <2>1. said'[name] = s /\ name \notin broken
    BY <1>1
  <2>2. ok => answer.v = content
    BY DEF Attrs!Said
  <2> QED BY <1>5, <2>1, <2>2
<1>9. HeldInv' /\ ViewInv'
  <2>1. CASE typed /\ kind \in Attrs!Kinds
    <3> DEFINE g == Attrs!Get(d, kind)
    <3>1. Attrs!Put(name, g) /\ kind \in Attrs!Kinds /\ Attrs!GetValueType(d) = kind /\ ok /\ wide = kind
      BY <1>1, <1>2, <2>1 DEF ok
    <3>2. /\ AttrKnown(g)
          /\ kind # "graph" => (Faithful(d, s) => Faithful(g, s))
          /\ kind = "graph" => Faithful(g, [kind |-> "graph", v |-> <<>>])
          /\ kind = "tensor" => g.case = "tensor" /\ "tensor" \in g.wrapped
          /\ d.case = "tensor" /\ "tensor" \in d.wrapped => g.case = "tensor" /\ "tensor" \in g.wrapped
      BY <1>3, <3>1, AttrGet
    <3> HIDE DEF g
    <3>3. HeldInv'
      <4>1. CASE kind # "graph"
        <5>1. said' = [said EXCEPT ![name] = said[name]] /\ SaidForm(said[name])
          BY <1>1, <1>4, <4>1, SaidSame
        <5>2. name \notin broken' => Faithful(g, said[name])
          BY <1>1, <1>4, <3>2, <4>1
        <5> QED BY <1>1, <1>4, <3>1, <3>2, <5>1, <5>2, PutHeld
      <4>2. CASE kind = "graph"
        <5> DEFINE t == [s EXCEPT !.v = <<>>]
        <5>1. said' = [said EXCEPT ![name] = t]
          BY <1>1, <3>1, <4>2
        <5>2. t = [kind |-> s.kind, v |-> <<>>] /\ SaidForm(t)
          BY <1>4, SaidPut
        <5>3. name \notin broken' => Faithful(g, t)
          <6> SUFFICES ASSUME name \notin broken' PROVE Faithful(g, t)
            OBVIOUS
          <6>1. s.kind = "graph"
            BY <1>1, <1>4, <3>1, <4>2 DEF Faithful
          <6> QED BY <3>2, <4>2, <5>2, <6>1
        <5> HIDE DEF t
        <5> QED BY <1>1, <1>4, <3>1, <3>2, <5>1, <5>2, <5>3, PutHeld
      <4> QED BY <4>1, <4>2
    <3>4. ViewInv'
      BY <1>1, <1>4, <3>1, <3>2, PutView
    <3> QED BY <3>3, <3>4
  <2>2. CASE ~(typed /\ kind \in Attrs!Kinds)
    <3>1. UNCHANGED <<attrs, said, broken, view>>
      <4>1. kind \in {"graph", "tensor"} => kind \in Attrs!Kinds
        BY DEF Attrs!Kinds, Attrs!Members
      <4> QED BY <1>1, <2>2, <4>1 DEF ok
    <3> QED BY <1>4, <3>1, HeldSame, ViewSame
  <2> QED BY <2>1, <2>2
<1> QED BY <1>1, <1>7, <1>8, <1>9, ValueSame, DescSame, NothingTouched DEF AttrsInv

LEMMA WriteViewKeeps ==
  ASSUME AttrsInv, NEW v, Attrs!WriteView(v)
  PROVE  AttrsInv'
<1> DEFINE d == attrs[view]
           new == WithVal(d, v)
           s == [said[view] EXCEPT !.v = v]
<1>1. /\ freed = "" /\ view # "" /\ UNCHANGED <<attrDesc, value, view, broken>> /\ Attrs!NoRead
      /\ said' = [said EXCEPT ![view] = s]
  BY DEF Attrs!WriteView, Attrs!Calling
<1>2. /\ view \in DOMAIN attrs /\ view \in Names /\ AttrKnown(d) /\ d.case = "tensor" /\ "tensor" \in d.wrapped
      /\ SaidForm(said[view]) /\ Attrs!Here(view) = d
      /\ view \notin broken => Faithful(d, said[view])
  BY <1>1 DEF AttrsInv, HeldInv, ViewInv, Attrs!Here
<1>3. attrs' = [attrs EXCEPT ![view] = new] /\ freed' = ""
  BY <1>1, <1>2 DEF Attrs!WriteView, AttrKnown, Wrappers, WithVal
<1>4. /\ DefForm(new) /\ new.val = v /\ new.case = "tensor" /\ new.type = d.type /\ new.items = d.items
      /\ new.wrapped = d.wrapped /\ new.gone = d.gone
  BY <1>2, PutForm DEF AttrKnown
<1>5. SaidForm(s) /\ s.kind = said[view].kind /\ s.v = v
  BY <1>2, SaidPut
<1>6. view \notin broken => Faithful(d, said[view]) /\ said[view].kind = "tensor"
  BY <1>2 DEF Faithful, Attrs!GetValueType
<1> HIDE DEF new, s
<1>7. Attrs!Put(view, new)
  BY <1>2, <1>3 DEF Attrs!Put, AttrsInv, HeldInv
<1>8. AttrKnown(new)
  BY <1>2, <1>4 DEF AttrKnown, Wrappers
<1>9. view \notin broken' => Faithful(new, s)
  BY <1>1, <1>4, <1>5, <1>6 DEF Faithful, Attrs!GetValueType, Attrs!Content, Attrs!ListKinds
<1>10. HeldInv'
  BY <1>1, <1>2, <1>5, <1>7, <1>8, <1>9, PutHeld DEF AttrsInv
<1>11. ViewInv'
  BY <1>1, <1>2, <1>4, <1>7, PutView DEF AttrsInv
<1> QED BY <1>1, <1>3, <1>10, <1>11, ValueSame, DescSame, NoReadKept, NothingTouched DEF AttrsInv

LEMMA SetOwnTensorListKeeps ==
  ASSUME AttrsInv, NEW name \in Names, Attrs!SetOwnTensorList(name)
  PROVE  AttrsInv'
<1>1. UNCHANGED <<attrs, attrDesc, value, view, said, broken>> /\ Attrs!NoRead /\ freed' = "SetOwnTensorList"
  BY DEF Attrs!SetOwnTensorList
<1>2. Attrs!NothingGoneIsUsed'
  BY <1>1 DEF Attrs!NothingGoneIsUsed
<1> QED BY <1>1, <1>2, HeldSame, ViewSame, ValueSame, DescSame, NoReadKept DEF AttrsInv

LEMMA HolderSetKeeps ==
  ASSUME AttrsInv, NEW name \in Names, Attrs!HolderSet(name)
  PROVE  AttrsInv'
<1> DEFINE old == Attrs!Here(name)
           fits == value.type # "none" /\ Attrs!GetValueType(old) \in {value.type, "none"}
           new == Attrs!CopyFrom(value.def)
           s == value.said
<1>1. freed = "" /\ UNCHANGED <<attrDesc, value, freed>> /\ Attrs!NoRead
  BY DEF Attrs!HolderSet, Attrs!Calling
<1>2. AttrKnown(old)
  BY HereKnown DEF AttrsInv
<1>3. /\ HeldInv /\ ViewInv
      /\ view # "" /\ view = name => old.case = "tensor" /\ "tensor" \in old.wrapped
      /\ name \notin broken => Faithful(old, said[name])
  BY <1>1 DEF AttrsInv, HeldInv, ViewInv, Attrs!Here
<1>4. CASE fits
  <2>1. /\ Attrs!Put(name, new) /\ said' = [said EXCEPT ![name] = s]
        /\ broken' = IF value.misread THEN broken \cup {name} ELSE broken \ {name}
        /\ view' = IF view = name THEN "" ELSE view
    BY <1>4 DEF Attrs!HolderSet, Attrs!ViewLost
  <2>2. AttrKnown(new) /\ (Faithful(value.def, s) => Faithful(new, s))
    BY CopyForm DEF AttrsInv, ValueInv
  <2>3. SaidForm(s) /\ value.misread \in BOOLEAN /\ (~value.misread => Faithful(value.def, s))
    BY DEF AttrsInv, ValueInv
  <2> HIDE DEF new, s
  <2>4. HeldInv'
    <3>1. CASE value.misread
      <4>1. broken' = broken \cup {name}
        BY <2>1, <3>1
      <4> QED BY <1>3, <2>1, <2>2, <2>3, <4>1, PutHeld
    <3>2. CASE ~value.misread
      <4>1. broken' = broken \ {name} /\ Faithful(new, s)
        BY <2>1, <2>2, <2>3, <3>2
      <4> QED BY <1>3, <2>1, <2>2, <2>3, <4>1, PutHeld
    <3> QED BY <3>1, <3>2
  <2>5. ViewInv'
    BY <1>3, <2>1, PutView
  <2> QED BY <1>1, <2>4, <2>5, ValueSame, DescSame, NoReadKept, NothingTouched DEF AttrsInv
<1>5. CASE ~fits
  <2>1. (Attrs!Put(name, old) \/ UNCHANGED attrs) /\ UNCHANGED <<said, broken, view>>
    BY <1>5 DEF Attrs!HolderSet
  <2>2. said' = [said EXCEPT ![name] = said[name]] /\ SaidForm(said[name])
    BY <1>3, <2>1, SaidSame
  <2> HIDE DEF old
  <2>3. HeldInv' /\ ViewInv'
    <3>1. CASE Attrs!Put(name, old)
      <4>1. HeldInv'
        BY <1>2, <1>3, <2>1, <2>2, <3>1, PutHeld
      <4>2. ViewInv'
        BY <1>3, <2>1, <3>1, PutView
      <4> QED BY <4>1, <4>2
    <3>2. CASE UNCHANGED attrs
      BY <1>3, <2>1, <3>2, HeldSame, ViewSame
    <3> QED BY <2>1, <3>1, <3>2
  <2> QED BY <1>1, <2>3, ValueSame, DescSame, NoReadKept, NothingTouched DEF AttrsInv
<1> QED BY <1>4, <1>5

LEMMA HolderGetKeeps ==
  ASSUME AttrsInv, NEW name \in Names, Attrs!HolderGet(name)
  PROVE  AttrsInv'
<1> DEFINE d == attrs[name]
           new == Attrs!CopyFrom(d)
           lost == name \in broken
<1>1. /\ freed = "" /\ name \in DOMAIN attrs /\ UNCHANGED <<attrs, attrDesc, view, freed, said, broken>> /\ Attrs!NoRead
      /\ value' = [type |-> Attrs!GetValueType(d), def |-> new, said |-> said[name], misread |-> lost]
  BY DEF Attrs!HolderGet, Attrs!Calling
<1>2. /\ AttrKnown(d) /\ SaidForm(said[name])
      /\ ~lost => Faithful(d, said[name])
  BY <1>1 DEF AttrsInv, HeldInv, Attrs!Here
<1>3. AttrKnown(new) /\ new.gone = {} /\ (Faithful(d, said[name]) => Faithful(new, said[name]))
  BY <1>2, CopyForm DEF AttrKnown
<1> HIDE DEF new
<1>4. lost \in BOOLEAN
  OBVIOUS
<1> HIDE DEF lost
<1>5. value'.type = Attrs!GetValueType(d) /\ value'.def = new /\ value'.said = said[name] /\ value'.misread = lost
  BY <1>1
<1>6. ValueInv'
  <2>1. value' = [type |-> value'.type, def |-> value'.def, said |-> value'.said, misread |-> value'.misread]
    BY <1>1, <1>5
  <2>2. ~lost => Attrs!GetValueType(d) = said[name].kind
    BY <1>2 DEF Faithful
  <2> QED BY <1>2, <1>3, <1>4, <1>5, <2>1, <2>2 DEF ValueInv, AttrKnown
<1> QED BY <1>1, <1>6, HeldSame, ViewSame, DescSame, NoReadKept, NothingTouched DEF AttrsInv

LEMMA DelAttrKeeps ==
  ASSUME AttrsInv, NEW name \in Names, Attrs!DelAttr(name)
  PROVE  AttrsInv'
<1>1. /\ freed = "" /\ UNCHANGED <<attrDesc, value, freed>> /\ Attrs!NoRead
      /\ attrs' = [n \in DOMAIN attrs \ {name} |-> attrs[n]]
      /\ said' = [said EXCEPT ![name] = Attrs!Nothing] /\ broken' = broken \ {name}
      /\ view' = IF view = name THEN "" ELSE view
  BY DEF Attrs!DelAttr, Attrs!Calling, Attrs!ViewLost
<1>2. \A n \in Names : Attrs!Here(n)' = IF n = name THEN Attrs!AttrDef ELSE Attrs!Here(n)
  BY <1>1 DEF Attrs!Here
<1>3. /\ said' = [n \in Names |-> said'[n]] /\ said'[name] = Attrs!Nothing
      /\ \A n \in Names : n # name => said'[n] = said[n]
  BY <1>1 DEF AttrsInv, HeldInv
<1>4. \A n \in Names : SaidForm(said'[n])
  BY <1>3, CreatedKnown DEF AttrsInv, HeldInv
<1>5. \A n \in Names \ broken' : Faithful(Attrs!Here(n)', said'[n])
  <2> TAKE n \in Names \ broken'
  <2>1. CASE n = name
    BY <1>2, <1>3, <2>1, CreatedKnown
  <2>2. CASE n # name
    BY <1>1, <1>2, <1>3, <2>2 DEF AttrsInv, HeldInv
  <2> QED BY <2>1, <2>2
<1>6. HeldInv'
  BY <1>1, <1>3, <1>4, <1>5 DEF AttrsInv, HeldInv
<1>7. ViewInv'
  BY <1>1 DEF AttrsInv, ViewInv
<1> QED BY <1>1, <1>6, <1>7, ValueSame, DescSame, NoReadKept, NothingTouched DEF AttrsInv

\* A member of the descriptor is changed.
DescForm(d) ==
  d = [hasOutAttr |-> d.hasOutAttr, layout |-> d.layout, dtype |-> d.dtype, device |-> d.device, size |-> d.size,
       key |-> d.key, keyWrapper |-> d.keyWrapper, last |-> d.last, attrs |-> d.attrs]

LEMMA WrapperForm ==
  ASSUME NEW d, DescForm(d), NEW w
  PROVE  LET e == [d EXCEPT !.keyWrapper = w]
         IN /\ DescForm(e) /\ e.keyWrapper = w /\ e.dtype = d.dtype /\ e.key = d.key /\ e.last = d.last
<1> DEFINE e == [d EXCEPT !.keyWrapper = w]
<1>1. e = [hasOutAttr |-> d.hasOutAttr, layout |-> d.layout, dtype |-> d.dtype, device |-> d.device, size |-> d.size,
           key |-> d.key, keyWrapper |-> w, last |-> d.last, attrs |-> d.attrs]
  BY DEF DescForm
<1> HIDE DEF e
<1>2. /\ e.hasOutAttr = d.hasOutAttr /\ e.layout = d.layout /\ e.dtype = d.dtype /\ e.device = d.device
      /\ e.size = d.size /\ e.key = d.key /\ e.keyWrapper = w /\ e.last = d.last /\ e.attrs = d.attrs
  BY <1>1
<1>3. DescForm(e)
  BY <1>1, <1>2 DEF DescForm
<1> QED BY <1>2, <1>3 DEF e

LEMMA GetAllAttrsKeeps ==
  ASSUME AttrsInv, Attrs!GetAllAttrs
  PROVE  AttrsInv'
<1> DEFINE w == IF attrDesc.keyWrapper = "none" /\ attrDesc.key # "" THEN "built" ELSE attrDesc.keyWrapper
<1>1. /\ UNCHANGED <<attrs, value, view, said, broken>> /\ Attrs!NoRead
      /\ attrDesc' = [attrDesc EXCEPT !.keyWrapper = w]
      /\ freed' = IF attrDesc.keyWrapper = "gone" THEN "GetAllAttrs" ELSE ""
  BY DEF Attrs!GetAllAttrs
<1>2. attrDesc.keyWrapper = "gone" => w = "gone"
  OBVIOUS
<1> HIDE DEF w
<1>3. /\ DescForm(attrDesc') /\ attrDesc'.keyWrapper = w /\ attrDesc'.dtype = attrDesc.dtype
      /\ attrDesc'.key = attrDesc.key /\ attrDesc'.last = attrDesc.last
  BY <1>1, WrapperForm DEF AttrsInv, DescInv, DescForm
<1>4. DescInv'
  BY <1>3 DEF AttrsInv, DescInv, DescForm, Attrs!DataTypeKept, Attrs!dtype
<1>5. Attrs!NothingGoneIsUsed'
  BY <1>1, <1>2, <1>3 DEF Attrs!NothingGoneIsUsed
<1> QED BY <1>1, <1>4, <1>5, HeldSame, ViewSame, ValueSame, NoReadKept DEF AttrsInv

\* An application's value that was not misread looks like an attribute that nothing is gone of.
LEMMA ValueSetKeeps ==
  ASSUME AttrsInv, NEW x \in AttrValues, Attrs!ValueSet(x)
  PROVE  AttrsInv'
<1> DEFINE d == value.def
           new == Attrs!Set(d, x)
           fails == Attrs!Fails(x)
           misread == value.misread \/ fails
           type == IF fails THEN value.type ELSE x.kind
           s == IF fails THEN value.said ELSE x
<1>1. /\ freed = "" /\ UNCHANGED <<attrs, attrDesc, view, said, broken>> /\ Attrs!NoRead
      /\ ~Attrs!Refused(value.type, x)
  BY DEF Attrs!ValueSet, Attrs!Calling
<1>2. x.kind \in Attrs!Kinds /\ SaidForm(x)
  BY AttrsAssumption DEF ValueWellFormed, SaidForm
<1>3. /\ DefForm(d) /\ SaidForm(value.said) /\ value.misread \in BOOLEAN
      /\ ~value.misread =>
           /\ Faithful(d, value.said) /\ value.type = value.said.kind /\ d.gone = {} /\ Wrappers(d)
           /\ value.type = Attrs!GetValueType(d) /\ AttrKnown(d)
  BY DEF AttrsInv, ValueInv, Faithful, AttrKnown
<1>4. ~value.misread => ~Attrs!TouchesGone(d, x.kind)
  BY <1>3 DEF Attrs!TouchesGone
<1>5. CASE Attrs!TouchesGone(d, x.kind)
  <2>1. freed' = "ValueSet" /\ UNCHANGED value /\ value.misread
    BY <1>3, <1>4, <1>5 DEF Attrs!ValueSet
  <2>2. Attrs!NothingGoneIsUsed'
    BY <2>1 DEF Attrs!NothingGoneIsUsed
  <2> QED BY <1>1, <2>1, <2>2, HeldSame, ViewSame, ValueSame, DescSame, NoReadKept DEF AttrsInv
<1>6. CASE ~Attrs!TouchesGone(d, x.kind)
  <2>1. freed' = "" /\ value' = [value EXCEPT !.def = new, !.type = type, !.said = s, !.misread = misread]
    BY <1>1, <1>6 DEF Attrs!ValueSet
  <2>2. DefForm(new) /\ SaidForm(s) /\ misread \in BOOLEAN
    BY <1>2, <1>3, SetForm
  <2>3. ~misread => Faithful(new, s) /\ type = s.kind /\ new.gone = {} /\ Wrappers(new)
    <3> SUFFICES ASSUME ~misread PROVE Faithful(new, s) /\ type = s.kind /\ new.gone = {} /\ Wrappers(new)
      OBVIOUS
    <3>1. ~fails /\ ~value.misread /\ s = x /\ type = x.kind
      OBVIOUS
    <3>2. Faithful(new, x) /\ Wrappers(new) /\ new.case = Attrs!Member(x.kind)
          /\ new.gone = IF d.case = new.case THEN d.gone ELSE d.gone \cup ({d.case} \cap d.wrapped)
      BY <1>2, <1>3, <1>6, <3>1, SetKeeps
    <3>3. new.gone = {}
      <4>1. CASE Attrs!GetValueType(d) = x.kind
        <5>1. d.case = new.case
          BY <1>2, <1>3, <3>1, <3>2, <4>1, TypedGet
        <5> QED BY <1>3, <3>1, <3>2, <5>1
      <4>2. CASE Attrs!GetValueType(d) = "none"
        <5>1. d.case = "none"
          BY <1>3, <3>1, <4>2 DEF Faithful, Attrs!GetValueType
        <5>2. "none" \notin d.wrapped
          BY <1>3 DEF DefForm, Wrappable, Attrs!Members
        <5> QED BY <1>3, <3>1, <3>2, <5>1, <5>2
      <4> QED BY <1>1, <1>3, <3>1, <4>1, <4>2 DEF Attrs!Refused
    <3> QED BY <3>1, <3>2, <3>3
  <2> HIDE DEF new, type, s, misread
  <2>4. value' = [type |-> type, def |-> new, said |-> s, misread |-> misread]
    <3>1. value' = [[[[value EXCEPT !.def = new] EXCEPT !.type = type] EXCEPT !.said = s] EXCEPT !.misread = misread]
      BY <2>1, Zenon
    <3> QED BY <3>1 DEF AttrsInv, ValueInv
  <2>5. value'.type = type /\ value'.def = new /\ value'.said = s /\ value'.misread = misread
    BY <2>4
  <2>6. ValueInv'
    BY <2>2, <2>3, <2>4, <2>5 DEF ValueInv
  <2> QED BY <1>1, <2>1, <2>6, HeldSame, ViewSame, DescSame, NoReadKept, NothingTouched DEF AttrsInv
<1> QED BY <1>5, <1>6

LEMMA ValueGetKeeps ==
  ASSUME AttrsInv, NEW kind \in Attrs!Kinds, Attrs!ValueGet(kind)
  PROVE  AttrsInv'
<1> DEFINE d == value.def
           g == Attrs!Get(d, kind)
           misread == value.misread \/ g.case # d.case
           s == IF kind = "graph" /\ value.said.kind = "graph" THEN Attrs!Said("graph", <<>>) ELSE value.said
<1>1. freed = "" /\ UNCHANGED <<attrs, attrDesc, view, said, broken>> /\ Attrs!NoRead
  BY DEF Attrs!ValueGet, Attrs!Calling
<1>3. /\ DefForm(d) /\ SaidForm(value.said) /\ value.misread \in BOOLEAN
      /\ ~value.misread =>
           Faithful(d, value.said) /\ value.type = value.said.kind /\ d.gone = {} /\ Wrappers(d)
  BY DEF AttrsInv, ValueInv
<1>4. ~value.misread => ~Attrs!TouchesGone(d, kind)
  BY <1>3 DEF Attrs!TouchesGone
<1>5. CASE Attrs!TouchesGone(d, kind)
  <2>1. freed' = "ValueGet" /\ UNCHANGED value /\ value.misread
    BY <1>3, <1>4, <1>5 DEF Attrs!ValueGet
  <2>2. Attrs!NothingGoneIsUsed'
    BY <2>1 DEF Attrs!NothingGoneIsUsed
  <2> QED BY <1>1, <2>1, <2>2, HeldSame, ViewSame, ValueSame, DescSame, NoReadKept DEF AttrsInv
<1>6. CASE ~Attrs!TouchesGone(d, kind)
  <2>1. freed' = "" /\ value' = [value EXCEPT !.def = g, !.misread = misread, !.said = s]
    BY <1>1, <1>6 DEF Attrs!ValueGet
  <2>2. DefForm(g) /\ SaidForm(s) /\ misread \in BOOLEAN /\ s.kind = value.said.kind
    BY <1>3, GetForm DEF SaidForm, Attrs!Said, Attrs!Kinds, Attrs!Members
  <2>3. ~misread => Faithful(g, s) /\ value.type = s.kind /\ g.gone = {} /\ Wrappers(g)
    <3> SUFFICES ASSUME ~misread PROVE Faithful(g, s) /\ value.type = s.kind /\ g.gone = {} /\ Wrappers(g)
      OBVIOUS
    <3>1. ~value.misread /\ g.case = d.case
      OBVIOUS
    <3>2. /\ Wrappers(g) /\ g.gone = d.gone /\ g.type = d.type /\ g.items = d.items
          /\ kind # "graph" => g.val = d.val
          /\ kind = "graph" => d.case = "graph" /\ g.val = <<>>
      BY <1>3, <1>6, <3>1, GetKeeps
    <3>3. kind = "graph" => value.said.kind = "graph" /\ s.v = <<>>
      BY <1>3, <3>1, <3>2 DEF Faithful, Attrs!GetValueType, Attrs!Said
    <3>4. kind # "graph" => s = value.said
      OBVIOUS
    <3> HIDE DEF g, s
    <3>5. Faithful(g, s)
      <4>1. CASE kind = "graph"
        BY <1>3, <2>2, <3>1, <3>2, <3>3, <4>1 DEF Faithful, Attrs!GetValueType, Attrs!Content, Attrs!ListKinds
      <4>2. CASE kind # "graph"
        BY <1>3, <3>1, <3>2, <3>4, <4>2 DEF Faithful, Attrs!GetValueType, Attrs!Content
      <4> QED BY <4>1, <4>2
    <3> QED BY <1>3, <2>2, <3>1, <3>2, <3>5
  <2> HIDE DEF g, s, misread
  <2>4. value' = [type |-> value.type, def |-> g, said |-> s, misread |-> misread]
    <3>1. value' = [[[value EXCEPT !.def = g] EXCEPT !.misread = misread] EXCEPT !.said = s]
      BY <2>1, Zenon
    <3> QED BY <3>1 DEF AttrsInv, ValueInv
  <2>5. value'.type = value.type /\ value'.def = g /\ value'.said = s /\ value'.misread = misread
    BY <2>4
  <2>6. ValueInv'
    BY <2>2, <2>3, <2>4, <2>5 DEF ValueInv
  <2> QED BY <1>1, <2>1, <2>6, HeldSame, ViewSame, DescSame, NoReadKept, NothingTouched DEF AttrsInv
<1> QED BY <1>5, <1>6

LEMMA SetDataTypeKeeps ==
  ASSUME AttrsInv, NEW t, Attrs!SetDataType(t)
  PROVE  AttrsInv'
<1> DEFINE w == IF attrDesc.keyWrapper = "built" THEN "gone" ELSE attrDesc.keyWrapper
           erased == [attrDesc EXCEPT !.key = "", !.keyWrapper = w]
           key == IF t \in Attrs!SELF_DEFINE_DATA_TYPE_MAP /\ t \notin Attrs!DATA_TYPE_MAP THEN t ELSE ""
           type == IF t \in Attrs!DATA_TYPE_MAP THEN t ELSE attrDesc.dtype
           typed == Attrs!set_dtype(attrDesc, t)
<1>1. /\ freed = "" /\ UNCHANGED <<attrs, value, view, freed, said, broken>> /\ Attrs!NoRead
      /\ attrDesc' = [typed EXCEPT !.last = t]
  BY DEF Attrs!SetDataType, Attrs!Calling
<1>2. typed = IF t \in Attrs!DATA_TYPE_MAP THEN [erased EXCEPT !.dtype = t]
              ELSE IF t \in Attrs!SELF_DEFINE_DATA_TYPE_MAP THEN [erased EXCEPT !.key = t] ELSE erased
  BY DEF Attrs!set_dtype
<1>3. erased = [[attrDesc EXCEPT !.key = ""] EXCEPT !.keyWrapper = w]
  BY Zenon
<1> HIDE DEF w, erased, typed
<1>4. erased = [hasOutAttr |-> attrDesc.hasOutAttr, layout |-> attrDesc.layout, dtype |-> attrDesc.dtype,
                device |-> attrDesc.device, size |-> attrDesc.size, key |-> "", keyWrapper |-> w,
                last |-> attrDesc.last, attrs |-> attrDesc.attrs]
  BY <1>3 DEF AttrsInv, DescInv
<1>5. typed = [hasOutAttr |-> attrDesc.hasOutAttr, layout |-> attrDesc.layout, dtype |-> type,
               device |-> attrDesc.device, size |-> attrDesc.size, key |-> key, keyWrapper |-> w,
               last |-> attrDesc.last, attrs |-> attrDesc.attrs]
  <2>1. CASE t \in Attrs!DATA_TYPE_MAP
    BY <1>2, <1>4, <2>1
  <2>2. CASE t \notin Attrs!DATA_TYPE_MAP /\ t \in Attrs!SELF_DEFINE_DATA_TYPE_MAP
    BY <1>2, <1>4, <2>2
  <2>3. CASE t \notin Attrs!DATA_TYPE_MAP /\ t \notin Attrs!SELF_DEFINE_DATA_TYPE_MAP
    BY <1>2, <1>4, <2>3
  <2> QED BY <2>1, <2>2, <2>3
<1> HIDE DEF type, key
<1>6. attrDesc' = [hasOutAttr |-> attrDesc.hasOutAttr, layout |-> attrDesc.layout, dtype |-> type,
                   device |-> attrDesc.device, size |-> attrDesc.size, key |-> key, keyWrapper |-> w,
                   last |-> t, attrs |-> attrDesc.attrs]
  BY <1>1, <1>5
<1>7. /\ attrDesc'.hasOutAttr = attrDesc.hasOutAttr /\ attrDesc'.layout = attrDesc.layout /\ attrDesc'.dtype = type
      /\ attrDesc'.device = attrDesc.device /\ attrDesc'.size = attrDesc.size /\ attrDesc'.key = key
      /\ attrDesc'.keyWrapper = w /\ attrDesc'.last = t /\ attrDesc'.attrs = attrDesc.attrs
  BY <1>6
<1>8. Attrs!DataTypeKept'
  <2>1. t \in Attrs!DATA_TYPE_MAP => key = "" /\ type = t
    BY DEF key, type
  <2>2. t \in Attrs!SELF_DEFINE_DATA_TYPE_MAP => key = t /\ t # ""
    BY DEF key, Attrs!SELF_DEFINE_DATA_TYPE_MAP, Attrs!DATA_TYPE_MAP
  <2> QED BY <1>7, <2>1, <2>2 DEF Attrs!DataTypeKept, Attrs!dtype
<1>9. DescInv'
  BY <1>6, <1>7, <1>8 DEF DescInv
<1> QED BY <1>1, <1>9, HeldSame, ViewSame, ValueSame, NoReadKept, NothingTouched DEF AttrsInv

LEMMA CopyDescKeeps ==
  ASSUME AttrsInv, Attrs!CopyDesc
  PROVE  AttrsInv'
<1>1. /\ freed = "" /\ UNCHANGED <<value, freed, said, broken>> /\ Attrs!NoRead /\ view' = ""
      /\ attrs' = [n \in DOMAIN attrs |-> Attrs!CopyFrom(attrs[n])]
      /\ attrDesc' = [attrDesc EXCEPT !.keyWrapper = "none"]
  BY DEF Attrs!CopyDesc, Attrs!Calling
<1>2. ASSUME NEW n \in DOMAIN attrs
      PROVE  AttrKnown(attrs'[n]) /\ (\A s : Faithful(attrs[n], s) => Faithful(attrs'[n], s))
  <2>1. attrs'[n] = Attrs!CopyFrom(attrs[n])
    BY <1>1
  <2>2. DefForm(attrs[n])
    BY DEF AttrsInv, HeldInv, AttrKnown
  <2> QED BY <2>1, <2>2, CopyForm
<1>3. DOMAIN attrs' = DOMAIN attrs /\ attrs' = [n \in DOMAIN attrs' |-> attrs'[n]]
  BY <1>1
<1>4. \A n \in Names \ broken' : Faithful(Attrs!Here(n)', said'[n])
  <2> TAKE n \in Names \ broken'
  <2>1. Faithful(Attrs!Here(n), said[n])
    BY <1>1 DEF AttrsInv, HeldInv
  <2> QED BY <1>1, <1>2, <1>3, <2>1 DEF Attrs!Here
<1>5. HeldInv'
  BY <1>1, <1>2, <1>3, <1>4 DEF AttrsInv, HeldInv
<1>6. /\ DescForm(attrDesc') /\ attrDesc'.dtype = attrDesc.dtype
      /\ attrDesc'.key = attrDesc.key /\ attrDesc'.last = attrDesc.last
  BY <1>1, WrapperForm DEF AttrsInv, DescInv, DescForm
<1>7. DescInv'
  BY <1>6 DEF AttrsInv, DescInv, DescForm, Attrs!DataTypeKept, Attrs!dtype
<1>8. ViewInv'
  BY <1>1 DEF ViewInv
<1> QED BY <1>1, <1>5, <1>7, <1>8, ValueSame, NoReadKept, NothingTouched DEF AttrsInv

LEMMA AttrsInit == Attrs!Init => AttrsInv
<1> SUFFICES ASSUME Attrs!Init PROVE AttrsInv
  OBVIOUS
<1>1. PICK raw \in Raws :
        /\ attrs = raw.attrs
        /\ attrDesc = [Attrs!CompatibleMemberHandle(raw) EXCEPT !.last = Attrs!dtype(Attrs!CompatibleMemberHandle(raw))]
        /\ said = [n \in Names |-> IF n \in DOMAIN raw.attrs THEN Attrs!Found(raw.attrs[n]) ELSE Attrs!Nothing]
  BY DEF Attrs!Init
<1>2. /\ value = [type |-> "none", def |-> Attrs!AttrDef, said |-> Attrs!Nothing, misread |-> FALSE]
      /\ view = "" /\ got = [kind |-> "none"] /\ freed = "" /\ broken = {}
  BY DEF Attrs!Init
<1>3. RawWellFormed(raw)
  BY AttrsAssumption
<1>4. \A n \in DOMAIN attrs : AttrWellFormed(attrs[n])
  BY <1>1, <1>3 DEF RawWellFormed
<1>5. ASSUME NEW n \in DOMAIN attrs
      PROVE  AttrKnown(attrs[n]) /\ SaidForm(Attrs!Found(attrs[n])) /\ Faithful(attrs[n], Attrs!Found(attrs[n]))
  <2> DEFINE d == attrs[n]
             f == Attrs!Found(d)
  <2>1. AttrWellFormed(d)
    BY <1>4
  <2> HIDE DEF d
  <2>2. d = [case |-> d.case, val |-> d.val, type |-> d.type, items |-> d.items, wrapped |-> {}, gone |-> {}]
    BY <2>1 DEF AttrWellFormed
  <2>3. d.wrapped = {} /\ d.gone = {}
    BY <2>2
  <2>4. AttrKnown(d)
    BY <2>1, <2>2, <2>3 DEF AttrWellFormed, AttrKnown, DefForm, Wrappers, AttrCases
  <2>5. f = [kind |-> Attrs!GetValueType(d), v |-> Attrs!Content(d, Attrs!GetValueType(d))]
    BY DEF Attrs!Found, Attrs!Said
  <2> HIDE DEF f
  <2>6. f.kind = Attrs!GetValueType(d) /\ f.v = Attrs!Content(d, Attrs!GetValueType(d))
    BY <2>5
  <2>7. Attrs!GetValueType(d) \in Attrs!Kinds \cup {"none"}
    BY <2>1 DEF AttrWellFormed, Attrs!GetValueType, Attrs!Kinds
  <2> QED BY <2>1, <2>4, <2>5, <2>6, <2>7 DEF AttrWellFormed, SaidForm, Faithful, d, f
<1>6. \A n \in Names : said[n] = IF n \in DOMAIN attrs THEN Attrs!Found(attrs[n]) ELSE Attrs!Nothing
  BY <1>1
<1>7. HeldInv
  <2>1. DOMAIN attrs \subseteq Names /\ attrs = [n \in DOMAIN attrs |-> attrs[n]]
    BY <1>1, <1>3 DEF RawWellFormed
  <2>2. said = [n \in Names |-> said[n]]
    BY <1>1
  <2>3. \A n \in Names : SaidForm(said[n])
    BY <1>5, <1>6, CreatedKnown
  <2>4. \A n \in Names : Faithful(Attrs!Here(n), said[n])
    BY <1>5, <1>6, CreatedKnown DEF Attrs!Here
  <2> QED BY <1>5, <2>1, <2>2, <2>3, <2>4 DEF HeldInv
<1>8. ValueInv
  <2>1. /\ value.type = "none" /\ value.def = Attrs!AttrDef /\ value.said = Attrs!Nothing /\ value.misread = FALSE
    BY <1>2
  <2>2. value.said.kind = "none"
    BY <2>1 DEF Attrs!Nothing, Attrs!Said
  <2> QED BY <1>2, <2>1, <2>2, CreatedKnown DEF ValueInv, AttrKnown
<1>9. DescInv
  <2> DEFINE size == IF "size" \in DOMAIN raw.attrs THEN Attrs!Content(raw.attrs["size"], "int") ELSE raw.size
             layout == IF raw.layout = "" THEN "NCHW" ELSE raw.layout
             type == IF raw.dtype = "UNDEFINED" THEN "FLOAT" ELSE raw.dtype
             where == IF raw.device = "" THEN "NPU" ELSE raw.device
             c == Attrs!CompatibleMemberHandle(raw)
  <2>1. DescForm(raw)
    <3>1. raw.keyWrapper = "none"
      BY <1>3 DEF RawWellFormed
    <3> QED BY <1>3, <3>1 DEF RawWellFormed, DescForm
  <2>2. DescForm(c)
    <3>1. CASE raw.hasOutAttr
      BY <2>1, <3>1 DEF Attrs!CompatibleMemberHandle
    <3>2. CASE ~raw.hasOutAttr
      <4>1. c = [[[[[raw EXCEPT !.hasOutAttr = TRUE] EXCEPT !.layout = layout] EXCEPT !.dtype = type]
                  EXCEPT !.device = where] EXCEPT !.size = size]
        BY <3>2, Zenon DEF Attrs!CompatibleMemberHandle
      <4> HIDE DEF size, layout, type, where, c
      <4>2. c = [hasOutAttr |-> TRUE, layout |-> layout, dtype |-> type, device |-> where, size |-> size,
                 key |-> raw.key, keyWrapper |-> raw.keyWrapper, last |-> raw.last, attrs |-> raw.attrs]
        BY <2>1, <4>1 DEF DescForm
      <4>3. /\ c.hasOutAttr = TRUE /\ c.layout = layout /\ c.dtype = type /\ c.device = where /\ c.size = size
            /\ c.key = raw.key /\ c.keyWrapper = raw.keyWrapper /\ c.last = raw.last /\ c.attrs = raw.attrs
        BY <4>2
      <4> QED BY <4>2, <4>3 DEF DescForm
    <3> QED BY <3>1, <3>2
  <2> DEFINE t == Attrs!dtype(c)
  <2>3. attrDesc = [c EXCEPT !.last = t]
    BY <1>1
  <2>4. t = IF c.key = "" THEN c.dtype ELSE c.key
    BY DEF Attrs!dtype
  <2> HIDE DEF t, c
  <2>5. attrDesc = [hasOutAttr |-> c.hasOutAttr, layout |-> c.layout, dtype |-> c.dtype, device |-> c.device, size |-> c.size,
                    key |-> c.key, keyWrapper |-> c.keyWrapper, last |-> t, attrs |-> c.attrs]
    BY <2>2, <2>3 DEF DescForm
  <2>6. /\ attrDesc.hasOutAttr = c.hasOutAttr /\ attrDesc.layout = c.layout /\ attrDesc.dtype = c.dtype
        /\ attrDesc.device = c.device /\ attrDesc.size = c.size /\ attrDesc.key = c.key
        /\ attrDesc.keyWrapper = c.keyWrapper /\ attrDesc.last = t /\ attrDesc.attrs = c.attrs
    BY <2>5
  <2> QED BY <2>4, <2>5, <2>6 DEF DescInv, Attrs!DataTypeKept, Attrs!dtype
<1>10. Attrs!ReadsAnswer
  <2>1. got.kind = "none"
    BY <1>2
  <2> QED BY <2>1, Zenon DEF Attrs!ReadsAnswer
<1> QED BY <1>2, <1>7, <1>8, <1>9, <1>10 DEF AttrsInv, ViewInv, Attrs!NothingGoneIsUsed

LEMMA AttrsNext == AttrsInv /\ Attrs!Next => AttrsInv'
<1> SUFFICES ASSUME AttrsInv, Attrs!Next PROVE AttrsInv'
  OBVIOUS
<1>1. ASSUME NEW n \in Names,
             Attrs!HolderSet(n) \/ Attrs!HolderGet(n) \/ Attrs!DelAttr(n) \/ Attrs!SetOwnTensorList(n)
      PROVE  AttrsInv'
  BY <1>1, HolderSetKeeps, HolderGetKeeps, DelAttrKeeps, SetOwnTensorListKeeps
<1>2. ASSUME NEW n \in Names, NEW x \in AttrValues, Attrs!UtilsSet(n, x) PROVE AttrsInv'
  BY <1>2, UtilsSetKeeps
<1>3. ASSUME NEW n \in Names, NEW k \in {x.kind : x \in AttrValues} \cup {"int32", "uint32"}, Attrs!UtilsGet(n, k)
      PROVE  AttrsInv'
  BY <1>3, UtilsGetKeeps
<1>4. ASSUME NEW x \in AttrValues, Attrs!ValueSet(x) PROVE AttrsInv'
  BY <1>4, ValueSetKeeps
<1>5. ASSUME NEW x \in AttrValues, Attrs!ValueGet(x.kind) PROVE AttrsInv'
  <2>1. x.kind \in Attrs!Kinds
    BY AttrsAssumption DEF ValueWellFormed
  <2> QED BY <1>5, <2>1, ValueGetKeeps
<1>6. ASSUME NEW t \in DataTypes, Attrs!SetDataType(t) PROVE AttrsInv'
  BY <1>6, SetDataTypeKeeps
<1>7. Attrs!WriteView(<<7>>) => AttrsInv'
  BY WriteViewKeeps
<1> QED BY <1>1, <1>2, <1>3, <1>4, <1>5, <1>6, <1>7, GetAllAttrsKeeps, CopyDescKeeps DEF Attrs!Next

LEMMA AttrsSame == AttrsInv /\ UNCHANGED attrVars => AttrsInv'
<1> SUFFICES ASSUME AttrsInv, UNCHANGED attrVars PROVE AttrsInv'
  OBVIOUS
<1>1. UNCHANGED <<attrs, attrDesc, value, view, got, freed, said, broken>>
  BY DEF attrVars
<1>2. Attrs!ReadsAnswer' /\ Attrs!NothingGoneIsUsed'
  BY <1>1 DEF AttrsInv, Attrs!ReadsAnswer, Attrs!NothingGoneIsUsed
<1> QED BY <1>1, <1>2, HeldSame, ViewSame, ValueSame, DescSame DEF AttrsInv

LEMMA AttrsSound == AttrsInv => Attrs!AttributesSound
<1> SUFFICES ASSUME AttrsInv PROVE Attrs!AttributesSound
  OBVIOUS
<1>1. Attrs!HoldsWhatWasSet
  BY DEF AttrsInv, HeldInv, ValueInv, Faithful, Attrs!HoldsWhatWasSet
<1>2. Attrs!ViewsHold
  BY DEF AttrsInv, HeldInv, ViewInv, AttrKnown, Wrappers, Attrs!ViewsHold
<1> QED BY <1>1, <1>2 DEF AttrsInv, DescInv, Attrs!AttributesSound

\* In every reachable state a typed read answers what the last accepted call set and fails when the type or the range
\* is another, a value remembers the type of what it holds, a tensor that looks into an attribute looks at a tensor
\* that is there, no wrapper of a message that is gone is used but in the three named cases, and the data type is the
\* one set last (attr_utils.cpp, attr_value.cpp, attributes_holder.cpp, proto_attr_def.cpp, proto_tensor_desc_def.cpp).
THEOREM AttributesAreSound == RecordsSpec => []AttributesSound
<1> DEFINE Inv == part = "attrs" => AttrsInv
<1>1. RecordsInit => Inv
  BY AttrsInit DEF RecordsInit
<1>2. Inv /\ [RecordsNext]_recordVars => Inv'
  <2> SUFFICES ASSUME Inv, [RecordsNext]_recordVars, part' = "attrs" PROVE AttrsInv'
    OBVIOUS
  <2>1. CASE AttrsStep
    BY <2>1, AttrsNext DEF AttrsStep
  <2>2. CASE UNCHANGED recordVars
    BY <2>2, AttrsSame DEF recordVars
  <2> QED BY <2>1, <2>2 DEF RecordsNext, OptionsStep, ModelsStep, ParasStep, GraphsStep, BuffersStep
<1>3. Inv => AttributesSound
  BY AttrsSound DEF AttributesSound
<1> QED BY <1>1, <1>2, <1>3, PTL DEF RecordsSpec

-----------------------------------------------------------------------------
(***************************************************************************)
(* Built models.  A model that is there is long enough for its header, and *)
(* what a save wrote is the prefix of its custom data and the model.       *)
(***************************************************************************)

Bytes == Seq(Cell)
Long(b) == b = <<>> \/ Len(b) >= 2
ImplSet == [made : {TRUE}, buffer : Bytes, file : Files \cup {""}, inputs : SUBSET Nat, outputs : SUBSET Nat]
ObjectSet == [open : {TRUE}, impl : ImplSet \cup {Models!NoImpl}, custom : CustomData]
SavedSet == [done : {TRUE}, place : Files \cup {"buffer", "external"}, content : Bytes, custom : CustomData, model : Bytes]

\* A file a model stays in is there, and holds a model, or nothing, or begins with a tag.
ModelFits(m) ==
  m.made => Long(m.buffer) /\ (m.file # "" => files[m.file] # Models!NoFile /\ Long(files[m.file]))
Restorable(s) ==
  s.done =>
    /\ s \in SavedSet /\ s.model # <<>> /\ Long(s.model)
    /\ (IF s.place \in Files THEN files[s.place] ELSE s.content) = Models!Prefix(s.custom) \o s.model
ObjectsFit ==
  /\ models \in [Handles -> ObjectSet \cup {Models!Absent}]
  /\ files \in [Files -> Bytes \cup {Models!NoFile}]
  /\ \A h \in Handles : models[h].open => ModelFits(models[h].impl)
  /\ Models!DescsHeldOnce
SavedFits == saved \in SavedSet \cup {Models!NotSaved} /\ Restorable(saved)
ModelsInv == ObjectsFit /\ SavedFits

\* A model just made: it holds no descriptors yet.
JustMade(m) == m \in ImplSet /\ ModelFits(m) /\ m.inputs = {} /\ m.outputs = {}

\* Where the parts of a sequence put together from two, and from five, are found again.
LEMMA Joined ==
  ASSUME NEW S, NEW s \in Seq(S), NEW t \in Seq(S)
  PROVE  /\ s \o t \in Seq(S) /\ Len(s \o t) = Len(s) + Len(t) /\ Len(t) \in Nat /\ Len(s) \in Nat
         /\ \A i \in 1 .. Len(s) : (s \o t)[i] = s[i]
         /\ \A i \in 1 .. Len(t) : (s \o t)[Len(s) + i] = t[i]
<1> DEFINE x == s \o t
<1>1. x \in Seq(S) /\ Len(x) = Len(s) + Len(t)
      /\ (\A i \in 1 .. Len(s) + Len(t) : x[i] = IF i <= Len(s) THEN s[i] ELSE t[i - Len(s)])
  BY ConcatProperties
<1> HIDE DEF x
<1>2. Len(t) \in Nat /\ Len(s) \in Nat
  OBVIOUS
<1>3. ASSUME NEW i \in 1 .. Len(t) PROVE x[Len(s) + i] = t[i]
  <2>1. Len(s) + i \in 1 .. Len(s) + Len(t) /\ ~(Len(s) + i <= Len(s)) /\ (Len(s) + i) - Len(s) = i
    BY <1>2
  <2> QED BY <1>1, <2>1
<1>4. \A i \in 1 .. Len(s) : x[i] = s[i]
  BY <1>1, <1>2
<1> QED BY <1>1, <1>2, <1>3, <1>4 DEF x

\* The elements of a sequence from one place on are those of another.
LEMMA Slice ==
  ASSUME NEW S, NEW b \in Seq(S), NEW t \in Seq(S), NEW n \in Nat, n + Len(t) <= Len(b),
         \A i \in 1 .. Len(t) : b[n + i] = t[i]
  PROVE  SubSeq(b, n + 1, n + Len(t)) = t
<1>1. Len(t) \in Nat /\ Len(b) \in Nat
  OBVIOUS
<1>2. \A i \in n + 1 .. n + Len(t) : b[i] \in S
  BY <1>1, ElementOfSeq
<1>3. /\ SubSeq(b, n + 1, n + Len(t)) \in Seq(S) /\ Len(SubSeq(b, n + 1, n + Len(t))) = Len(t)
      /\ \A i \in 1 .. Len(t) : SubSeq(b, n + 1, n + Len(t))[i] = b[n + i]
  BY <1>1, <1>2, SubSeqProperties
<1> QED BY <1>3, SeqEqual

\* b is h, t, l, v and m in this order.
InParts(S, b, h, t, l, v, m) ==
  /\ b \in Seq(S) /\ Len(b) = 4 + Len(t) + Len(v) + Len(m)
  /\ b[1] = h[1] /\ b[3] = h[3] /\ b[Len(t) + 4] = l[1]
  /\ SubSeq(b, 3 + 1, 3 + Len(t)) = t
  /\ SubSeq(b, (Len(t) + 4) + 1, (Len(t) + 4) + Len(v)) = v
  /\ SubSeq(b, (Len(t) + 4 + Len(v)) + 1, (Len(t) + 4 + Len(v)) + Len(m)) = m

LEMMA Parts ==
  ASSUME NEW S, NEW h \in Seq(S), NEW t \in Seq(S), NEW l \in Seq(S), NEW v \in Seq(S), NEW m \in Seq(S)
  PROVE  Len(h) = 3 /\ Len(l) = 1 => InParts(S, (((h \o t) \o l) \o v) \o m, h, t, l, v, m)
<1> DEFINE x == h \o t
           y == x \o l
           z == y \o v
           b == z \o m
<1>0. Len(t) \in Nat /\ Len(v) \in Nat /\ Len(m) \in Nat
  OBVIOUS
<1>1. /\ x \in Seq(S) /\ Len(x) = Len(h) + Len(t)
      /\ \A i \in 1 .. Len(h) : x[i] = h[i]
      /\ \A i \in 1 .. Len(t) : x[Len(h) + i] = t[i]
  <2>1. x \in Seq(S) /\ Len(x) = Len(h) + Len(t)
    BY Joined
  <2>2. \A i \in 1 .. Len(h) : x[i] = h[i]
    BY Joined
  <2>3. \A i \in 1 .. Len(t) : x[Len(h) + i] = t[i]
    BY Joined
  <2> QED BY <2>1, <2>2, <2>3
<1> HIDE DEF x
<1>2. /\ y \in Seq(S) /\ Len(y) = Len(x) + Len(l)
      /\ \A i \in 1 .. Len(x) : y[i] = x[i]
      /\ \A i \in 1 .. Len(l) : y[Len(x) + i] = l[i]
  <2>1. y \in Seq(S) /\ Len(y) = Len(x) + Len(l)
    BY <1>1, Joined
  <2>2. \A i \in 1 .. Len(x) : y[i] = x[i]
    BY <1>1, Joined
  <2>3. \A i \in 1 .. Len(l) : y[Len(x) + i] = l[i]
    BY <1>1, Joined
  <2> QED BY <2>1, <2>2, <2>3
<1> HIDE DEF y
<1>3. /\ z \in Seq(S) /\ Len(z) = Len(y) + Len(v)
      /\ \A i \in 1 .. Len(y) : z[i] = y[i]
      /\ \A i \in 1 .. Len(v) : z[Len(y) + i] = v[i]
  <2>1. z \in Seq(S) /\ Len(z) = Len(y) + Len(v)
    BY <1>2, Joined
  <2>2. \A i \in 1 .. Len(y) : z[i] = y[i]
    BY <1>2, Joined
  <2>3. \A i \in 1 .. Len(v) : z[Len(y) + i] = v[i]
    BY <1>2, Joined
  <2> QED BY <2>1, <2>2, <2>3
<1> HIDE DEF z
<1>4. /\ b \in Seq(S) /\ Len(b) = Len(z) + Len(m)
      /\ \A i \in 1 .. Len(z) : b[i] = z[i]
      /\ \A i \in 1 .. Len(m) : b[Len(z) + i] = m[i]
  <2>1. b \in Seq(S) /\ Len(b) = Len(z) + Len(m)
    BY <1>3, Joined
  <2>2. \A i \in 1 .. Len(z) : b[i] = z[i]
    BY <1>3, Joined
  <2>3. \A i \in 1 .. Len(m) : b[Len(z) + i] = m[i]
    BY <1>3, Joined
  <2> QED BY <2>1, <2>2, <2>3
<1> HIDE DEF b
<1> SUFFICES ASSUME Len(h) = 3, Len(l) = 1 PROVE InParts(S, b, h, t, l, v, m)
  BY DEF b, z, y, x
<1>5. Len(x) = 3 + Len(t) /\ Len(y) = Len(t) + 4 /\ Len(z) = Len(t) + 4 + Len(v) /\ Len(b) = Len(t) + 4 + Len(v) + Len(m)
  BY <1>0, <1>1, <1>2, <1>3, <1>4
<1>6. b[1] = h[1] /\ b[3] = h[3]
  BY <1>0, <1>1, <1>2, <1>3, <1>4, <1>5
<1>7. b[Len(t) + 4] = l[1]
  <2>1. y[Len(x) + 1] = l[1] /\ Len(x) + 1 = Len(t) + 4
    BY <1>0, <1>2, <1>5
  <2>2. z[Len(t) + 4] = y[Len(t) + 4]
    BY <1>0, <1>3, <1>5
  <2>3. b[Len(t) + 4] = z[Len(t) + 4]
    BY <1>0, <1>4, <1>5
  <2> QED BY <2>1, <2>2, <2>3
<1>8. SubSeq(b, 3 + 1, 3 + Len(t)) = t
  <2> DEFINE n == 3
  <2>1. \A i \in 1 .. Len(t) : b[3 + i] = t[i]
    <3> SUFFICES ASSUME NEW i \in 1 .. Len(t) PROVE b[3 + i] = t[i]
      OBVIOUS
    <3>1. x[3 + i] = t[i]
      BY <1>1
    <3>2. y[3 + i] = x[3 + i]
      BY <1>0, <1>2, <1>5
    <3>3. z[3 + i] = y[3 + i]
      BY <1>0, <1>3, <1>5
    <3>4. b[3 + i] = z[3 + i]
      BY <1>0, <1>4, <1>5
    <3> QED BY <3>1, <3>2, <3>3, <3>4
  <2>2. n \in Nat /\ n + Len(t) <= Len(b) /\ (\A i \in 1 .. Len(t) : b[n + i] = t[i])
    BY <1>0, <1>5, <2>1
  <2> HIDE DEF n
  <2>3. SubSeq(b, n + 1, n + Len(t)) = t
    BY <1>4, <2>2, Slice
  <2> QED BY <2>3 DEF n
<1>9. SubSeq(b, (Len(t) + 4) + 1, (Len(t) + 4) + Len(v)) = v
  <2> DEFINE n == Len(t) + 4
  <2>1. n \in Nat /\ n + Len(v) <= Len(b) /\ n = Len(y) /\ Len(z) = n + Len(v)
    BY <1>0, <1>5
  <2> HIDE DEF n
  <2>2. \A i \in 1 .. Len(v) : b[n + i] = v[i]
    BY <1>0, <1>3, <1>4, <2>1
  <2>3. SubSeq(b, n + 1, n + Len(v)) = v
    BY <1>4, <2>1, <2>2, Slice
  <2> QED BY <2>3 DEF n
<1>10. SubSeq(b, (Len(t) + 4 + Len(v)) + 1, (Len(t) + 4 + Len(v)) + Len(m)) = m
  <2> DEFINE n == Len(t) + 4 + Len(v)
  <2>1. n \in Nat /\ n + Len(m) <= Len(b) /\ n = Len(z)
    BY <1>0, <1>5
  <2> HIDE DEF n
  <2>2. \A i \in 1 .. Len(m) : b[n + i] = m[i]
    BY <1>4, <2>1
  <2>3. SubSeq(b, n + 1, n + Len(m)) = m
    BY <1>4, <2>1, <2>2, Slice
  <2> QED BY <2>3 DEF n
<1>11. b \in Seq(S) /\ Len(b) = 4 + Len(t) + Len(v) + Len(m)
  BY <1>0, <1>4, <1>5
<1> QED BY <1>6, <1>7, <1>8, <1>9, <1>10, <1>11 DEF InParts

LEMMA Sums == \A a, b \in Nat : a + b \in Nat
  OBVIOUS

LEMMA CellsTyped ==
  /\ Models!Tag \in Cell /\ \A n \in Nat : Models!Int(n) \in Cell
  /\ \A a, b, c \in Cell : <<a, b, c>> \in Seq(Cell) /\ Len(<<a, b, c>>) = 3
  /\ \A a \in Cell : <<a>> \in Seq(Cell) /\ Len(<<a>>) = 1
<1>1. Models!Tag \in Cell /\ \A n \in Nat : Models!Int(n) \in Cell
  <2>1. "CUST" \in CellKinds /\ "int" \in CellKinds /\ 0 \in Nat
    BY DEF CellKinds
  <2>2. \A x \in CellKinds, n \in Nat : <<x, n>> \in CellKinds \X Nat
    OBVIOUS
  <2> QED BY <2>1, <2>2, Zenon DEF Cell, Models!Tag, Models!Int
<1>2. \A a, b, c \in Cell : <<a, b, c>> \in Seq(Cell) /\ Len(<<a, b, c>>) = 3
  OBVIOUS
<1>3. \A a \in Cell : <<a>> \in Seq(Cell) /\ Len(<<a>>) = 1
  OBVIOUS
<1> QED BY <1>1, <1>2, <1>3

\* What WriteCustomDataToFile and SaveCustomDataToBuffer put in front of a model.
LEMMA CellsForm ==
  ASSUME NEW c \in CustomData
  PROVE  /\ Models!CustomCells(c) \in Bytes /\ Models!Prefix(c) \in Bytes
         /\ c.type \in Bytes /\ c.value \in Bytes /\ c = [type |-> c.type, value |-> c.value]
         /\ Len(Models!CustomCells(c)) >= 4
<1> DEFINE h == <<Models!Tag, Models!Int(Len(c.type) + Len(c.value)), Models!Int(Len(c.type))>>
           l == <<Models!Int(Len(c.value))>>
<1>1. c.type \in Bytes /\ c.value \in Bytes /\ c = [type |-> c.type, value |-> c.value]
  BY DEF CustomData, Bytes
<1>2. Len(c.type) \in Nat /\ Len(c.value) \in Nat
  BY <1>1 DEF Bytes
<1>3. h \in Bytes /\ Len(h) = 3 /\ l \in Bytes /\ Len(l) = 1
  <2>1. Len(c.type) + Len(c.value) \in Nat
    BY <1>2, Sums
  <2> QED BY <1>2, <2>1, CellsTyped DEF Bytes
<1>4. Models!CustomCells(c) = ((h \o c.type) \o l) \o c.value
  BY DEF Models!CustomCells
<1> HIDE DEF h, l
<1>5. Models!CustomCells(c) \in Bytes /\ Len(Models!CustomCells(c)) >= 4
  <2> DEFINE t == c.type
             v == c.value
             x == h \o t
             y == x \o l
             z == y \o v
  <2>1. t \in Bytes /\ v \in Bytes /\ Len(t) \in Nat /\ Len(v) \in Nat
    BY <1>1, <1>2
  <2> HIDE DEF t, v
  <2>2. x \in Bytes /\ Len(x) = Len(h) + Len(t)
    BY <1>3, <2>1, ConcatProperties DEF Bytes
  <2> HIDE DEF x
  <2>3. y \in Bytes /\ Len(y) = Len(x) + Len(l)
    BY <1>3, <2>2, ConcatProperties DEF Bytes
  <2> HIDE DEF y
  <2>4. z \in Bytes /\ Len(z) = Len(y) + Len(v)
    BY <2>1, <2>3, ConcatProperties DEF Bytes
  <2>5. Models!CustomCells(c) = z
    BY <1>4 DEF z, y, x, t, v
  <2> HIDE DEF z
  <2> QED BY <1>3, <2>1, <2>2, <2>3, <2>4, <2>5
<1>6. Models!Prefix(c) \in Bytes
  BY <1>5 DEF Models!Prefix, Bytes
<1> QED BY <1>1, <1>5, <1>6

\* SplitCustomData finds the type, the value and the model that were put together.
LEMMA SplitBack ==
  ASSUME NEW c \in CustomData, NEW m \in Bytes, c.type # <<>>, c.value # <<>>
  PROVE  Models!GetModelData(Models!CustomCells(c) \o m, Models!NoCustom) = [data |-> m, custom |-> c]
<1> DEFINE h == <<Models!Tag, Models!Int(Len(c.type) + Len(c.value)), Models!Int(Len(c.type))>>
           l == <<Models!Int(Len(c.value))>>
           t == c.type
           v == c.value
           b == (((h \o t) \o l) \o v) \o m
<1>1. t \in Seq(Cell) /\ v \in Seq(Cell) /\ m \in Seq(Cell) /\ t # <<>> /\ v # <<>> /\ c = [type |-> t, value |-> v]
  BY CellsForm DEF Bytes
<1>2. Len(t) \in Nat /\ Len(v) \in Nat /\ Len(t) > 0 /\ Len(v) > 0 /\ Len(m) \in Nat
  BY <1>1
<1>3. h \in Seq(Cell) /\ Len(h) = 3 /\ l \in Seq(Cell) /\ Len(l) = 1
  <2>1. Len(t) + Len(v) \in Nat
    BY <1>2, Sums
  <2> QED BY <1>2, <2>1, CellsTyped
<1>4. h[1] = Models!Tag /\ h[3][2] = Len(t) /\ l[1][2] = Len(v)
  BY <1>2 DEF Models!Int
<1>5. Models!CustomCells(c) \o m = b
  BY DEF Models!CustomCells
<1> HIDE DEF h, l, t, v
<1>6. /\ b \in Seq(Cell) /\ Len(b) = 4 + Len(t) + Len(v) + Len(m)
      /\ b[1] = h[1] /\ b[3] = h[3] /\ b[Len(t) + 4] = l[1]
      /\ SubSeq(b, 3 + 1, 3 + Len(t)) = t
      /\ SubSeq(b, (Len(t) + 4) + 1, (Len(t) + 4) + Len(v)) = v
      /\ SubSeq(b, (Len(t) + 4 + Len(v)) + 1, (Len(t) + 4 + Len(v)) + Len(m)) = m
  <2>1. InParts(Cell, b, h, t, l, v, m)
    BY <1>1, <1>3, Parts
  <2> QED BY <2>1 DEF InParts
<1> HIDE DEF b
<1>7. b[1] = Models!Tag /\ b[3][2] = Len(t) /\ b[Len(t) + 4][2] = Len(v)
  BY <1>4, <1>6
<1>8. /\ SubSeq(b, 4, (Len(t) + 4) - 1) = t
      /\ SubSeq(b, (Len(t) + 4) + 1, (Len(t) + 4) + Len(v)) = v
      /\ SubSeq(b, (Len(t) + 4) + Len(v) + 1, Len(b)) = m
  <2>1. (Len(t) + 4) - 1 = 3 + Len(t) /\ 3 + 1 = 4 /\ Len(b) = (Len(t) + 4 + Len(v)) + Len(m)
    BY <1>2, <1>6
  <2> QED BY <1>6, <2>1
<1>9. /\ Len(b) >= 3 /\ Len(t) > 0 /\ Len(b) >= (Len(t) + 4) - 1
      /\ Len(b) >= Len(t) + 4 /\ Len(v) > 0 /\ Len(b) >= (Len(t) + 4) + Len(v) /\ ~(Len(b) <= 1)
  BY <1>2, <1>6
<1>10. [[Models!NoCustom EXCEPT !.type = t] EXCEPT !.value = v] = c
  <2> DEFINE typed == [Models!NoCustom EXCEPT !.type = t]
  <2>1. typed = [type |-> t, value |-> <<>>]
    BY DEF Models!NoCustom
  <2> HIDE DEF typed
  <2>2. [typed EXCEPT !.value = v] = [type |-> t, value |-> v]
    BY <2>1
  <2> QED BY <1>1, <2>2 DEF typed
<1>11. Models!SplitCustomData(b, Models!NoCustom) = [data |-> m, custom |-> c]
  BY <1>7, <1>8, <1>9, <1>10, Zenon DEF Models!SplitCustomData
<1> QED BY <1>5, <1>7, <1>9, <1>11 DEF Models!GetModelData

\* Reading the custom data back gives cells, whatever the buffer is.
LEMMA SubBytes ==
  ASSUME NEW b \in Bytes, NEW i \in Nat, NEW j \in Int, i >= 1, j <= Len(b)
  PROVE  SubSeq(b, i, j) \in Bytes
<1>1. Len(b) \in Nat
  BY DEF Bytes
<1>2. \A k \in i .. j : b[k] \in Cell
  BY <1>1, ElementOfSeq DEF Bytes
<1> QED BY <1>2, SubSeqProperties DEF Bytes

LEMMA CellNumber == ASSUME NEW b \in Bytes, NEW i \in Nat, i >= 1, i <= Len(b) PROVE b[i] \in Cell /\ b[i][2] \in Nat
<1>1. Len(b) \in Nat
  BY DEF Bytes
<1>2. b[i] \in Cell
  BY <1>1, ElementOfSeq DEF Bytes
<1> QED BY <1>2 DEF Cell

Read(d) == d.data \in Bytes /\ d.custom \in CustomData

LEMMA SplitRead ==
  ASSUME NEW b \in Bytes, NEW c \in CustomData PROVE Read(Models!GetModelData(b, c))
<1> DEFINE typeLen == b[3][2]
           off == typeLen + 4
           typed == [c EXCEPT !.type = SubSeq(b, 4, off - 1)]
           valueLen == b[off][2]
           both == [typed EXCEPT !.value = SubSeq(b, off + 1, off + valueLen)]
           rest == SubSeq(b, off + valueLen + 1, Len(b))
           hasType == Len(b) >= 3 /\ typeLen > 0 /\ Len(b) >= off - 1
           hasValue == Len(b) >= off /\ valueLen > 0 /\ Len(b) >= off + valueLen
           d == Models!SplitCustomData(b, c)
<1>1. d = IF ~hasType THEN [data |-> <<>>, custom |-> c]
          ELSE IF ~hasValue THEN [data |-> <<>>, custom |-> typed]
          ELSE [data |-> rest, custom |-> both]
  BY Zenon DEF Models!SplitCustomData
<1>2. Len(b) \in Nat /\ <<>> \in Bytes
  BY DEF Bytes
<1>3. ASSUME hasType PROVE typeLen \in Nat /\ off \in Nat /\ off >= 4 /\ typed \in CustomData
  <2>1. typeLen \in Nat
    BY <1>3, <1>2, CellNumber
  <2>2. off \in Nat /\ off >= 4 /\ off - 1 \in Int /\ off - 1 <= Len(b)
    BY <1>3, <1>2, <2>1
  <2> DEFINE k == 4
  <2>3. SubSeq(b, k, off - 1) \in Bytes
    <3>1. k \in Nat /\ k >= 1
      OBVIOUS
    <3> HIDE DEF k
    <3> QED BY <2>2, <3>1, SubBytes
  <2> DEFINE s == SubSeq(b, 4, off - 1)
  <2> HIDE DEF s
  <2>4. [c EXCEPT !.type = s] \in CustomData
    BY <2>3 DEF s, CustomData, Bytes
  <2> QED BY <2>1, <2>2, <2>4 DEF s
<1>4. ASSUME hasType, hasValue PROVE both \in CustomData /\ rest \in Bytes
  <2>1. off \in Nat /\ off >= 4 /\ typed \in CustomData
    BY <1>3, <1>4
  <2> HIDE DEF off, typed
  <2>2. valueLen \in Nat
    BY <1>4, <1>2, <2>1, CellNumber
  <2> HIDE DEF valueLen
  <2>3. off + 1 \in Nat /\ off + valueLen \in Int /\ off + 1 >= 1 /\ off + valueLen + 1 \in Nat /\ off + valueLen + 1 >= 1
    BY <2>1, <2>2
  <2>4. SubSeq(b, off + 1, off + valueLen) \in Bytes
    BY <1>4, <2>3, SubBytes
  <2>5. rest \in Bytes
    BY <1>2, <2>3, SubBytes
  <2> DEFINE s == SubSeq(b, off + 1, off + valueLen)
  <2> HIDE DEF s
  <2>6. [typed EXCEPT !.value = s] \in CustomData
    BY <2>1, <2>4 DEF s, CustomData, Bytes
  <2> QED BY <2>5, <2>6 DEF s
<1>5. Read(d)
  <2> HIDE DEF d, rest, both, typed, hasType, hasValue
  <2> QED BY <1>1, <1>2, <1>3, <1>4 DEF Read
<1>6. Read([data |-> <<>>, custom |-> c]) /\ Read([data |-> b, custom |-> c])
  BY <1>2 DEF Read
<1> QED BY <1>5, <1>6 DEF Models!GetModelData

LEMMA NoCustomTyped == Models!NoCustom \in CustomData
  BY DEF Models!NoCustom, CustomData

LEMMA FoundCustom ==
  ASSUME NEW b \in Bytes, NEW len \in Nat, NEW c \in Models!GetCustomData(b, len) PROVE c \in CustomData
<1> DEFINE at == Len(b) - len + 3
           typeLen == b[at][2]
           valueAt == at + typeLen + 1
           valueLen == b[valueAt][2]
           inside == at >= 1 /\ valueAt <= Len(b) /\ valueAt + valueLen <= Len(b)
           t == SubSeq(b, at + 1, valueAt - 1)
           v == SubSeq(b, valueAt + 1, valueAt + valueLen)
<1>1. c \in IF at > Len(b) THEN {} ELSE IF inside THEN {[type |-> t, value |-> v]} ELSE Customs \cup {Models!NoCustom}
  BY Zenon DEF Models!GetCustomData
<1>2. Len(b) \in Nat /\ at \in Int
  BY DEF Bytes
<1>3. ASSUME ~(at > Len(b)), inside PROVE t \in Bytes /\ v \in Bytes
  <2>1. at \in Nat /\ at >= 1 /\ at <= Len(b)
    BY <1>2, <1>3
  <2> HIDE DEF at
  <2>2. typeLen \in Nat
    BY <2>1, CellNumber
  <2> HIDE DEF typeLen
  <2>3. valueAt \in Nat /\ valueAt >= 1 /\ valueAt <= Len(b)
    BY <1>3, <2>1, <2>2
  <2>4. at + 1 \in Nat /\ at + 1 >= 1 /\ valueAt - 1 \in Int /\ valueAt - 1 <= Len(b)
    BY <1>2, <2>1, <2>3
  <2> HIDE DEF valueAt
  <2>5. valueLen \in Nat
    BY <2>3, CellNumber
  <2> HIDE DEF valueLen
  <2>6. valueAt + 1 \in Nat /\ valueAt + 1 >= 1 /\ valueAt + valueLen \in Int /\ valueAt + valueLen <= Len(b)
    BY <1>3, <2>3, <2>5
  <2> QED BY <2>4, <2>6, SubBytes
<1> HIDE DEF at, inside, t, v
<1>4. CASE at > Len(b)
  BY <1>1, <1>4
<1>5. CASE ~(at > Len(b)) /\ inside
  BY <1>1, <1>3, <1>5 DEF CustomData, Bytes
<1>6. CASE ~(at > Len(b)) /\ ~inside
  BY <1>1, <1>6, NoCustomTyped, ModelsAssumption
<1> QED BY <1>4, <1>5, <1>6

LEMMA CompatibleRead ==
  ASSUME NEW b \in Bytes, NEW m \in Models!MakeCompatibleBuffer(b) PROVE Read(m)
<1> DEFINE split == Models!GetModelData(b, Models!NoCustom)
           type == Models!GetModelType(b)
           found == Models!GetCustomData(b, b[2][2])
           plain == split.data # b \/ type \notin {"STANDARD_IR_GRAPH", "HCS_PARTITION"} \/ b[2][2] = 0
<1>1. m \in IF plain THEN {split} ELSE IF found = {} THEN {[data |-> <<>>, custom |-> Models!NoCustom]}
            ELSE {[data |-> b, custom |-> c] : c \in found}
  BY Zenon DEF Models!MakeCompatibleBuffer
<1>2. Read(split)
  BY SplitRead, NoCustomTyped
<1>3. Read([data |-> <<>>, custom |-> Models!NoCustom])
  BY NoCustomTyped DEF Read, Bytes
<1>4. ASSUME ~plain, NEW c \in found PROVE Read([data |-> b, custom |-> c])
  <2>1. type # "IR_API_GRAPH"
    BY <1>4
  <2>2. Len(b) >= 2 /\ Len(b) \in Nat
    BY <2>1 DEF Models!GetModelType, Models!HeaderSize, Bytes
  <2>3. b[2][2] \in Nat
    BY <2>2, CellNumber
  <2>4. c \in CustomData
    BY <1>4, <2>3, FoundCustom
  <2> QED BY <2>4 DEF Read
<1> HIDE DEF plain, split, found
<1> QED BY <1>1, <1>2, <1>3, <1>4

\* What the runtime makes of a buffer: nothing, or a model long enough for its header.
LEMMA MadeOf ==
  ASSUME NEW b \in Bytes, Len(b) >= 2 PROVE JustMade(Models!DirectBuiltModel(b, Models!NoName))
<1> DEFINE m == Models!DirectBuiltModel(b, Models!NoName)
<1>1. m = [made |-> TRUE, buffer |-> b, file |-> "", inputs |-> {}, outputs |-> {}]
  BY Zenon DEF Models!DirectBuiltModel, Models!NoName
<1> HIDE DEF m
<1>2. m.made = TRUE /\ m.buffer = b /\ m.file = "" /\ m.inputs = {} /\ m.outputs = {}
  BY <1>1
<1>3. m \in ImplSet
  BY <1>1 DEF ImplSet
<1>4. ModelFits(m)
  BY <1>2 DEF ModelFits, Long
<1>5. JustMade(m)
  BY <1>2, <1>3, <1>4 DEF JustMade
<1> QED BY <1>5 DEF m

LEMMA CompatibleFits ==
  ASSUME NEW b \in Bytes, NEW c \in Models!Compatible(b), c # <<>> PROVE c \in Bytes /\ (Len(b) >= 2 => Len(c) >= 2)
<1>1. Models!Rewritten \in Cell
  <2>1. "rewritten" \in CellKinds /\ 0 \in Nat
    BY DEF CellKinds
  <2>2. \A x \in CellKinds, n \in Nat : <<x, n>> \in CellKinds \X Nat
    OBVIOUS
  <2> QED BY <2>1, <2>2, Zenon DEF Cell, Models!Rewritten
<1>2. c = b \/ c = Append(b, Models!Rewritten)
  BY DEF Models!Compatible
<1> DEFINE r == Models!Rewritten
<1> HIDE DEF r
<1>3. Append(b, r) \in Bytes /\ Len(Append(b, r)) = Len(b) + 1 /\ Len(b) \in Nat
  BY <1>1 DEF Bytes, r
<1>4. CASE c = b
  BY <1>4
<1>5. CASE c = Append(b, r)
  BY <1>3, <1>5
<1> QED BY <1>2, <1>4, <1>5 DEF r

LEMMA RestoreMakes ==
  ASSUME NEW b \in Bytes, NEW m \in Models!DirectRestore(b) PROVE m = Models!NoImpl \/ JustMade(m)
<1>1. CASE b = <<>> \/ Models!GetModelType(b) = "IR_API_GRAPH"
  BY <1>1 DEF Models!DirectRestore
<1>2. CASE ~(b = <<>> \/ Models!GetModelType(b) = "IR_API_GRAPH")
  <2>1. Len(b) >= 2
    BY <1>2 DEF Models!GetModelType, Models!HeaderSize
  <2>2. PICK c \in Models!Compatible(b) :
          m = IF c = <<>> THEN Models!NoImpl ELSE Models!DirectBuiltModel(c, Models!NoName)
    BY <1>2, Zenon DEF Models!DirectRestore
  <2>3. CASE c = <<>>
    BY <2>2, <2>3
  <2>4. CASE c # <<>>
    <3>1. c \in Bytes /\ Len(c) >= 2
      BY <2>1, <2>2, <2>4, CompatibleFits
    <3>2. JustMade(Models!DirectBuiltModel(c, Models!NoName))
      BY <3>1, MadeOf
    <3> QED BY <2>2, <2>4, <3>2
  <2> QED BY <2>3, <2>4
<1> QED BY <1>1, <1>2

LEMMA NoFileIsNone == Models!NoFile \notin Bytes /\ Models!NoFile # <<>>
<1>1. Models!NoFile[1] = <<"nofile", 0>> /\ Len(Models!NoFile) = 1
  BY DEF Models!NoFile
<1>2. ASSUME Models!NoFile \in Bytes PROVE FALSE
  <2>1. Models!NoFile[1] \in Cell
    BY <1>1, <1>2 DEF Bytes
  <2>2. Models!NoFile[1][1] \in CellKinds
    BY <2>1 DEF Cell
  <2>3. Models!NoFile[1][1] = "nofile"
    BY <1>1
  <2> QED BY <2>2, <2>3 DEF CellKinds, Models!ModelTypes
<1> QED BY <1>1, <1>2

LEMMA BufferOfFile == ASSUME ObjectsFit, NEW f \in Files PROVE Models!LoadToBuffer(f) \in Bytes
<1>1. files[f] \in Bytes \cup {Models!NoFile} /\ <<>> \in Bytes
  BY DEF ObjectsFit, Bytes
<1> QED BY <1>1 DEF Models!LoadToBuffer

LEMMA FileMakes ==
  ASSUME ObjectsFit, NEW f \in Files, NEW m \in Models!DirectRestoreFromFile(f)
  PROVE  m = Models!NoImpl \/ JustMade(m)
<1>1. CASE Models!TypeOfFile(f) = "unreadable"
  BY <1>1 DEF Models!DirectRestoreFromFile
<1>2. CASE Models!TypeOfFile(f) = "HCS_PARTITION"
  <2>1. m = Models!DirectBuiltModel(<<>>, f)
    BY <1>2 DEF Models!DirectRestoreFromFile
  <2>2. m = [made |-> TRUE, buffer |-> <<>>, file |-> f, inputs |-> {}, outputs |-> {}]
    BY <2>1, Zenon DEF Models!DirectBuiltModel
  <2>3. m.made = TRUE /\ m.buffer = <<>> /\ m.file = f /\ m.inputs = {} /\ m.outputs = {}
    BY <2>2
  <2>4. files[f] # Models!NoFile /\ Len(files[f]) >= 2
    <3>1. files[f] # Models!NoFile /\ Len(files[f]) > 2
      BY <1>2 DEF Models!TypeOfFile, Models!HeaderSize
    <3>2. files[f] \in Bytes
      BY <3>1 DEF ObjectsFit
    <3>3. Len(files[f]) \in Nat
      BY <3>2 DEF Bytes
    <3> QED BY <3>1, <3>3
  <2>5. m \in ImplSet
    <3>1. <<>> \in Bytes
      BY DEF Bytes
    <3> QED BY <2>2, <3>1 DEF ImplSet
  <2>6. ModelFits(m)
    BY <2>3, <2>4 DEF ModelFits, Long
  <2> QED BY <2>3, <2>5, <2>6 DEF JustMade
<1>3. CASE Models!TypeOfFile(f) # "unreadable" /\ Models!TypeOfFile(f) # "HCS_PARTITION"
  <2>1. m \in Models!DirectRestore(Models!LoadToBuffer(f))
    BY <1>3 DEF Models!DirectRestoreFromFile
  <2> QED BY <2>1, BufferOfFile, RestoreMakes
<1> QED BY <1>1, <1>2, <1>3

LEMMA BuildMakes ==
  ASSUME NEW b \in Bytes, NEW o, NEW m \in Models!DirectBuild(b, o) PROVE m = Models!NoImpl \/ JustMade(m)
<1> SUFFICES ASSUME m # Models!NoImpl PROVE JustMade(m)
  OBVIOUS
<1> DEFINE C == IF Models!MayBuild(b, o) THEN Models!Compatible(b) \ {<<>>} ELSE {}
           T == UNION {Models!Compile(c, o) : c \in C}
<1>0. m \in {Models!DirectBuiltModel(t, Models!NoName) : t \in T \ {<<>>}}
  BY DEF Models!DirectBuild
<1> PICK t \in T \ {<<>>} : m = Models!DirectBuiltModel(t, Models!NoName)
  BY <1>0
<1> PICK c \in C : t \in Models!Compile(c, o)
  OBVIOUS
<1>1. c \in Models!Compatible(b) \ {<<>>} /\ t \in Models!Compile(c, o) \ {<<>>} /\ m = Models!DirectBuiltModel(t, Models!NoName)
  OBVIOUS
<1> HIDE DEF C, T
<1>2. c \in Bytes /\ c # <<>>
  BY <1>1, CompatibleFits
<1>3. t = <<<<"HCS_PARTITION", 0>>, <<"customDataLen", 0>>, c[Len(c)]>>
  BY <1>1 DEF Models!Compile
<1>4. c[Len(c)] \in Cell
  <2>1. Len(c) \in Nat /\ Len(c) >= 1
    BY <1>2 DEF Bytes
  <2> QED BY <1>2, <2>1, CellNumber
<1>5. <<"HCS_PARTITION", 0>> \in Cell /\ <<"customDataLen", 0>> \in Cell
  <2>1. "HCS_PARTITION" \in CellKinds /\ "customDataLen" \in CellKinds /\ 0 \in Nat
    BY DEF CellKinds, Models!ModelTypes
  <2>2. \A x \in CellKinds, n \in Nat : <<x, n>> \in CellKinds \X Nat
    OBVIOUS
  <2> QED BY <2>1, <2>2, Zenon DEF Cell
<1>6. t \in Bytes /\ Len(t) >= 2
  <2>1. t \in Bytes /\ Len(t) = 3
    BY <1>3, <1>4, <1>5, CellsTyped, Zenon DEF Bytes
  <2> QED BY <2>1
<1> QED BY <1>1, <1>6, MadeOf

(***************************************************************************)
(* The tensor descriptors of a model, while its three queries run: what    *)
(* was live stays live, and what the model gets was not.                   *)
(***************************************************************************)

\* A direction of q is as it was in m, or new.
Renewed(old, new, live) == new = old \/ (new \cap live = {})
Queried(m, live, q) ==
  /\ q = [impl |-> q.impl, descs |-> q.descs, ok |-> q.ok]
  /\ q.impl \in ImplSet /\ q.impl.buffer = m.buffer /\ q.impl.file = m.file
  /\ live \subseteq q.descs /\ q.impl.inputs \cup q.impl.outputs \subseteq q.descs
  /\ q.impl.inputs \cap q.impl.outputs = {}
  /\ Renewed(m.inputs, q.impl.inputs, live) /\ Renewed(m.outputs, q.impl.outputs, live)

LEMMA FreshDescsNew ==
  ASSUME NEW live, NEW s \in Models!FreshDescs(live) PROVE s \in SUBSET Nat /\ s \cap live = {}
<1>1. PICK d \in (1 .. MaxDescs) \ live : s = {d}
  BY DEF Models!FreshDescs
<1>2. d \in Nat
  BY <1>1
<1> QED BY <1>1, <1>2

\* One direction of a model that is being asked gets new descriptors.
WithInputs(q, s) == [[q EXCEPT !.impl.inputs = s] EXCEPT !.descs = q.descs \cup s]
WithOutputs(q, s) == [[[q EXCEPT !.impl.outputs = s] EXCEPT !.descs = q.descs \cup s] EXCEPT !.ok = TRUE]

LEMMA WithInputsQueried ==
  ASSUME NEW m, NEW live, NEW q, Queried(m, live, q), NEW s \in SUBSET Nat, s \cap q.descs = {}
  PROVE  Queried(m, live, WithInputs(q, s))
<1> DEFINE i == q.impl
           h == WithInputs(q, s)
           j == [i EXCEPT !.inputs = s]
<1>1. /\ q = [impl |-> i, descs |-> q.descs, ok |-> q.ok] /\ i \in ImplSet
      /\ i.buffer = m.buffer /\ i.file = m.file /\ live \subseteq q.descs /\ i.inputs \cup i.outputs \subseteq q.descs
      /\ Renewed(m.outputs, i.outputs, live)
  BY DEF Queried
<1> HIDE DEF i
<1>2. /\ j \in ImplSet /\ j.buffer = i.buffer /\ j.file = i.file /\ j.inputs = s /\ j.outputs = i.outputs
  BY <1>1 DEF ImplSet
<1>3. h = [impl |-> j, descs |-> q.descs \cup s, ok |-> q.ok]
  <2> DEFINE e == [q EXCEPT !.impl.inputs = s]
             d == q.descs \cup s
  <2>1. e = [impl |-> j, descs |-> q.descs, ok |-> q.ok]
    BY <1>1
  <2> HIDE DEF j
  <2>2. h = [e EXCEPT !.descs = d]
    BY DEF WithInputs
  <2> HIDE DEF e, d
  <2>3. h = [impl |-> j, descs |-> d, ok |-> q.ok]
    BY <2>1, <2>2
  <2> QED BY <2>3 DEF d
<1> HIDE DEF h, j
<1>4. h.impl = j /\ h.descs = q.descs \cup s /\ h.ok = q.ok
  BY <1>3
<1>5. s \cap live = {} /\ s \cap i.outputs = {} /\ live \subseteq h.descs /\ j.inputs \cup j.outputs \subseteq h.descs
  BY <1>1, <1>2, <1>4
<1>6. Queried(m, live, h)
  BY <1>1, <1>2, <1>3, <1>4, <1>5 DEF Queried, Renewed
<1> QED BY <1>6 DEF h

LEMMA WithOutputsQueried ==
  ASSUME NEW m, NEW live, NEW q, Queried(m, live, q), NEW s \in SUBSET Nat, s \cap q.descs = {}
  PROVE  Queried(m, live, WithOutputs(q, s))
<1> DEFINE i == q.impl
           h == WithOutputs(q, s)
           j == [i EXCEPT !.outputs = s]
<1>1. /\ q = [impl |-> i, descs |-> q.descs, ok |-> q.ok] /\ i \in ImplSet
      /\ i.buffer = m.buffer /\ i.file = m.file /\ live \subseteq q.descs /\ i.inputs \cup i.outputs \subseteq q.descs
      /\ Renewed(m.inputs, i.inputs, live)
  BY DEF Queried
<1> HIDE DEF i
<1>2. /\ j \in ImplSet /\ j.buffer = i.buffer /\ j.file = i.file /\ j.inputs = i.inputs /\ j.outputs = s
  BY <1>1 DEF ImplSet
<1>3. h = [impl |-> j, descs |-> q.descs \cup s, ok |-> TRUE]
  <2> DEFINE e == [q EXCEPT !.impl.outputs = s]
             d == q.descs \cup s
             f == [e EXCEPT !.descs = d]
  <2>1. e = [impl |-> j, descs |-> q.descs, ok |-> q.ok]
    BY <1>1
  <2> HIDE DEF j
  <2>2. h = [f EXCEPT !.ok = TRUE]
    BY DEF WithOutputs
  <2> HIDE DEF e, d
  <2>3. f = [impl |-> j, descs |-> d, ok |-> q.ok]
    BY <2>1
  <2> HIDE DEF f
  <2>4. h = [impl |-> j, descs |-> d, ok |-> TRUE]
    BY <2>2, <2>3
  <2> QED BY <2>4 DEF d
<1> HIDE DEF h, j
<1>4. h.impl = j /\ h.descs = q.descs \cup s /\ h.ok = TRUE
  BY <1>3
<1>5. s \cap live = {} /\ s \cap i.inputs = {} /\ live \subseteq h.descs /\ j.inputs \cup j.outputs \subseteq h.descs
  BY <1>1, <1>2, <1>4
<1>6. Queried(m, live, h)
  BY <1>1, <1>2, <1>3, <1>4, <1>5 DEF Queried, Renewed
<1> QED BY <1>6 DEF h

LEMMA FormQueried ==
  ASSUME NEW m, NEW live, NEW q, Queried(m, live, q), NEW form, NEW r \in Models!TensorForm(q, form)
  PROVE  Queried(m, live, r)
<1> DEFINE half(in) == [q EXCEPT !.impl.inputs = in, !.descs = @ \union in]
           full(in, out) == [half(in) EXCEPT !.impl.outputs = out, !.descs = @ \union out, !.ok = TRUE]
           after(in) == {half(in)} \union {full(in, out) : out \in Models!FreshDescs(half(in).descs)}
<1>1. r \in IF q.ok \/ form \notin device THEN {q} ELSE {q} \union UNION {after(in) : in \in Models!FreshDescs(q.descs)}
  BY Zenon DEF Models!TensorForm
<1>2. ASSUME NEW in PROVE half(in) = WithInputs(q, in)
  BY Zenon DEF WithInputs
<1>3. ASSUME NEW in, NEW out PROVE full(in, out) = WithOutputs(half(in), out)
  BY Zenon DEF WithOutputs
<1> HIDE DEF half, full
<1>4. ASSUME NEW in \in Models!FreshDescs(q.descs), r \in after(in) PROVE Queried(m, live, r)
  <2>1. Queried(m, live, half(in))
    BY <1>2, FreshDescsNew, WithInputsQueried
  <2>2. CASE r = half(in)
    BY <2>1, <2>2
  <2>3. ASSUME NEW out \in Models!FreshDescs(half(in).descs), r = full(in, out) PROVE Queried(m, live, r)
    <3>1. out \in SUBSET Nat /\ out \cap half(in).descs = {}
      BY <2>3, FreshDescsNew
    <3>2. Queried(m, live, WithOutputs(half(in), out))
      BY <2>1, <3>1, WithOutputsQueried
    <3> QED BY <1>3, <2>3, <3>2
  <2> QED BY <1>4, <2>2, <2>3
<1> HIDE DEF after
<1>5. r = q \/ \E in \in Models!FreshDescs(q.descs) : r \in after(in)
  BY <1>1
<1> QED BY <1>4, <1>5

LEMMA DescQueried ==
  ASSUME NEW m \in ImplSet, NEW live, m.inputs \cup m.outputs \subseteq live, m.inputs \cap m.outputs = {},
         NEW q \in Models!GetIONDTensorDesc(m, live)
  PROVE  Queried(m, live, q)
<1> DEFINE done == [impl |-> m, descs |-> live, ok |-> TRUE]
           start == [impl |-> m, descs |-> live, ok |-> FALSE]
           A == Models!TensorForms({start}, "ndTensorInfo")
           B == Models!TensorForms(A, "tensorInfoV2")
           C == Models!TensorForms(B, "tensorInfo")
<1>1. Queried(m, live, done) /\ Queried(m, live, start)
  BY DEF Queried, Renewed
<1>2. q = done \/ q \in C
  BY DEF Models!GetIONDTensorDesc
<1> HIDE DEF done, start
<1>3. \A r \in A : Queried(m, live, r)
  BY <1>1, FormQueried DEF Models!TensorForms
<1> HIDE DEF A
<1>4. \A r \in B : Queried(m, live, r)
  BY <1>3, FormQueried DEF Models!TensorForms
<1> HIDE DEF B
<1>5. \A r \in C : Queried(m, live, r)
  BY <1>4, FormQueried DEF Models!TensorForms
<1> HIDE DEF C
<1> QED BY <1>1, <1>2, <1>5

(***************************************************************************)
(* The objects: one of them is replaced, the others stay.                  *)
(***************************************************************************)

Uses(o) == IF o.open /\ o.impl.made THEN o.impl.inputs \cup o.impl.outputs ELSE {}
Apart(o) == o.open /\ o.impl.made => o.impl.inputs \cap o.impl.outputs = {}
ObjectFits(o) == o \in ObjectSet \cup {Models!Absent} /\ (o.open => ModelFits(o.impl))
UsedOnce ==
  /\ \A h \in Handles : Uses(models[h]) \subseteq descs /\ Apart(models[h])
  /\ \A h, g \in Handles : h # g => Uses(models[h]) \cap Uses(models[g]) = {}

LEMMA UsedOnceIs == Models!DescsHeldOnce <=> UsedOnce
<1>1. \A h : Models!Held(h) = Uses(models[h])
  BY Zenon DEF Models!Held, Models!Usable, Models!Open, Models!Impl, Uses
<1>2. \A h : Apart(models[h]) <=> (Models!Usable(h) => Models!Impl(h).inputs \cap Models!Impl(h).outputs = {})
  BY Zenon DEF Models!Usable, Models!Open, Models!Impl, Apart
<1>3. Models!DescsHeldOnce <=>
        /\ \A h \in Handles : Uses(models[h]) \subseteq descs /\ Apart(models[h])
        /\ \A h, g \in Handles : h # g => Uses(models[h]) \cap Uses(models[g]) = {}
  BY <1>1, <1>2, Zenon DEF Models!DescsHeldOnce
<1> QED BY <1>3 DEF UsedOnce

LEMMA ObjectsForm ==
  ObjectsFit <=>
    /\ models = [h \in Handles |-> models[h]] /\ \A h \in Handles : ObjectFits(models[h])
    /\ files \in [Files -> Bytes \cup {Models!NoFile}]
    /\ UsedOnce
  BY UsedOnceIs DEF ObjectsFit, ObjectFits

LEMMA ObjectCases ==
  ASSUME NEW o, ObjectFits(o)
  PROVE  \/ o = Models!Absent /\ o.open = FALSE
         \/ /\ o = [open |-> TRUE, impl |-> o.impl, custom |-> o.custom] /\ o.open = TRUE /\ o.custom \in CustomData
            /\ ModelFits(o.impl)
            /\ \/ o.impl = Models!NoImpl /\ o.impl.made = FALSE
               \/ /\ o.impl \in ImplSet /\ o.impl.made = TRUE
                  /\ o.impl = [made |-> TRUE, buffer |-> o.impl.buffer, file |-> o.impl.file,
                               inputs |-> o.impl.inputs, outputs |-> o.impl.outputs]
<1>1. CASE o = Models!Absent
  <2>1. o.open = FALSE
    BY <1>1, Zenon DEF Models!Absent
  <2> QED BY <1>1, <2>1
<1>2. CASE o \in ObjectSet
  <2> DEFINE m == o.impl
  <2>1. /\ o = [open |-> TRUE, impl |-> m, custom |-> o.custom] /\ o.open = TRUE /\ o.custom \in CustomData
        /\ m \in ImplSet \cup {Models!NoImpl}
    BY <1>2 DEF ObjectSet
  <2>2. ModelFits(m)
    BY <2>1 DEF ObjectFits
  <2> HIDE DEF m
  <2>3. CASE m = Models!NoImpl
    <3>1. m.made = FALSE
      BY <2>3, Zenon DEF Models!NoImpl
    <3> QED BY <2>1, <2>2, <2>3, <3>1 DEF m
  <2>4. CASE m \in ImplSet
    <3>1. /\ m.made = TRUE
          /\ m = [made |-> TRUE, buffer |-> m.buffer, file |-> m.file, inputs |-> m.inputs, outputs |-> m.outputs]
      BY <2>4 DEF ImplSet
    <3> QED BY <2>1, <2>2, <2>4, <3>1 DEF m
  <2> QED BY <2>1, <2>3, <2>4
<1> QED BY <1>1, <1>2 DEF ObjectFits

LEMMA FitsSame == ASSUME NEW o, ObjectFits(o), files' = files PROVE ObjectFits(o)'
  BY DEF ObjectFits, ModelFits

LEMMA PutObject ==
  ASSUME ObjectsFit, NEW h \in Handles, NEW o, ObjectFits(o), models' = [models EXCEPT ![h] = o], files' = files,
         Uses(o) \subseteq descs', Apart(o),
         \A g \in Handles \ {h} : Uses(models[g]) \subseteq descs' /\ Uses(models[g]) \cap Uses(o) = {}
  PROVE  ObjectsFit'
<1>1. /\ models = [g \in Handles |-> models[g]] /\ \A g \in Handles : ObjectFits(models[g])
      /\ files \in [Files -> Bytes \cup {Models!NoFile}] /\ UsedOnce
  BY ObjectsForm
<1>2. models' = [g \in Handles |-> models'[g]] /\ models'[h] = o /\ \A g \in Handles \ {h} : models'[g] = models[g]
  BY <1>1
<1>3. ASSUME NEW g \in Handles PROVE ObjectFits(models[g])'
  <2> DEFINE p == models'[g]
  <2>1. p = o \/ p = models[g]
    BY <1>2
  <2>2. p \in ObjectSet \cup {Models!Absent} /\ (p.open => ModelFits(p.impl))
    BY <1>1, <2>1 DEF ObjectFits
  <2> QED BY <2>2 DEF ObjectFits, ModelFits
<1>4. UsedOnce'
  <2>1. ASSUME NEW g \in Handles PROVE Uses(models'[g]) \subseteq descs' /\ Apart(models'[g])
    <3>1. CASE g = h
      BY <1>2, <3>1
    <3>2. CASE g # h
      BY <1>1, <1>2, <3>2 DEF UsedOnce
    <3> QED BY <3>1, <3>2
  <2>2. ASSUME NEW g \in Handles, NEW k \in Handles, g # k PROVE Uses(models'[g]) \cap Uses(models'[k]) = {}
    <3>1. CASE g = h
      BY <1>2, <2>2, <3>1
    <3>2. CASE k = h
      BY <1>2, <2>2, <3>2
    <3>3. CASE g # h /\ k # h
      BY <1>1, <1>2, <2>2, <3>3 DEF UsedOnce
    <3> QED BY <3>1, <3>2, <3>3
  <2> QED BY <2>1, <2>2 DEF UsedOnce, Uses, Apart
<1>5. Models!DescsHeldOnce'
  BY <1>4, UsedOnceIs, PTL
<1>6. (\A g \in Handles : ObjectFits(models[g]))'
  BY <1>3
<1>7. models' \in [Handles -> ObjectSet \cup {Models!Absent}] /\ (\A g \in Handles : models[g].open => ModelFits(models[g].impl))'
  <2>1. \A g \in Handles : models'[g] \in ObjectSet \cup {Models!Absent}
    BY <1>6 DEF ObjectFits
  <2>2. models' \in [Handles -> ObjectSet \cup {Models!Absent}]
    BY <1>2, <2>1
  <2> QED BY <1>6, <2>2, Zenon DEF ObjectFits
<1> QED BY <1>1, <1>5, <1>7 DEF ObjectsFit

LEMMA NewModelForm ==
  ASSUME NEW m \in ImplSet \cup {Models!NoImpl}, ModelFits(m), NEW c \in CustomData
  PROVE  /\ ObjectFits(Models!NewModel(m, c))
         /\ Uses(Models!NewModel(m, c)) = IF m.made THEN m.inputs \cup m.outputs ELSE {}
         /\ Apart(Models!NewModel(m, c)) <=> (m.made => m.inputs \cap m.outputs = {})
<1> DEFINE o == Models!NewModel(m, c)
<1>1. o = [open |-> TRUE, impl |-> m, custom |-> c]
  BY Zenon DEF Models!NewModel
<1> HIDE DEF o
<1>2. o.open = TRUE /\ o.impl = m /\ o.custom = c
  BY <1>1
<1>3. o \in ObjectSet
  BY <1>1 DEF ObjectSet
<1>4. ObjectFits(o)
  BY <1>2, <1>3 DEF ObjectFits
<1>5. Uses(o) = IF m.made THEN m.inputs \cup m.outputs ELSE {}
  BY <1>2, Zenon DEF Uses
<1>6. Apart(o) <=> (m.made => m.inputs \cap m.outputs = {})
  BY <1>2, Zenon DEF Apart
<1> QED BY <1>4, <1>5, <1>6 DEF o

LEMMA OthersApart ==
  ASSUME ObjectsFit, NEW h \in Handles, NEW g \in Handles \ {h}
  PROVE  Uses(models[g]) \subseteq descs /\ Uses(models[g]) \cap Uses(models[h]) = {}
  BY ObjectsForm DEF UsedOnce

LEMMA PutMade ==
  ASSUME ObjectsFit, NEW h \in Handles, NEW m, m = Models!NoImpl \/ JustMade(m), NEW c \in CustomData,
         models' = [models EXCEPT ![h] = Models!NewModel(m, c)], files' = files, descs' = descs
  PROVE  ObjectsFit'
<1> DEFINE o == Models!NewModel(m, c)
<1>1. m \in ImplSet \cup {Models!NoImpl} /\ ModelFits(m) /\ (m.made => m.inputs = {} /\ m.outputs = {})
  <2>1. CASE m = Models!NoImpl
    <3>1. m.made = FALSE
      BY <2>1, Zenon DEF Models!NoImpl
    <3> QED BY <2>1, <3>1 DEF ModelFits
  <2>2. CASE JustMade(m)
    BY <2>2 DEF JustMade
  <2> QED BY <2>1, <2>2
<1>2. ObjectFits(o) /\ Uses(o) = {} /\ Apart(o)
  BY <1>1, NewModelForm
<1> HIDE DEF o
<1>3. models' = [models EXCEPT ![h] = o]
  BY DEF o
<1>4. \A g \in Handles \ {h} : Uses(models[g]) \subseteq descs' /\ Uses(models[g]) \cap Uses(o) = {}
  BY <1>2, OthersApart
<1> QED BY <1>2, <1>3, <1>4, PutObject

\* An object that is open is its implementation and its custom data.
LEMMA OpenForm ==
  ASSUME ObjectsFit, NEW h \in Handles, Models!Open(h)
  PROVE  /\ models[h] = Models!NewModel(models[h].impl, models[h].custom) /\ models[h].custom \in CustomData
         /\ models[h].impl \in ImplSet \cup {Models!NoImpl} /\ ModelFits(models[h].impl)
         /\ models = [g \in Handles |-> models[g]]
<1>1. ObjectFits(models[h]) /\ models = [g \in Handles |-> models[g]]
  BY ObjectsForm
<1> DEFINE o == models[h]
<1>2. o.open
  BY DEF Models!Open
<1> HIDE DEF o
<1>3. ObjectFits(o)
  BY <1>1 DEF o
<1>4. /\ o = [open |-> TRUE, impl |-> o.impl, custom |-> o.custom] /\ o.custom \in CustomData
      /\ ModelFits(o.impl) /\ o.impl \in ImplSet \cup {Models!NoImpl}
  BY <1>2, <1>3, ObjectCases
<1> QED BY <1>1, <1>4 DEF o, Models!NewModel

LEMMA ObjectExcept ==
  ASSUME NEW o, NEW b, NEW i, NEW k, NEW m, NEW c, o = [open |-> b, impl |-> i, custom |-> k]
  PROVE  [o EXCEPT !.impl = m] = [open |-> b, impl |-> m, custom |-> k]
         /\ [o EXCEPT !.custom = c] = [open |-> b, impl |-> i, custom |-> c]
  OBVIOUS

ImplPut(h, m) == [models EXCEPT ![h].impl = m]
CustomPut(h, c) == [models EXCEPT ![h].custom = c]
BothPut(h, m, c) == [models EXCEPT ![h].impl = m, ![h].custom = c]
ModelPut(h, m, c) == [models EXCEPT ![h] = Models!NewModel(m, c)]

LEMMA FieldsPut ==
  ASSUME ObjectsFit, NEW h \in Handles, Models!Open(h), NEW m, NEW c
  PROVE  /\ ImplPut(h, m) = ModelPut(h, m, models[h].custom)
         /\ CustomPut(h, c) = ModelPut(h, models[h].impl, c)
         /\ BothPut(h, m, c) = ModelPut(h, m, c)
<1> DEFINE o == models[h]
           i == o.impl
           k == o.custom
           withImpl == [o EXCEPT !.impl = m]
           both == [withImpl EXCEPT !.custom = c]
<1>1. o = [open |-> TRUE, impl |-> i, custom |-> k] /\ models = [g \in Handles |-> models[g]]
  BY OpenForm DEF Models!NewModel
<1> HIDE DEF i, k
<1>2. withImpl = [open |-> TRUE, impl |-> m, custom |-> k] /\ [o EXCEPT !.custom = c] = [open |-> TRUE, impl |-> i, custom |-> c]
  <2> DEFINE b == TRUE
  <2>1. o = [open |-> b, impl |-> i, custom |-> k]
    BY <1>1
  <2> HIDE DEF o, b
  <2>2. /\ [o EXCEPT !.impl = m] = [open |-> b, impl |-> m, custom |-> k]
        /\ [o EXCEPT !.custom = c] = [open |-> b, impl |-> i, custom |-> c]
    BY <2>1, ObjectExcept
  <2> QED BY <2>2 DEF b
<1>3. both = [open |-> TRUE, impl |-> m, custom |-> c]
  <2> DEFINE b == TRUE
  <2>1. withImpl = [open |-> b, impl |-> m, custom |-> k]
    BY <1>2
  <2> HIDE DEF withImpl, b
  <2>2. [withImpl EXCEPT !.custom = c] = [open |-> b, impl |-> m, custom |-> c]
    BY <2>1, ObjectExcept
  <2> QED BY <2>2 DEF b
<1>4. [models EXCEPT ![h].impl = m] = [models EXCEPT ![h] = withImpl]
  OBVIOUS
<1>5. [models EXCEPT ![h].custom = c] = [models EXCEPT ![h] = [o EXCEPT !.custom = c]]
  OBVIOUS
<1>6. [models EXCEPT ![h].impl = m, ![h].custom = c] = [models EXCEPT ![h] = both]
  <2> DEFINE first == [models EXCEPT ![h].impl = m]
  <2>1. [models EXCEPT ![h].impl = m, ![h].custom = c] = [first EXCEPT ![h].custom = c]
    BY Zenon
  <2>2. first = [g \in Handles |-> IF g = h THEN withImpl ELSE models[g]]
    BY <1>1, <1>4
  <2> HIDE DEF first, withImpl
  <2>3. [first EXCEPT ![h].custom = c] = [g \in Handles |-> IF g = h THEN both ELSE models[g]]
    BY <2>2
  <2> HIDE DEF both
  <2>4. [models EXCEPT ![h] = both] = [g \in Handles |-> IF g = h THEN both ELSE models[g]]
    BY <1>1
  <2> QED BY <2>1, <2>3, <2>4
<1> HIDE DEF withImpl, both
<1>7. [models EXCEPT ![h].impl = m] = [models EXCEPT ![h] = Models!NewModel(m, models[h].custom)]
  BY <1>2, <1>4 DEF Models!NewModel, k
<1>8. [models EXCEPT ![h].custom = c] = [models EXCEPT ![h] = Models!NewModel(models[h].impl, c)]
  BY <1>2, <1>5 DEF Models!NewModel, i
<1>9. [models EXCEPT ![h].impl = m, ![h].custom = c] = [models EXCEPT ![h] = Models!NewModel(m, c)]
  BY <1>3, <1>6 DEF Models!NewModel
<1> QED BY <1>7, <1>8, <1>9, Zenon DEF ImplPut, CustomPut, BothPut, ModelPut

(***************************************************************************)
(* What was saved, and the actions.                                        *)
(***************************************************************************)

LEMMA SavedKeeps == ASSUME SavedFits, saved' = saved, files' = files PROVE SavedFits'
  BY DEF SavedFits, Restorable

LEMMA SavedCases ==
  ASSUME SavedFits
  PROVE  (saved.done => saved.content \in Bytes /\ saved.model \in Bytes /\ saved.custom \in CustomData)
<1>1. CASE saved = Models!NotSaved
  <2>1. saved.done = FALSE
    BY <1>1, Zenon DEF Models!NotSaved
  <2> QED BY <2>1
<1>2. CASE saved \in SavedSet
  BY <1>2 DEF SavedSet
<1> QED BY <1>1, <1>2 DEF SavedFits

LEMMA PrefixBytes ==
  ASSUME NEW c \in CustomData, NEW m \in Bytes, Long(m)
  PROVE  /\ Models!Prefix(c) \o m \in Bytes /\ Long(Models!Prefix(c) \o m)
         /\ Models!Prefix(c) \in Bytes /\ Long(Models!Prefix(c))
         /\ Models!Prefix(c) # <<>> => c.type # <<>>
<1> DEFINE p == Models!Prefix(c)
<1>1. p \in Bytes /\ (p = <<>> \/ Len(p) >= 4) /\ (p # <<>> => c.type # <<>>)
  BY CellsForm DEF Models!Prefix
<1> HIDE DEF p
<1>2. p \o m \in Bytes /\ Len(p \o m) = Len(p) + Len(m) /\ Len(p) \in Nat /\ Len(m) \in Nat
  BY <1>1, ConcatProperties DEF Bytes
<1>3. p = <<>> => p \o m = m
  BY DEF Bytes
<1> QED BY <1>1, <1>2, <1>3 DEF Long, p

LEMMA SavedTyped ==
  ASSUME NEW b \in {TRUE}, NEW p \in Files \cup {"buffer", "external"}, NEW x \in Bytes, NEW c \in CustomData, NEW m \in Bytes
  PROVE  [done |-> b, place |-> p, content |-> x, custom |-> c, model |-> m] \in SavedSet
  BY DEF SavedSet

\* A save to a buffer or to external memory, which hold what was written.
LEMMA SavedPut ==
  ASSUME NEW c \in CustomData, NEW m \in Bytes, m # <<>>, Long(m), NEW place \in {"buffer", "external"},
         NEW s, s = [done |-> TRUE, place |-> place, content |-> Models!Prefix(c) \o m, custom |-> c, model |-> m],
         saved' = s
  PROVE  SavedFits'
<1>1. s.done = TRUE /\ s.place = place /\ s.content = Models!Prefix(c) \o m /\ s.custom = c /\ s.model = m
  BY Zenon
<1>2. Models!Prefix(c) \o m \in Bytes
  BY PrefixBytes
<1>3. s \in SavedSet
  <2> DEFINE x == Models!Prefix(c) \o m
             b == TRUE
  <2>1. x \in Bytes /\ b \in {TRUE} /\ place \in Files \cup {"buffer", "external"}
    BY <1>2
  <2> HIDE DEF x, b
  <2>2. [done |-> b, place |-> place, content |-> x, custom |-> c, model |-> m] \in SavedSet
    BY <2>1, SavedTyped
  <2> QED BY <2>2 DEF x, b
<1>4. place \notin Files
  BY ModelsAssumption
<1> QED BY <1>1, <1>3, <1>4 DEF SavedFits, Restorable

LEMMA CreateModelKeeps == ASSUME ModelsInv, NEW h \in Handles, Models!Create(h) PROVE ModelsInv'
<1>1. /\ models' = [models EXCEPT ![h] = Models!NewModel(Models!NoImpl, Models!NoCustom)]
      /\ files' = files /\ descs' = descs /\ saved' = saved
  BY DEF Models!Create
<1>2. ObjectsFit'
  BY <1>1, PutMade, NoCustomTyped DEF ModelsInv
<1> QED BY <1>1, <1>2, SavedKeeps DEF ModelsInv

LEMMA ReleaseKeeps == ASSUME ModelsInv, NEW h \in Handles, Models!Release(h) PROVE ModelsInv'
<1> DEFINE o == Models!Absent
<1>1. /\ models' = [models EXCEPT ![h] = o] /\ files' = files /\ saved' = saved
      /\ descs' = IF models[h].impl.made THEN descs \ (models[h].impl.inputs \cup models[h].impl.outputs) ELSE descs
      /\ models[h].open
  BY DEF Models!Release, Models!Open, Models!Impl
<1>2. descs' = descs \ Uses(models[h])
  <2>1. CASE models[h].impl.made
    BY <1>1, <2>1 DEF Uses
  <2>2. CASE ~models[h].impl.made
    <3>1. Uses(models[h]) = {}
      BY <2>2, Zenon DEF Uses
    <3> QED BY <1>1, <2>2, <3>1
  <2> QED BY <2>1, <2>2
<1>3. o.open = FALSE
  BY Zenon DEF Models!Absent
<1>4. ObjectFits(o)
  BY <1>3 DEF ObjectFits
<1>5. Uses(o) = {} /\ Apart(o)
  BY <1>3, Zenon DEF Uses, Apart
<1> HIDE DEF o
<1>6. ObjectsFit
  BY DEF ModelsInv
<1>7. \A g \in Handles \ {h} : Uses(models[g]) \subseteq descs' /\ Uses(models[g]) \cap Uses(o) = {}
  BY <1>2, <1>5, <1>6, OthersApart
<1>8. ObjectsFit'
  BY <1>1, <1>4, <1>5, <1>6, <1>7, PutObject
<1> QED BY <1>1, <1>8, SavedKeeps DEF ModelsInv

LEMMA BuildOfKeeps ==
  ASSUME ModelsInv, NEW h \in Handles, NEW b, b = <<>> \/ b \in Bytes, NEW c \in CustomData, NEW o, Models!BuildOf(h, b, c, o)
  PROVE  ModelsInv'
<1>1. PICK m \in IF b = <<>> THEN {Models!NoImpl} ELSE Models!DirectBuild(b, o) :
        /\ models' = IF m.made THEN [models EXCEPT ![h] = Models!NewModel(m, c)] ELSE models
        /\ UNCHANGED <<files, descs, device, saved, output>>
  BY Zenon DEF Models!BuildOf
<1>2. m = Models!NoImpl \/ JustMade(m)
  BY BuildMakes
<1>3. files' = files /\ descs' = descs /\ saved' = saved
  BY <1>1
<1>4. CASE m.made
  <2>1. models' = [models EXCEPT ![h] = Models!NewModel(m, c)]
    BY <1>1, <1>4
  <2>2. ObjectsFit'
    BY <1>2, <1>3, <2>1, PutMade DEF ModelsInv
  <2> QED BY <1>3, <2>2, SavedKeeps DEF ModelsInv
<1>5. CASE ~m.made
  <2>1. models' = models
    BY <1>1, <1>5
  <2>2. ObjectsFit'
    BY <1>3, <2>1 DEF ModelsInv, ObjectsFit, ModelFits, Models!DescsHeldOnce, Models!Held, Models!Usable, Models!Open, Models!Impl
  <2> QED BY <1>3, <2>2, SavedKeeps DEF ModelsInv
<1> QED BY <1>4, <1>5

LEMMA BuildKeeps == ASSUME ModelsInv, NEW h \in Handles, NEW o, Models!Build(h, o) PROVE ModelsInv'
<1>1. PICK b \in Delivered \union {Models!LoadToBuffer(f) : f \in Files} :
        \E m \in Models!MakeCompatibleBuffer(b) : Models!BuildOf(h, m.data, m.custom, o)
  BY DEF Models!Build
<1>2. b \in Bytes
  BY BufferOfFile, ModelsAssumption DEF ModelsInv, Bytes
<1>3. PICK m \in Models!MakeCompatibleBuffer(b) : Models!BuildOf(h, m.data, m.custom, o)
  BY <1>1
<1>4. m.data \in Bytes /\ m.custom \in CustomData
  BY <1>2, CompatibleRead DEF Read
<1> QED BY <1>3, <1>4, BuildOfKeeps

LEMMA IrBuildKeeps ==
  ASSUME ModelsInv, NEW h \in Handles, NEW o, NEW ir \in Delivered, NEW c \in Customs \cup {Models!NoCustom},
         Models!IrBuild(h, ir, c, o)
  PROVE  ModelsInv'
<1>1. ir \in Bytes /\ c \in CustomData /\ Models!BuildOf(h, ir, c, o)
  BY NoCustomTyped, ModelsAssumption DEF Models!IrBuild, Bytes
<1> QED BY <1>1, BuildOfKeeps

LEMMA RestoreWithKeeps ==
  ASSUME ModelsInv, NEW h \in Handles, Models!Open(h), NEW b \in Bytes, Models!RestoreWith(h, b),
         files' = files, descs' = descs, saved' = saved
  PROVE  ModelsInv'
<1> DEFINE split == Models!GetModelData(b, models[h].custom)
<1>1. ObjectsFit
  BY DEF ModelsInv
<1>2. PICK m \in Models!DirectRestore(split.data) : models' = [models EXCEPT ![h].impl = m, ![h].custom = split.custom]
  BY Zenon DEF Models!RestoreWith
<1>3. split.data \in Bytes /\ split.custom \in CustomData
  BY <1>1, OpenForm, SplitRead DEF Read
<1> DEFINE c == split.custom
           d == split.data
<1> HIDE DEF split, c, d
<1>4. models' = [models EXCEPT ![h].impl = m, ![h].custom = c]
  BY <1>2 DEF c
<1>5. models' = [models EXCEPT ![h] = Models!NewModel(m, c)]
  <2>1. BothPut(h, m, c) = ModelPut(h, m, c)
    BY <1>1, FieldsPut
  <2> QED BY <1>4, <2>1, Zenon DEF BothPut, ModelPut
<1>6. m = Models!NoImpl \/ JustMade(m)
  BY <1>2, <1>3, RestoreMakes
<1>7. ObjectsFit'
  BY <1>1, <1>3, <1>5, <1>6, PutMade DEF c
<1> QED BY <1>7, SavedKeeps DEF ModelsInv

LEMMA RestoreFromBufferKeeps ==
  ASSUME ModelsInv, NEW h \in Handles, NEW b \in Bytes, Models!RestoreFromBuffer(h, b) PROVE ModelsInv'
<1>1. Models!Open(h) /\ Models!RestoreWith(h, b) /\ files' = files /\ descs' = descs /\ saved' = saved
  BY DEF Models!RestoreFromBuffer
<1> QED BY <1>1, RestoreWithKeeps

LEMMA RestoreFromFileKeeps ==
  ASSUME ModelsInv, NEW h \in Handles, NEW f \in Files, Models!RestoreFromFile(h, f) PROVE ModelsInv'
<1>1. Models!Open(h) /\ files' = files /\ descs' = descs /\ saved' = saved /\ ObjectsFit
  BY DEF Models!RestoreFromFile, ModelsInv
<1>2. CASE Models!HasCustomData(f)
  <2>1. Models!RestoreWith(h, Models!LoadToBuffer(f))
    BY <1>2 DEF Models!RestoreFromFile
  <2> QED BY <1>1, <2>1, BufferOfFile, RestoreWithKeeps
<1>3. CASE ~Models!HasCustomData(f)
  <2>1. PICK m \in Models!DirectRestoreFromFile(f) : models' = [models EXCEPT ![h].impl = m]
    BY <1>3 DEF Models!RestoreFromFile
  <2>2. models' = [models EXCEPT ![h] = Models!NewModel(m, models[h].custom)]
    <3>1. ImplPut(h, m) = ModelPut(h, m, models[h].custom)
      BY <1>1, FieldsPut
    <3> QED BY <2>1, <3>1, Zenon DEF ImplPut, ModelPut
  <2>3. ObjectsFit'
    <3> DEFINE c == models[h].custom
    <3>1. c \in CustomData /\ models' = [models EXCEPT ![h] = Models!NewModel(m, c)]
      BY <1>1, <2>2, OpenForm
    <3>2. m = Models!NoImpl \/ JustMade(m)
      BY <1>1, FileMakes
    <3> HIDE DEF c
    <3> QED BY <1>1, <3>1, <3>2, PutMade
  <2> QED BY <1>1, <2>3, SavedKeeps DEF ModelsInv
<1> QED BY <1>2, <1>3

\* The object keeps its descriptors.
LEMMA PutSame ==
  ASSUME ObjectsFit, NEW h \in Handles, Models!Open(h), NEW m \in ImplSet \cup {Models!NoImpl}, ModelFits(m), NEW c \in CustomData,
         m.made => models[h].impl.made /\ m.inputs = models[h].impl.inputs /\ m.outputs = models[h].impl.outputs,
         models' = ModelPut(h, m, c), files' = files, descs' = descs
  PROVE  ObjectsFit'
<1> DEFINE o == Models!NewModel(m, c)
           i == models[h].impl
<1>1. ObjectFits(o) /\ Uses(o) = (IF m.made THEN m.inputs \cup m.outputs ELSE {}) /\ (Apart(o) <=> (m.made => m.inputs \cap m.outputs = {}))
  BY NewModelForm
<1>2. models[h].open /\ Apart(models[h]) /\ Uses(models[h]) \subseteq descs
  BY ObjectsForm DEF Models!Open, UsedOnce
<1>3. (m.made => m.inputs \cap m.outputs = {}) /\ Uses(o) \subseteq Uses(models[h])
  <2>1. CASE m.made
    <3>1. Uses(models[h]) = i.inputs \cup i.outputs /\ i.inputs \cap i.outputs = {}
      BY <1>2, <2>1, Zenon DEF Uses, Apart
    <3>2. m.inputs = i.inputs /\ m.outputs = i.outputs /\ Uses(o) = m.inputs \cup m.outputs
      BY <1>1, <2>1
    <3> QED BY <3>1, <3>2
  <2>2. CASE ~m.made
    <3>1. Uses(o) = {}
      BY <1>1, <2>2
    <3> QED BY <2>2, <3>1
  <2> QED BY <2>1, <2>2
<1>4. models' = [models EXCEPT ![h] = o]
  BY DEF ModelPut
<1> HIDE DEF o
<1>5. Uses(o) \subseteq descs' /\ Apart(o)
  BY <1>1, <1>2, <1>3
<1>6. \A g \in Handles \ {h} : Uses(models[g]) \subseteq descs' /\ Uses(models[g]) \cap Uses(o) = {}
  BY <1>3, OthersApart
<1> QED BY <1>1, <1>4, <1>5, <1>6, PutObject

LEMMA SetCustomDataKeeps ==
  ASSUME ModelsInv, NEW h \in Handles, NEW c \in Customs, Models!SetCustomData(h, c) PROVE ModelsInv'
<1>1. /\ Models!Open(h) /\ models' = CustomPut(h, c) /\ files' = files /\ descs' = descs /\ saved' = saved /\ ObjectsFit
  BY DEF Models!SetCustomData, CustomPut, ModelsInv
<1>2. c \in CustomData
  BY ModelsAssumption
<1>3. models' = ModelPut(h, models[h].impl, c)
  BY <1>1, FieldsPut
<1> DEFINE m == models[h].impl
<1>4. m \in ImplSet \cup {Models!NoImpl} /\ ModelFits(m)
  BY <1>1, OpenForm
<1>5. ObjectsFit'
  BY <1>1, <1>2, <1>3, <1>4, PutSame
<1> QED BY <1>1, <1>5, SavedKeeps DEF ModelsInv

LEMMA UsableForm ==
  ASSUME ObjectsFit, NEW h \in Handles, Models!Usable(h)
  PROVE  LET m == models[h].impl
         IN  /\ Models!Open(h) /\ m.made /\ m \in ImplSet /\ ModelFits(m) /\ models[h].custom \in CustomData
             /\ m = [made |-> m.made, buffer |-> m.buffer, file |-> m.file, inputs |-> m.inputs, outputs |-> m.outputs]
<1> DEFINE m == models[h].impl
<1>1. Models!Open(h) /\ m.made
  BY DEF Models!Usable, Models!Impl
<1>2. m \in ImplSet \cup {Models!NoImpl} /\ ModelFits(m) /\ models[h].custom \in CustomData
  BY <1>1, OpenForm
<1> HIDE DEF m
<1>3. m # Models!NoImpl
  <2>1. ASSUME m = Models!NoImpl PROVE m.made = FALSE
    BY <2>1, Zenon DEF Models!NoImpl
  <2> QED BY <1>1, <2>1
<1>4. m \in ImplSet
  BY <1>2, <1>3
<1>5. m = [made |-> m.made, buffer |-> m.buffer, file |-> m.file, inputs |-> m.inputs, outputs |-> m.outputs]
  BY <1>4 DEF ImplSet
<1> QED BY <1>1, <1>2, <1>4, <1>5 DEF m

LEMMA LoadedFits ==
  ASSUME ObjectsFit, NEW m \in ImplSet, m.made, ModelFits(m) PROVE Models!Loaded(m) \in Bytes /\ Long(Models!Loaded(m))
<1>1. m.buffer \in Bytes /\ m.file \in Files \cup {""} /\ Long(m.buffer)
  BY DEF ImplSet, ModelFits
<1>2. CASE m.buffer # <<>>
  BY <1>1, <1>2 DEF Models!Loaded
<1>3. CASE m.buffer = <<>> /\ m.file = ""
  <2>1. Models!Loaded(m) = <<>>
    BY <1>3 DEF Models!Loaded, Models!NoName
  <2>2. <<>> \in Bytes
    BY DEF Bytes
  <2> QED BY <2>1, <2>2 DEF Long
<1>4. CASE m.buffer = <<>> /\ m.file # ""
  <2>1. m.file \in Files /\ files[m.file] # Models!NoFile /\ Long(files[m.file])
    BY <1>1, <1>4 DEF ModelFits
  <2>2. Models!Loaded(m) = files[m.file]
    BY <1>4, <2>1 DEF Models!Loaded, Models!NoName, Models!LoadToBuffer
  <2>3. files[m.file] \in Bytes
    BY <2>1 DEF ObjectsFit
  <2> QED BY <2>1, <2>2, <2>3
<1> QED BY <1>2, <1>3, <1>4

LEMMA KeepsBufferFits ==
  ASSUME ObjectsFit, NEW h \in Handles, Models!Usable(h), Models!KeepsBuffer(h), files' = files, descs' = descs
  PROVE  ObjectsFit'
<1> DEFINE i == models[h].impl
           b == Models!Loaded(i)
           m == [i EXCEPT !.buffer = b]
           c == models[h].custom
<1>1. /\ Models!Open(h) /\ i.made /\ i \in ImplSet /\ ModelFits(i) /\ c \in CustomData
      /\ i = [made |-> i.made, buffer |-> i.buffer, file |-> i.file, inputs |-> i.inputs, outputs |-> i.outputs]
  BY UsableForm
<1>2. b \in Bytes /\ Long(b)
  BY <1>1, LoadedFits
<1>3. models' = ImplPut(h, m)
  BY DEF Models!KeepsBuffer, Models!WithImpl, Models!Impl, ImplPut
<1> HIDE DEF b, i, c
<1>4. m \in ImplSet /\ m.made = i.made /\ m.buffer = b /\ m.file = i.file /\ m.inputs = i.inputs /\ m.outputs = i.outputs
  BY <1>1, <1>2 DEF ImplSet
<1> HIDE DEF m
<1>5. ModelFits(m)
  BY <1>1, <1>2, <1>4 DEF ModelFits
<1>6. models' = ModelPut(h, m, c)
  <2>1. ImplPut(h, m) = ModelPut(h, m, models[h].custom)
    BY <1>1, FieldsPut
  <2> QED BY <1>3, <2>1 DEF c
<1>7. m.made => models[h].impl.made /\ m.inputs = models[h].impl.inputs /\ m.outputs = models[h].impl.outputs
  BY <1>1, <1>4 DEF i
<1> QED BY <1>1, <1>4, <1>5, <1>6, <1>7, PutSame

LEMMA SaveToBufferKeeps == ASSUME ModelsInv, NEW h \in Handles, Models!SaveToBuffer(h) PROVE ModelsInv'
<1> DEFINE c == models[h].custom
           m == Models!Loaded(models[h].impl)
           s == [done |-> TRUE, place |-> "buffer", content |-> Models!Prefix(c) \o m, custom |-> c, model |-> m]
<1>1. /\ Models!Usable(h) /\ Models!KeepsBuffer(h) /\ files' = files /\ descs' = descs /\ ObjectsFit
      /\ saved' = IF m = <<>> THEN saved ELSE s
  BY Zenon DEF Models!SaveToBuffer, Models!DispatchSave, Models!Saved, Models!Impl, ModelsInv
<1>2. ObjectsFit'
  BY <1>1, KeepsBufferFits
<1>3. c \in CustomData /\ m \in Bytes /\ Long(m)
  BY <1>1, UsableForm, LoadedFits
<1> HIDE DEF c, m
<1>4. SavedFits'
  <2>1. CASE m = <<>>
    BY <1>1, <2>1, SavedKeeps DEF ModelsInv
  <2>2. CASE m # <<>>
    <3> DEFINE place == "buffer"
    <3>1. place \in {"buffer", "external"} /\ saved' = s
         /\ s = [done |-> TRUE, place |-> place, content |-> Models!Prefix(c) \o m, custom |-> c, model |-> m]
      BY <1>1, <2>2
    <3> HIDE DEF place, s
    <3> QED BY <1>3, <2>2, <3>1, SavedPut
  <2> QED BY <2>1, <2>2
<1> QED BY <1>2, <1>4 DEF ModelsInv

LEMMA SaveToExternalBufferKeeps ==
  ASSUME ModelsInv, NEW h \in Handles, NEW n, Models!SaveToExternalBuffer(h, n) PROVE ModelsInv'
<1> DEFINE c == models[h].custom
           m == Models!Loaded(models[h].impl)
           e == Models!External(h, n)
           s == [done |-> TRUE, place |-> "external", content |-> e, custom |-> c, model |-> m]
<1>1. /\ Models!Usable(h) /\ files' = files /\ descs' = descs /\ ObjectsFit
      /\ saved' = IF e = <<>> THEN saved ELSE s
      /\ Models!KeepsBuffer(h) \/ models' = models
  BY Zenon DEF Models!SaveToExternalBuffer, Models!DispatchSave, Models!Saved, Models!Impl, ModelsInv
<1>2. ObjectsFit'
  <2>1. CASE Models!KeepsBuffer(h)
    BY <1>1, <2>1, KeepsBufferFits
  <2>2. CASE models' = models
    BY <1>1, <2>2 DEF ObjectsFit, ModelFits, Models!DescsHeldOnce, Models!Held, Models!Usable, Models!Open, Models!Impl
  <2> QED BY <1>1, <2>1, <2>2
<1>3. c \in CustomData /\ m \in Bytes /\ Long(m)
  BY <1>1, UsableForm, LoadedFits
<1>4. e = <<>> \/ (e = Models!Prefix(c) \o m /\ m # <<>>)
  BY DEF Models!External, Models!Impl
<1> HIDE DEF c, m, e
<1>5. SavedFits'
  <2>1. CASE e = <<>>
    BY <1>1, <2>1, SavedKeeps DEF ModelsInv
  <2>2. CASE e # <<>>
    <3> DEFINE place == "external"
    <3>1. place \in {"buffer", "external"} /\ saved' = s
         /\ s = [done |-> TRUE, place |-> place, content |-> Models!Prefix(c) \o m, custom |-> c, model |-> m]
      BY <1>1, <1>4, <2>2
    <3> HIDE DEF place, s
    <3> QED BY <1>3, <1>4, <2>2, <3>1, SavedPut
  <2> QED BY <2>1, <2>2
<1> QED BY <1>2, <1>5 DEF ModelsInv

LEMMA SaveToFileKeeps ==
  ASSUME ModelsInv, NEW h \in Handles, NEW f \in Files, Models!SaveToFile(h, f) PROVE ModelsInv'
<1> DEFINE c == models[h].custom
           i == models[h].impl
           p == Models!Prefix(c)
           m == i.buffer
           emptied == Models!CreateEmptyFile(files, f)
           opened == Models!WriteBufferToFile(emptied, p, f)
           refused == i.file # "" \/ m = <<>>
<1>1. /\ Models!Usable(h) /\ models' = models /\ descs' = descs /\ ObjectsFit /\ SavedFits
      /\ files' = IF refused THEN opened ELSE Models!WriteBufferToFile(opened, m, f)
      /\ saved' = IF ~refused THEN Models!Saved(f, files'[f], h)
                  ELSE IF saved.done /\ saved.place = f THEN Models!NotSaved ELSE saved
  BY Zenon DEF Models!SaveToFile, Models!DispatchSave, Models!Impl, Models!NoName, ModelsInv
<1>2. c \in CustomData /\ m \in Bytes /\ Long(m) /\ i.made /\ i \in ImplSet
  BY <1>1, UsableForm DEF ImplSet, ModelFits
<1>3. ~refused => Models!Saved(f, files'[f], h) = [done |-> TRUE, place |-> f, content |-> files'[f], custom |-> c, model |-> m]
  <2>1. ~refused => Models!Loaded(i) = m
    BY DEF Models!Loaded
  <2> QED BY <2>1, Zenon DEF Models!Saved, Models!Impl
<1>4. files \in [Files -> Bytes \cup {Models!NoFile}]
  BY <1>1 DEF ObjectsFit
<1> HIDE DEF i, c
<1>5. emptied = [g \in Files |-> IF g = f THEN <<>> ELSE files[g]]
  BY <1>4 DEF Models!CreateEmptyFile
<1>6. p \in Bytes /\ Long(p) /\ p \o m \in Bytes /\ Long(p \o m)
  BY <1>2, PrefixBytes
<1> HIDE DEF p, m
<1>7. opened = [g \in Files |-> IF g = f THEN p ELSE files[g]]
  <2>1. emptied[f] = <<>> /\ <<>> # Models!NoFile
    BY <1>5, NoFileIsNone
  <2>2. <<>> \o p = p
    BY <1>6 DEF Bytes
  <2> HIDE DEF emptied
  <2>3. opened = [emptied EXCEPT ![f] = p]
    BY <2>1, <2>2 DEF Models!WriteBufferToFile
  <2> QED BY <1>5, <2>3
<1>8. Models!WriteBufferToFile(opened, m, f) = [g \in Files |-> IF g = f THEN p \o m ELSE files[g]]
  <2>1. opened[f] = p /\ p # Models!NoFile
    BY <1>6, <1>7, NoFileIsNone
  <2> HIDE DEF opened
  <2>2. Models!WriteBufferToFile(opened, m, f) = [opened EXCEPT ![f] = p \o m]
    BY <2>1 DEF Models!WriteBufferToFile
  <2> DEFINE x == p \o m
  <2> HIDE DEF x
  <2>3. [opened EXCEPT ![f] = x] = [g \in Files |-> IF g = f THEN x ELSE files[g]]
    BY <1>7
  <2> QED BY <2>2, <2>3 DEF x
<1> DEFINE new == IF refused THEN p ELSE p \o m
<1>9. files' = [g \in Files |-> IF g = f THEN new ELSE files[g]]
  BY <1>1, <1>7, <1>8
<1>10. new \in Bytes /\ Long(new) /\ new # Models!NoFile
  BY <1>6, NoFileIsNone
<1>11. (~refused => new = p \o m /\ m # <<>>)
  OBVIOUS
<1> HIDE DEF refused, new, opened, emptied
<1>12. files' \in [Files -> Bytes \cup {Models!NoFile}] /\ files'[f] = new /\ \A g \in Files \ {f} : files'[g] = files[g]
  BY <1>4, <1>9, <1>10
<1>13. ObjectsFit'
  <2>1. (\A g \in Handles : models[g].open => ModelFits(models[g].impl))'
    <3>0. models' = models
      BY <1>1
    <3> SUFFICES ASSUME NEW g \in Handles, models[g].open PROVE ModelFits(models[g].impl)'
      BY <3>0
    <3> DEFINE o == models[g].impl
    <3>1. ModelFits(o) /\ o \in ImplSet \cup {Models!NoImpl}
      BY <1>1, OpenForm DEF Models!Open
    <3>2. CASE o \in ImplSet
      <4>1. o.file \in Files \cup {""}
        BY <3>2 DEF ImplSet
      <4> HIDE DEF o
      <4>2. o.made => Long(o.buffer) /\ (o.file # "" => files'[o.file] # Models!NoFile /\ Long(files'[o.file]))
        BY <1>10, <1>12, <3>1, <4>1 DEF ModelFits
      <4>3. models'[g].impl = o
        BY <3>0 DEF o
      <4> QED BY <4>2, <4>3, Zenon DEF ModelFits, Long
    <3>3. CASE o = Models!NoImpl
      <4> HIDE DEF o
      <4>1. o.made = FALSE
        <5>1. Models!NoImpl.made = FALSE
          BY Zenon DEF Models!NoImpl
        <5> QED BY <3>3, <5>1
      <4>2. models'[g].impl = o
        BY <3>0 DEF o
      <4> QED BY <4>1, <4>2 DEF ModelFits
    <3> QED BY <3>1, <3>2, <3>3
  <2>2. Models!DescsHeldOnce'
    BY <1>1 DEF ObjectsFit, Models!DescsHeldOnce, Models!Held, Models!Usable, Models!Open, Models!Impl
  <2> QED BY <1>1, <1>12, <2>1, <2>2 DEF ObjectsFit
<1>14. SavedFits'
  <2>1. CASE ~refused
    <3> DEFINE s == Models!Saved(f, files'[f], h)
               b == TRUE
               x == files'[f]
    <3>1. saved' = s /\ x = p \o m /\ x \in Bytes /\ b \in {TRUE} /\ m # <<>>
      BY <1>1, <1>6, <1>11, <1>12, <2>1
    <3>2. s = [done |-> b, place |-> f, content |-> x, custom |-> c, model |-> m]
      BY <1>3, <2>1
    <3> HIDE DEF s, b, x
    <3>3. s \in SavedSet
      <4>1. f \in Files \cup {"buffer", "external"}
        OBVIOUS
      <4> QED BY <1>2, <3>1, <3>2, <4>1, SavedTyped
    <3>4. s.place = f /\ s.model = m /\ s.custom = c
      BY <3>2
    <3>5. files'[f] = Models!Prefix(s.custom) \o s.model
      BY <3>1, <3>4 DEF p, x
    <3> QED BY <1>2, <3>1, <3>3, <3>4, <3>5 DEF SavedFits, Restorable
  <2>2. CASE refused /\ saved.done /\ saved.place = f
    <3>1. saved' = Models!NotSaved
      BY <1>1, <2>2
    <3>2. Models!NotSaved.done = FALSE
      BY Zenon DEF Models!NotSaved
    <3> QED BY <3>1, <3>2 DEF SavedFits, Restorable
  <2>3. CASE refused /\ ~(saved.done /\ saved.place = f)
    <3>1. saved' = saved
      BY <1>1, <2>3
    <3>2. saved.done => saved.place # f
      BY <2>3
    <3>3. saved.done /\ saved.place \in Files => files'[saved.place] = files[saved.place]
      BY <1>12, <3>2
    <3> QED BY <1>1, <3>1, <3>3 DEF SavedFits, Restorable
  <2> QED BY <2>1, <2>2, <2>3
<1> QED BY <1>13, <1>14 DEF ModelsInv

LEMMA GetTensorDescsKeeps == ASSUME ModelsInv, NEW h \in Handles, Models!GetTensorDescs(h) PROVE ModelsInv'
<1> DEFINE i == models[h].impl
           c == models[h].custom
<1>1. Models!Usable(h) /\ files' = files /\ saved' = saved /\ ObjectsFit
  BY DEF Models!GetTensorDescs, Models!DispatchQuery, ModelsInv
<1>2. PICK q \in Models!GetIONDTensorDesc(i, descs) : models' = ImplPut(h, q.impl) /\ descs' = q.descs
  BY DEF Models!GetTensorDescs, Models!WithImpl, Models!Impl, ImplPut
<1>3. Models!Open(h) /\ i.made /\ i \in ImplSet /\ ModelFits(i) /\ c \in CustomData
  BY <1>1, UsableForm
<1>4. Uses(models[h]) = i.inputs \cup i.outputs /\ i.inputs \cup i.outputs \subseteq descs /\ i.inputs \cap i.outputs = {}
  <2>1. Apart(models[h]) /\ Uses(models[h]) \subseteq descs
    BY <1>1, ObjectsForm DEF UsedOnce
  <2>2. Uses(models[h]) = i.inputs \cup i.outputs /\ i.inputs \cap i.outputs = {}
    BY <1>3, <2>1, Zenon DEF Uses, Apart, Models!Open
  <2> QED BY <2>1, <2>2
<1> DEFINE m == q.impl
           o == Models!NewModel(m, c)
<1>5. /\ m \in ImplSet /\ m.buffer = i.buffer /\ m.file = i.file /\ descs \subseteq q.descs
      /\ m.inputs \cup m.outputs \subseteq q.descs /\ m.inputs \cap m.outputs = {}
      /\ m.inputs = i.inputs \/ m.inputs \cap descs = {}
      /\ m.outputs = i.outputs \/ m.outputs \cap descs = {}
  BY <1>2, <1>3, <1>4, DescQueried DEF Queried, Renewed
<1>6. models' = [models EXCEPT ![h] = o]
  <2>1. ImplPut(h, m) = ModelPut(h, m, c)
    BY <1>1, <1>3, FieldsPut
  <2> QED BY <1>2, <2>1 DEF ModelPut
<1> HIDE DEF i, c
<1>7. ModelFits(m)
  <2>1. m.made = TRUE
    BY <1>5 DEF ImplSet
  <2> QED BY <1>3, <1>5 DEF ModelFits
<1>8. ObjectFits(o) /\ Uses(o) \subseteq m.inputs \cup m.outputs /\ Apart(o)
  <2>1. /\ ObjectFits(o) /\ Uses(o) = (IF m.made THEN m.inputs \cup m.outputs ELSE {})
        /\ Apart(o) <=> (m.made => m.inputs \cap m.outputs = {})
    BY <1>3, <1>5, <1>7, NewModelForm
  <2> HIDE DEF o
  <2> QED BY <1>5, <2>1
<1> HIDE DEF o, m
<1>9. ASSUME NEW g \in Handles \ {h} PROVE Uses(models[g]) \subseteq descs' /\ Uses(models[g]) \cap Uses(o) = {}
  <2>1. Uses(models[g]) \subseteq descs /\ Uses(models[g]) \cap (i.inputs \cup i.outputs) = {}
    BY <1>1, <1>4, OthersApart
  <2> QED BY <1>2, <1>5, <1>8, <2>1
<1>10. Uses(o) \subseteq descs'
  BY <1>2, <1>5, <1>8
<1>11. ObjectsFit'
  BY <1>1, <1>6, <1>8, <1>9, <1>10, PutObject
<1> QED BY <1>1, <1>11, SavedKeeps DEF ModelsInv

LEMMA BuildModelOnlineKeeps ==
  ASSUME ModelsInv, NEW ir \in Delivered, NEW o, Models!BuildModelOnline(ir, o) PROVE ModelsInv'
<1> DEFINE e == [o EXCEPT !.estimated = output]
<1>1. PICK m \in Models!DirectBuild(ir, e) :
        LET fits == m.made /\ Len(m.buffer) <= output /\ output < MaxExternal
        IN  /\ output' = IF fits THEN Len(m.buffer) ELSE output
            /\ saved' = IF fits THEN [done |-> TRUE, place |-> "external", content |-> m.buffer,
                                      custom |-> Models!NoCustom, model |-> m.buffer]
                        ELSE saved
  BY DEF Models!BuildModelOnline
<1>2. models' = models /\ files' = files /\ descs' = descs
  BY DEF Models!BuildModelOnline
<1>3. ObjectsFit'
  BY <1>2 DEF ModelsInv, ObjectsFit, ModelFits, Models!DescsHeldOnce, Models!Held, Models!Usable, Models!Open, Models!Impl
<1>4. ir \in Bytes
  BY ModelsAssumption DEF Bytes
<1>5. m = Models!NoImpl \/ JustMade(m)
  BY <1>4, BuildMakes
<1> HIDE DEF e
<1> DEFINE b == m.buffer
           fits == m.made /\ Len(b) <= output /\ output < MaxExternal
           place == "external"
           c == Models!NoCustom
           s == [done |-> TRUE, place |-> place, content |-> b, custom |-> c, model |-> b]
<1>6. saved' = IF fits THEN s ELSE saved
  BY <1>1, Zenon
<1>7. SavedFits'
  <2>1. CASE ~fits
    BY <1>2, <1>6, <2>1, SavedKeeps DEF ModelsInv
  <2>2. CASE fits
    <3>1. m # Models!NoImpl
      <4>1. Models!NoImpl.made = FALSE
        BY Zenon DEF Models!NoImpl
      <4> QED BY <2>2, <4>1
    <3>2. b \in Bytes /\ Long(b)
      BY <1>5, <3>1 DEF JustMade, ImplSet, ModelFits
    <3>3. b # <<>>
      <4>1. Models!DirectBuiltModel(<<>>, Models!NoName).buffer = <<>>
        BY Zenon DEF Models!DirectBuiltModel
      <4>2. PICK t : t # <<>> /\ m = Models!DirectBuiltModel(t, Models!NoName)
        BY <3>1 DEF Models!DirectBuild
      <4>3. m.buffer = t
        BY <4>2, Zenon DEF Models!DirectBuiltModel
      <4> QED BY <4>2, <4>3
    <3>4. Models!Prefix(c) \o b = b /\ c \in CustomData /\ place \in {"buffer", "external"}
      <4>1. c.type = <<>>
        BY Zenon DEF Models!NoCustom
      <4>2. Models!Prefix(c) = <<>>
        BY <4>1 DEF Models!Prefix
      <4>3. <<>> \o b = b
        BY <3>2 DEF Bytes
      <4> QED BY <4>2, <4>3, NoCustomTyped
    <3>5. s = [done |-> TRUE, place |-> place, content |-> Models!Prefix(c) \o b, custom |-> c, model |-> b]
      BY <3>4
    <3>6. saved' = s
      BY <1>6, <2>2
    <3> HIDE DEF s, c, place, b
    <3> QED BY <3>2, <3>3, <3>4, <3>5, <3>6, SavedPut
  <2> QED BY <2>1, <2>2
<1> QED BY <1>3, <1>7 DEF ModelsInv

LEMMA ModelsSame == ModelsInv /\ UNCHANGED <<models, files, descs, saved>> => ModelsInv'
<1> SUFFICES ASSUME ModelsInv, UNCHANGED <<models, files, descs, saved>> PROVE ModelsInv'
  OBVIOUS
<1>1. ObjectsFit'
  BY DEF ModelsInv, ObjectsFit, ModelFits, Models!DescsHeldOnce, Models!Held, Models!Usable, Models!Open, Models!Impl
<1> QED BY <1>1, SavedKeeps DEF ModelsInv

LEMMA ModelsInit == Models!Init => ModelsInv
<1> SUFFICES ASSUME Models!Init PROVE ModelsInv
  OBVIOUS
<1>1. /\ models = [h \in Handles |-> Models!Absent] /\ files \in [Files -> Delivered \cup {Models!NoFile}]
      /\ saved = Models!NotSaved
  BY DEF Models!Init
<1>2. Models!Absent.open = FALSE /\ Models!NotSaved.done = FALSE
  BY Zenon DEF Models!Absent, Models!NotSaved
<1>3. \A h \in Handles : ObjectFits(models[h]) /\ Uses(models[h]) = {} /\ Apart(models[h])
  <2>1. ObjectFits(Models!Absent)
    BY <1>2 DEF ObjectFits
  <2>2. Uses(Models!Absent) = {} /\ Apart(Models!Absent)
    BY <1>2, Zenon DEF Uses, Apart
  <2> QED BY <1>1, <2>1, <2>2
<1>4. files \in [Files -> Bytes \cup {Models!NoFile}]
  BY <1>1, ModelsAssumption DEF Bytes
<1>5. ObjectsFit
  BY <1>1, <1>3, <1>4, ObjectsForm DEF UsedOnce
<1>6. SavedFits
  BY <1>1, <1>2 DEF SavedFits, Restorable
<1> QED BY <1>5, <1>6 DEF ModelsInv

LEMMA ModelsNext == ModelsInv /\ Models!Next => ModelsInv'
<1> SUFFICES ASSUME ModelsInv, Models!Next PROVE ModelsInv'
  OBVIOUS
<1>1. ASSUME NEW h \in Handles,
             Models!Create(h) \/ Models!Release(h) \/ Models!SaveToBuffer(h) \/ Models!GetTensorDescs(h)
      PROVE  ModelsInv'
  BY <1>1, CreateModelKeeps, ReleaseKeeps, SaveToBufferKeeps, GetTensorDescsKeeps
<1>2. ASSUME NEW h \in Handles, NEW o \in Models!Options, Models!Build(h, o) PROVE ModelsInv'
  BY <1>2, BuildKeeps
<1>3. ASSUME NEW h \in Handles, NEW o \in Models!Options, NEW ir \in Delivered, NEW c \in Customs \union {Models!NoCustom},
             Models!IrBuild(h, ir, c, o)
      PROVE  ModelsInv'
  BY <1>3, IrBuildKeeps
<1>4. ASSUME NEW h \in Handles, NEW b \in Delivered \union {saved.content : x \in {s \in {saved} : s.done}},
             Models!RestoreFromBuffer(h, b)
      PROVE  ModelsInv'
  <2>1. b \in Bytes
    BY SavedCases, ModelsAssumption DEF ModelsInv, Bytes
  <2> QED BY <1>4, <2>1, RestoreFromBufferKeeps
<1>5. ASSUME NEW h \in Handles, NEW f \in Files, Models!RestoreFromFile(h, f) \/ Models!SaveToFile(h, f) PROVE ModelsInv'
  BY <1>5, RestoreFromFileKeeps, SaveToFileKeeps
<1>6. ASSUME NEW h \in Handles, NEW n \in Sizes, Models!SaveToExternalBuffer(h, n) PROVE ModelsInv'
  BY <1>6, SaveToExternalBufferKeeps
<1>7. ASSUME NEW h \in Handles, NEW c \in Customs, Models!SetCustomData(h, c) PROVE ModelsInv'
  BY <1>7, SetCustomDataKeeps
<1>8. ASSUME NEW n \in Sizes, Models!CreateModelBuff(n) PROVE ModelsInv'
  <2>1. UNCHANGED <<models, files, descs, saved>>
    BY <1>8 DEF Models!CreateModelBuff
  <2> QED BY <2>1, ModelsSame
<1>9. ASSUME Models!ReleaseModelBuff PROVE ModelsInv'
  <2>1. UNCHANGED <<models, files, descs, saved>>
    BY <1>9 DEF Models!ReleaseModelBuff
  <2> QED BY <2>1, ModelsSame
<1>10. ASSUME NEW ir \in Delivered, NEW o \in Models!Options, Models!BuildModelOnline(ir, o) PROVE ModelsInv'
  BY <1>10, BuildModelOnlineKeeps
<1> QED BY <1>1, <1>2, <1>3, <1>4, <1>5, <1>6, <1>7, <1>8, <1>9, <1>10, Zenon DEF Models!Next

LEMMA ModelsSound == ModelsInv => Models!SavedIsRestored /\ Models!DescsHeldOnce
<1> SUFFICES ASSUME ModelsInv PROVE Models!SavedIsRestored
  BY DEF ModelsInv, ObjectsFit
<1> DEFINE c == saved.custom
           m == saved.model
           content == IF saved.place \in Files THEN files[saved.place] ELSE saved.content
<1>1. SUFFICES ASSUME saved.done, m[1] # Models!Tag, c.type = <<>> \/ c.value # <<>>
      PROVE  Models!GetModelData(content, Models!NoCustom) = [data |-> m, custom |-> Models!Expected(c)]
  BY Zenon DEF Models!SavedIsRestored
<1>2. saved \in SavedSet /\ m # <<>> /\ Long(m) /\ content = Models!Prefix(c) \o m
  BY <1>1 DEF ModelsInv, SavedFits, Restorable
<1>3. m \in Bytes /\ c \in CustomData
  BY <1>2 DEF SavedSet
<1> HIDE DEF c, m, content
<1>4. CASE c.type = <<>>
  <2>1. content = m
    <3>1. Models!Prefix(c) = <<>>
      BY <1>4 DEF Models!Prefix
    <3>2. <<>> \o m = m
      BY <1>3 DEF Bytes
    <3> QED BY <1>2, <3>1, <3>2
  <2>2. ~(Len(m) <= 1)
    <3>1. Len(m) \in Nat /\ Len(m) >= 2
      BY <1>2, <1>3 DEF Long, Bytes
    <3> QED BY <3>1
  <2>3. Models!GetModelData(m, Models!NoCustom) = [data |-> m, custom |-> Models!NoCustom]
    BY <1>1, <2>2 DEF Models!GetModelData
  <2>4. Models!Expected(c) = Models!NoCustom
    BY <1>4 DEF Models!Expected
  <2> QED BY <2>1, <2>3, <2>4
<1>5. CASE c.type # <<>>
  <2>1. content = Models!CustomCells(c) \o m
    BY <1>2, <1>5 DEF Models!Prefix
  <2>2. Models!GetModelData(Models!CustomCells(c) \o m, Models!NoCustom) = [data |-> m, custom |-> c]
    BY <1>1, <1>3, <1>5, SplitBack
  <2>3. Models!Expected(c) = c
    BY <1>5 DEF Models!Expected
  <2> QED BY <2>1, <2>2, <2>3
<1> QED BY <1>4, <1>5

\* In every reachable state what a successful save put in a buffer or in a file gives the model and its custom data
\* back when it is restored, and the tensor descriptors of the models are alive and held by one model only
\* (customdata_util.cpp, model_type_util.cpp, built_model_impl.cpp, direct_built_model.cpp, direct_built_model_impl.cpp).
THEOREM BuiltModelsAreSound == RecordsSpec => []BuiltModelsSound
<1> DEFINE Inv == part = "models" => ModelsInv
<1>1. RecordsInit => Inv
  BY ModelsInit DEF RecordsInit
<1>2. Inv /\ [RecordsNext]_recordVars => Inv'
  <2> SUFFICES ASSUME Inv, [RecordsNext]_recordVars, part' = "models" PROVE ModelsInv'
    OBVIOUS
  <2>1. CASE ModelsStep
    BY <2>1, ModelsNext DEF ModelsStep
  <2>2. CASE UNCHANGED recordVars
    BY <2>2, ModelsSame DEF recordVars, modelVars
  <2> QED BY <2>1, <2>2 DEF RecordsNext, OptionsStep, ParasStep, GraphsStep, AttrsStep, BuffersStep
<1>3. Inv => BuiltModelsSound
  BY ModelsSound DEF BuiltModelsSound
<1> QED BY <1>1, <1>2, <1>3, PTL DEF RecordsSpec

-----------------------------------------------------------------------------
(***************************************************************************)
(* Operators.  A link stands in two lists, the inputs of its reader and    *)
(* the readers of its source.                                              *)
(***************************************************************************)

Ids == 1 .. Len(app.ops)
Peer == Ids \X Int
Fields == {"name", "type", "alive", "outs", "described", "isInputConst", "named", "builders"}
OperatorFits(op) ==
  /\ op = [f \in Fields \cup {"in", "out"} |-> op[f]]
  /\ op.in \in [DOMAIN op.in -> Peer] /\ DOMAIN op.in \subseteq Int
  /\ op.out \in [DOMAIN op.out -> Seq(Peer)] /\ DOMAIN op.out \subseteq Int
Fit(all) == all = [o \in Ids |-> all[o]] /\ \A o \in Ids : OperatorFits(all[o])
NetworkFits == NetworkWellFormed(app) /\ Fit(ops)

\* The reader at a place of a list of readers has its input linked to that output, no list has it twice, and the
\* source of an input lists it.
Place(all, p, j, k) == j \in DOMAIN all[p].out /\ k \in 1 .. Len(all[p].out[j])
Reads(all, e, p, j) == e[2] \in DOMAIN all[e[1]].in /\ all[e[1]].in[e[2]] = <<p, j>>
Lists(all, p, j, e) == \E k \in Int : Place(all, p, j, k) /\ all[p].out[j][k] = e
LinksKept(all) ==
  /\ \A p \in Ids : \A j, k \in Int : Place(all, p, j, k) => Reads(all, all[p].out[j][k], p, j)
  /\ \A p \in Ids : \A j, k, l \in Int :
       Place(all, p, j, k) /\ Place(all, p, j, l) /\ all[p].out[j][k] = all[p].out[j][l] => k = l
  /\ \A o \in Ids : \A i \in Int : i \in DOMAIN all[o].in => Lists(all, all[o].in[i][1], all[o].in[i][2], <<o, i>>)
LinksInv == NetworkFits /\ LinksKept(ops)

LEMMA IdsAre == NetworkWellFormed(app) => Len(app.ops) \in Nat
  BY DEF NetworkWellFormed

LEMMA SizeIs == ASSUME NEW s PROVE Irs!Cardinality(s) = Cardinality(s)
  BY DEF Irs!Cardinality, Cardinality

LEMMA LinksAgreed == LinksInv => Irs!LinksAgree
<1> SUFFICES ASSUME LinksInv PROVE Irs!LinksAgree
  OBVIOUS
<1>1. Len(ops) = Len(app.ops) /\ 1 .. Len(ops) = Ids
  <2>1. Len(app.ops) \in Nat
    BY IdsAre DEF LinksInv, NetworkFits, Fit
  <2>2. DOMAIN ops = 1 .. Len(app.ops)
    BY DEF LinksInv, NetworkFits, Fit, Ids
  <2>3. ops \in Seq({ops[o] : o \in Ids})
    BY <2>1 DEF LinksInv, NetworkFits, Fit, Ids
  <2>4. Len(ops) \in Nat /\ DOMAIN ops = 1 .. Len(ops)
    BY <2>3
  <2> QED BY <2>1, <2>2, <2>4 DEF Ids
<1> SUFFICES ASSUME NEW o \in Ids, NEW p \in Ids, NEW i \in -1 .. 4, NEW j \in -1 .. 1
             PROVE  LET listed == IF j \in DOMAIN ops[p].out
                                    THEN {k \in 1 .. Len(ops[p].out[j]) : ops[p].out[j][k] = <<o, i>>} ELSE {}
                        linked == i \in DOMAIN ops[o].in /\ ops[o].in[i] = <<p, j>>
                    IN Cardinality(listed) = (IF linked THEN 1 ELSE 0)
  BY <1>1, SizeIs, Zenon DEF Irs!LinksAgree
<1> DEFINE listed == IF j \in DOMAIN ops[p].out THEN {k \in 1 .. Len(ops[p].out[j]) : ops[p].out[j][k] = <<o, i>>} ELSE {}
           linked == i \in DOMAIN ops[o].in /\ ops[o].in[i] = <<p, j>>
<1>2. i \in Int /\ j \in Int
  OBVIOUS
<1>3. ASSUME NEW k \in listed PROVE k \in Int /\ Place(ops, p, j, k) /\ ops[p].out[j][k] = <<o, i>>
  BY DEF Place
<1>4. CASE ~linked
  <2>1. ASSUME NEW k \in listed PROVE FALSE
    <3>1. Reads(ops, ops[p].out[j][k], p, j)
      BY <1>2, <1>3, <2>1 DEF LinksInv, LinksKept
    <3>2. Reads(ops, <<o, i>>, p, j)
      BY <1>3, <2>1, <3>1
    <3> QED BY <1>4, <3>2 DEF Reads
  <2>2. listed = {}
    BY <2>1
  <2> QED BY <1>4, <2>2, FS_EmptySet
<1>5. CASE linked
  <2>1. PICK k \in Int : Place(ops, p, j, k) /\ ops[p].out[j][k] = <<o, i>>
    <3>1. Lists(ops, ops[o].in[i][1], ops[o].in[i][2], <<o, i>>)
      BY <1>2, <1>5 DEF LinksInv, LinksKept
    <3>2. ops[o].in[i][1] = p /\ ops[o].in[i][2] = j
      BY <1>5
    <3> QED BY <3>1, <3>2 DEF Lists
  <2>2. k \in listed
    BY <2>1 DEF Place
  <2>3. \A l \in listed : l = k
    BY <1>2, <1>3, <2>1 DEF LinksInv, LinksKept
  <2>4. listed = {k}
    BY <2>2, <2>3
  <2> QED BY <1>5, <2>4, FS_Singleton
<1> QED BY <1>4, <1>5

\* Calls that leave the links of every operator as they are.
LEMMA SameLinks ==
  ASSUME NEW old, NEW new, LinksKept(old), \A o \in Ids : new[o].in = old[o].in /\ new[o].out = old[o].out,
         \A o \in Ids : OperatorFits(old[o])
  PROVE  LinksKept(new)
<1>1. \A p \in Ids : \A j, k : Place(new, p, j, k) <=> Place(old, p, j, k)
  BY DEF Place
<1>2. \A p \in Ids : \A j, k : Place(old, p, j, k) => new[p].out[j][k] = old[p].out[j][k] /\ old[p].out[j][k][1] \in Ids
  <2>1. ASSUME NEW p \in Ids, NEW j, NEW k, Place(old, p, j, k) PROVE old[p].out[j][k] \in Peer
    <3>1. j \in DOMAIN old[p].out /\ k \in 1 .. Len(old[p].out[j]) /\ old[p].out \in [DOMAIN old[p].out -> Seq(Peer)]
      BY <2>1 DEF OperatorFits, Place
    <3>2. old[p].out[j] \in Seq(Peer)
      BY <3>1
    <3> QED BY <3>1, <3>2, ElementOfSeq
  <2> QED BY <2>1 DEF Peer
<1>3. \A o \in Ids : \A i \in DOMAIN old[o].in : old[o].in[i][1] \in Ids
  BY DEF OperatorFits, Peer
<1>4. \A p \in Ids : \A j, k \in Int : Place(new, p, j, k) => Reads(new, new[p].out[j][k], p, j)
  <2> SUFFICES ASSUME NEW p \in Ids, NEW j \in Int, NEW k \in Int, Place(new, p, j, k)
               PROVE  Reads(new, new[p].out[j][k], p, j)
    OBVIOUS
  <2>1. Place(old, p, j, k)
    BY <1>1
  <2>2. Reads(old, old[p].out[j][k], p, j)
    BY <2>1 DEF LinksKept
  <2>3. new[p].out[j][k] = old[p].out[j][k] /\ old[p].out[j][k][1] \in Ids
    BY <1>2, <2>1
  <2> QED BY <2>2, <2>3 DEF Reads
<1>5. \A p \in Ids : \A j, k, l \in Int :
        Place(new, p, j, k) /\ Place(new, p, j, l) /\ new[p].out[j][k] = new[p].out[j][l] => k = l
  BY <1>1, <1>2 DEF LinksKept
<1>6. \A o \in Ids : \A i \in Int : i \in DOMAIN new[o].in => Lists(new, new[o].in[i][1], new[o].in[i][2], <<o, i>>)
  <2> SUFFICES ASSUME NEW o \in Ids, NEW i \in Int, i \in DOMAIN new[o].in
               PROVE  Lists(new, new[o].in[i][1], new[o].in[i][2], <<o, i>>)
    OBVIOUS
  <2>1. new[o].in = old[o].in /\ old[o].in[i][1] \in Ids
    BY <1>3
  <2>2. PICK k \in Int : /\ Place(old, old[o].in[i][1], old[o].in[i][2], k)
                         /\ old[old[o].in[i][1]].out[old[o].in[i][2]][k] = <<o, i>>
    BY <2>1 DEF LinksKept, Lists
  <2> QED BY <1>1, <1>2, <2>1, <2>2 DEF Lists
<1> QED BY <1>4, <1>5, <1>6 DEF LinksKept

LEMMA LinksChanged ==
  ASSUME LinksInv, app' = app \/ \E c : app' = [app EXCEPT !.calls = @ \ {c}], Fit(ops'), LinksKept(ops')
  PROVE  LinksInv'
<1>1. app'.ops = app.ops /\ NetworkWellFormed(app)'
  <2>1. app = [ops |-> app.ops, calls |-> app.calls, inputs |-> app.inputs, outputs |-> app.outputs, file |-> app.file]
    BY DEF LinksInv, NetworkFits, NetworkWellFormed
  <2>2. CASE app' = app
    BY <2>2 DEF LinksInv, NetworkFits, NetworkWellFormed
  <2>3. ASSUME NEW c, app' = [app EXCEPT !.calls = @ \ {c}] PROVE app'.ops = app.ops /\ NetworkWellFormed(app)'
    BY <2>1, <2>3 DEF LinksInv, NetworkFits, NetworkWellFormed
  <2> QED BY <2>2, <2>3
<1>2. Ids' = Ids /\ Peer' = Peer
  BY <1>1 DEF Ids, Peer
<1>3. Fit(ops)'
  BY <1>2 DEF Fit, OperatorFits
<1>4. LinksKept(ops)'
  BY <1>2 DEF LinksKept, Place, Reads, Lists
<1> QED BY <1>1, <1>3, <1>4 DEF LinksInv, NetworkFits

\* A list of readers, and the list with one more.
Readers(op, j) == IF j \in DOMAIN op.out THEN op.out[j] ELSE <<>>
Longer(op, j, e) == Readers(op, j) \o <<e>>
Count(op, j) == IF j \in DOMAIN op.out THEN Len(op.out[j]) ELSE 0

IsOneMore(op, j, e) ==
  /\ Count(op, j) \in Nat /\ Longer(op, j, e) \in Seq(Peer) /\ Len(Longer(op, j, e)) = Count(op, j) + 1
  /\ Longer(op, j, e)[Count(op, j) + 1] = e
  /\ j \in DOMAIN op.out => \A k \in 1 .. Count(op, j) : Longer(op, j, e)[k] = op.out[j][k]

LEMMA OneMore == ASSUME NEW op, OperatorFits(op), NEW j, NEW e \in Peer PROVE IsOneMore(op, j, e)
<1> DEFINE s == Readers(op, j)
           n == Count(op, j)
<1>1. s \in Seq(Peer)
  BY DEF OperatorFits, Readers
<1>2. Len(s) = n
  BY DEF Readers, Count
<1>3. <<e>> \in Seq(Peer) /\ Len(<<e>>) = 1 /\ <<e>>[1] = e
  OBVIOUS
<1>4. /\ s \o <<e>> \in Seq(Peer) /\ Len(s \o <<e>>) = Len(s) + 1 /\ Len(s) \in Nat
      /\ (\A k \in 1 .. Len(s) : (s \o <<e>>)[k] = s[k]) /\ (s \o <<e>>)[Len(s) + 1] = e
  <2> HIDE DEF s
  <2> DEFINE t == <<e>>
  <2>0. t \in Seq(Peer)
    BY <1>3
  <2>1. Len(t) = 1 /\ t[1] = e
    BY <1>3
  <2> HIDE DEF t
  <2>2. s \o t \in Seq(Peer) /\ Len(s \o t) = Len(s) + Len(t) /\ Len(s) \in Nat
    BY <1>1, <2>0, Joined
  <2>3. \A k \in 1 .. Len(s) : (s \o t)[k] = s[k]
    BY <1>1, <2>0, Joined
  <2>4. \A k \in 1 .. Len(t) : (s \o t)[Len(s) + k] = t[k]
    BY <1>1, <2>0, Joined
  <2> QED BY <2>1, <2>2, <2>3, <2>4 DEF t
<1>5. j \in DOMAIN op.out => s = op.out[j]
  BY DEF Readers
<1> HIDE DEF s
<1> QED BY <1>2, <1>4, <1>5 DEF IsOneMore, Longer, s

\* A link that was not there is put into both lists.
LEMMA LinkAdded ==
  ASSUME NEW old, NEW new, LinksKept(old), \A q \in Ids : OperatorFits(old[q]),
         NEW o \in Ids, NEW p \in Ids, NEW i \in Int, NEW j \in Int, i \notin DOMAIN old[o].in,
         new[o].in = Irs!Put(old[o].in, i, <<p, j>>), \A q \in Ids \ {o} : new[q].in = old[q].in,
         new[p].out = Irs!Put(old[p].out, j, Longer(old[p], j, <<o, i>>)), \A q \in Ids \ {p} : new[q].out = old[q].out
  PROVE  LinksKept(new)
<1> DEFINE n == Count(old[p], j)
           e == <<o, i>>
<1>1. /\ n \in Nat /\ Len(Longer(old[p], j, e)) = n + 1 /\ Longer(old[p], j, e)[n + 1] = e
      /\ j \in DOMAIN old[p].out => \A k \in 1 .. n : Longer(old[p], j, e)[k] = old[p].out[j][k]
  <2>1. e \in Peer
    BY DEF Peer
  <2> DEFINE op == old[p]
  <2>2. OperatorFits(op)
    OBVIOUS
  <2> HIDE DEF e, op
  <2>3. IsOneMore(op, j, e)
    BY <2>1, <2>2, OneMore
  <2> QED BY <2>3 DEF IsOneMore, op
<1>2. /\ DOMAIN new[p].out = DOMAIN old[p].out \cup {j} /\ new[p].out[j] = Longer(old[p], j, e)
      /\ \A b \in DOMAIN old[p].out : b # j => new[p].out[b] = old[p].out[b]
  <2> DEFINE f == old[p].out
             v == Longer(old[p], j, <<o, i>>)
  <2> HIDE DEF f, v
  <2>1. /\ DOMAIN Irs!Put(f, j, v) = DOMAIN f \cup {j} /\ Irs!Put(f, j, v)[j] = v
        /\ \A k \in DOMAIN f : k # j => Irs!Put(f, j, v)[k] = f[k]
    BY DEF Irs!Put
  <2>2. new[p].out = Irs!Put(f, j, v)
    BY DEF f, v
  <2> QED BY <2>1, <2>2 DEF f, v
<1>3. /\ DOMAIN new[o].in = DOMAIN old[o].in \cup {i} /\ new[o].in[i] = <<p, j>>
      /\ \A a \in DOMAIN old[o].in : new[o].in[a] = old[o].in[a]
  <2> DEFINE f == old[o].in
             v == <<p, j>>
  <2>1. \A a \in DOMAIN f : a # i
    OBVIOUS
  <2> HIDE DEF f, v
  <2>2. /\ DOMAIN Irs!Put(f, i, v) = DOMAIN f \cup {i} /\ Irs!Put(f, i, v)[i] = v
        /\ \A k \in DOMAIN f : k # i => Irs!Put(f, i, v)[k] = f[k]
    BY DEF Irs!Put
  <2>3. new[o].in = Irs!Put(f, i, v)
    BY DEF f, v
  <2> QED BY <2>1, <2>2, <2>3 DEF f, v
<1>4. \A q \in Ids : \A b, k \in Int : Place(new, q, b, k) <=> Place(old, q, b, k) \/ (q = p /\ b = j /\ k = n + 1)
  <2> SUFFICES ASSUME NEW q \in Ids, NEW b \in Int, NEW k \in Int
               PROVE  Place(new, q, b, k) <=> Place(old, q, b, k) \/ (q = p /\ b = j /\ k = n + 1)
    OBVIOUS
  <2>1. CASE q # p \/ b # j
    BY <1>2, <2>1 DEF Place
  <2>2. CASE q = p /\ b = j
    <3>1. Place(new, q, b, k) <=> k \in 1 .. n + 1
      BY <1>1, <1>2, <2>2 DEF Place
    <3>2. Place(old, q, b, k) <=> k \in 1 .. n
      BY <1>1, <2>2 DEF Place, Count
    <3> HIDE DEF n
    <3> QED BY <1>1, <2>2, <3>1, <3>2
  <2> QED BY <2>1, <2>2
<1>5. \A q \in Ids : \A b, k \in Int : Place(old, q, b, k) => new[q].out[b][k] = old[q].out[b][k]
  <2> SUFFICES ASSUME NEW q \in Ids, NEW b \in Int, NEW k \in Int, Place(old, q, b, k)
               PROVE  new[q].out[b][k] = old[q].out[b][k]
    OBVIOUS
  <2>1. CASE q # p \/ b # j
    BY <1>2, <2>1 DEF Place
  <2>2. CASE q = p /\ b = j
    <3>1. j \in DOMAIN old[p].out /\ k \in 1 .. n
      BY <2>2 DEF Place, Count
    <3> QED BY <1>1, <1>2, <2>2, <3>1
  <2> QED BY <2>1, <2>2
<1>6. new[p].out[j][n + 1] = e
  BY <1>1, <1>2
<1>7. ASSUME NEW q \in Ids, NEW b \in Int, NEW k \in Int, Place(old, q, b, k)
      PROVE  old[q].out[b][k] \in Peer /\ Reads(old, old[q].out[b][k], q, b) /\ old[q].out[b][k] # e
  <2>1. b \in DOMAIN old[q].out /\ k \in 1 .. Len(old[q].out[b]) /\ old[q].out \in [DOMAIN old[q].out -> Seq(Peer)]
    BY <1>7 DEF OperatorFits, Place
  <2>2. old[q].out[b] \in Seq(Peer)
    BY <2>1
  <2>3. old[q].out[b][k] \in Peer
    BY <2>1, <2>2, ElementOfSeq
  <2>4. Reads(old, old[q].out[b][k], q, b)
    BY <1>7 DEF LinksKept
  <2>5. ASSUME old[q].out[b][k] = e PROVE FALSE
    <3>1. Reads(old, <<o, i>>, q, b)
      BY <2>4, <2>5
    <3> QED BY <3>1 DEF Reads
  <2> QED BY <2>3, <2>4, <2>5
<1>8. \A q \in Ids : \A a \in DOMAIN old[q].in : a \in DOMAIN new[q].in /\ new[q].in[a] = old[q].in[a]
  BY <1>3
<1> HIDE DEF n
<1>9. \A q \in Ids : \A b, k \in Int : Place(new, q, b, k) => Reads(new, new[q].out[b][k], q, b)
  <2> SUFFICES ASSUME NEW q \in Ids, NEW b \in Int, NEW k \in Int, Place(new, q, b, k)
               PROVE  Reads(new, new[q].out[b][k], q, b)
    OBVIOUS
  <2>1. CASE Place(old, q, b, k)
    <3> DEFINE r == old[q].out[b][k]
    <3>1. r \in Peer /\ Reads(old, r, q, b) /\ new[q].out[b][k] = r
      BY <1>5, <1>7, <2>1
    <3>2. r[1] \in Ids
      BY <3>1 DEF Peer
    <3> HIDE DEF r
    <3> QED BY <1>8, <3>1, <3>2 DEF Reads
  <2>2. CASE q = p /\ b = j /\ k = n + 1
    <3>1. new[q].out[b][k] = <<o, i>>
      BY <1>6, <2>2
    <3>2. Reads(new, <<o, i>>, p, j)
      BY <1>3 DEF Reads
    <3> QED BY <2>2, <3>1, <3>2
  <2> QED BY <1>4, <2>1, <2>2
<1>10. \A q \in Ids : \A b, k, l \in Int :
         Place(new, q, b, k) /\ Place(new, q, b, l) /\ new[q].out[b][k] = new[q].out[b][l] => k = l
  <2> SUFFICES ASSUME NEW q \in Ids, NEW b \in Int, NEW k \in Int, NEW l \in Int, Place(new, q, b, k),
                      Place(new, q, b, l), new[q].out[b][k] = new[q].out[b][l]
               PROVE  k = l
    OBVIOUS
  <2>1. CASE Place(old, q, b, k) /\ Place(old, q, b, l)
    BY <1>5, <2>1 DEF LinksKept
  <2>2. CASE Place(old, q, b, k) /\ ~Place(old, q, b, l)
    BY <1>4, <1>5, <1>6, <1>7, <2>2
  <2>3. CASE ~Place(old, q, b, k) /\ Place(old, q, b, l)
    BY <1>4, <1>5, <1>6, <1>7, <2>3
  <2>4. CASE ~Place(old, q, b, k) /\ ~Place(old, q, b, l)
    BY <1>4, <2>4
  <2> QED BY <2>1, <2>2, <2>3, <2>4
<1>11. \A q \in Ids : \A a \in Int : a \in DOMAIN new[q].in => Lists(new, new[q].in[a][1], new[q].in[a][2], <<q, a>>)
  <2> SUFFICES ASSUME NEW q \in Ids, NEW a \in Int, a \in DOMAIN new[q].in
               PROVE  Lists(new, new[q].in[a][1], new[q].in[a][2], <<q, a>>)
    OBVIOUS
  <2>1. CASE a \in DOMAIN old[q].in
    <3>1. Lists(old, old[q].in[a][1], old[q].in[a][2], <<q, a>>) /\ old[q].in[a] \in Peer
      BY <2>1 DEF LinksKept, OperatorFits
    <3>2. old[q].in[a][1] \in Ids /\ old[q].in[a][2] \in Int
      BY <3>1 DEF Peer
    <3>3. PICK k \in Int : /\ Place(old, old[q].in[a][1], old[q].in[a][2], k)
                           /\ old[old[q].in[a][1]].out[old[q].in[a][2]][k] = <<q, a>>
      BY <3>1 DEF Lists
    <3>4. new[q].in[a] = old[q].in[a]
      BY <1>8, <2>1
    <3> DEFINE from == old[q].in[a][1]
               out == old[q].in[a][2]
    <3> HIDE DEF from, out
    <3>5. Place(new, from, out, k) /\ new[from].out[out][k] = <<q, a>>
      BY <1>4, <1>5, <3>2, <3>3 DEF from, out
    <3>6. new[q].in[a][1] = from /\ new[q].in[a][2] = out
      BY <3>4 DEF from, out
    <3> QED BY <3>5, <3>6 DEF Lists
  <2>2. CASE a \notin DOMAIN old[q].in
    <3>1. q = o /\ a = i
      BY <1>3, <2>2
    <3>2. Place(new, p, j, n + 1) /\ n + 1 \in Int
      BY <1>1, <1>4
    <3>3. new[q].in[a][1] = p /\ new[q].in[a][2] = j
      BY <1>3, <3>1
    <3> QED BY <1>6, <3>1, <3>2, <3>3 DEF Lists
  <2> QED BY <2>1, <2>2
<1> QED BY <1>9, <1>10, <1>11 DEF LinksKept

(***************************************************************************)
(* The calls.                                                              *)
(***************************************************************************)

\* A field that is not a link is changed.
LEMMA FieldChanged ==
  ASSUME NEW op, OperatorFits(op), NEW f \in Fields, NEW v
  PROVE  LET q == [op EXCEPT ![f] = v] IN OperatorFits(q) /\ q.in = op.in /\ q.out = op.out
<1> DEFINE q == [op EXCEPT ![f] = v]
<1>1. /\ op = [k \in Fields \cup {"in", "out"} |-> op[k]]
      /\ op.in \in [DOMAIN op.in -> Peer] /\ DOMAIN op.in \subseteq Int
      /\ op.out \in [DOMAIN op.out -> Seq(Peer)] /\ DOMAIN op.out \subseteq Int
  BY DEF OperatorFits
<1>2. q = [k \in Fields \cup {"in", "out"} |-> IF k = f THEN v ELSE op[k]]
  BY <1>1
<1>3. f # "in" /\ f # "out"
  BY DEF Fields
<1>4. q.in = op.in /\ q.out = op.out
  BY <1>2, <1>3
<1>5. q = [k \in Fields \cup {"in", "out"} |-> q[k]]
  BY <1>2
<1> HIDE DEF q
<1>6. OperatorFits(q)
  BY <1>1, <1>4, <1>5 DEF OperatorFits
<1> QED BY <1>4, <1>6 DEF q

\* A fresh operator has no links.
LEMMA OperatorFresh ==
  ASSUME NEW new
  PROVE  OperatorFits(Irs!Operator(new)) /\ Irs!Operator(new).in = <<>> /\ Irs!Operator(new).out = <<>>
<1> DEFINE op == Irs!Operator(new)
<1>1. op = [k \in Fields \cup {"in", "out"} |-> op[k]] /\ op.in = <<>> /\ op.out = <<>>
  BY DEF Irs!Operator, Fields
<1>2. <<>> \in [{} -> Peer] /\ <<>> \in [{} -> Seq(Peer)] /\ DOMAIN <<>> = {}
  OBVIOUS
<1> HIDE DEF op
<1>3. OperatorFits(op)
  BY <1>1, <1>2 DEF OperatorFits
<1> QED BY <1>1, <1>3 DEF op

LEMMA LinksInit == Irs!Init => LinksInv
<1> SUFFICES ASSUME Irs!Init PROVE LinksInv
  OBVIOUS
<1>1. NetworkWellFormed(app)
  BY NetworksAssumption DEF Irs!Init
<1>2. ops = [o \in Ids |-> Irs!Operator(app.ops[o])]
  BY DEF Irs!Init, Ids
<1>3. \A o \in Ids : OperatorFits(ops[o]) /\ ops[o].in = <<>> /\ ops[o].out = <<>>
  BY <1>2, OperatorFresh
<1>4. LinksKept(ops)
  <2>1. \A o \in Ids : DOMAIN ops[o].in = {} /\ DOMAIN ops[o].out = {}
    BY <1>3
  <2> QED BY <2>1 DEF LinksKept, Place
<1> QED BY <1>1, <1>2, <1>3, <1>4 DEF LinksInv, NetworkFits, Fit

\* An operator is replaced by one with the same links.
LEMMA OperatorChanged ==
  ASSUME NEW old, Fit(old), LinksKept(old), NEW o \in Ids, NEW op, OperatorFits(op), op.in = old[o].in, op.out = old[o].out
  PROVE  Fit([old EXCEPT ![o] = op]) /\ LinksKept([old EXCEPT ![o] = op])
<1> DEFINE new == [old EXCEPT ![o] = op]
<1>1. new = [q \in Ids |-> IF q = o THEN op ELSE old[q]]
  BY DEF Fit
<1>2. \A q \in Ids : new[q].in = old[q].in /\ new[q].out = old[q].out
  BY <1>1
<1>3. Fit(new)
  BY <1>1 DEF Fit
<1> HIDE DEF new
<1>4. LinksKept(new)
  BY <1>2, SameLinks DEF Fit
<1> QED BY <1>3, <1>4 DEF new

LEMMA OneFieldChanged ==
  ASSUME NEW old, Fit(old), LinksKept(old), NEW o \in Ids, NEW f \in Fields, NEW v
  PROVE  LET new == [old EXCEPT ![o] = [@ EXCEPT ![f] = v]] IN Fit(new) /\ LinksKept(new)
<1> DEFINE op == old[o]
           q == [op EXCEPT ![f] = v]
<1>1. OperatorFits(op)
  BY DEF Fit
<1>2. OperatorFits(q) /\ q.in = op.in /\ q.out = op.out
  <2> HIDE DEF op
  <2> QED BY <1>1, FieldChanged
<1>3. [old EXCEPT ![o] = [@ EXCEPT ![f] = v]] = [old EXCEPT ![o] = q]
  BY DEF Fit
<1> HIDE DEF q
<1>4. Fit([old EXCEPT ![o] = q]) /\ LinksKept([old EXCEPT ![o] = q])
  BY <1>2, OperatorChanged
<1> QED BY <1>3, <1>4

\* The reader of a link, the operators with the reader linked, and with both linked.
Reader(op, i, e, d) == [op EXCEPT !.in = Irs!Put(op.in, i, e), !.described = d]
WithReader(old, o, i, p, j, d) == [old EXCEPT ![o] = Reader(old[o], i, <<p, j>>, d)]
WithLink(old, o, i, p, j, d) ==
  LET linked == WithReader(old, o, i, p, j, d) IN [linked EXCEPT ![p] = Irs!LinkToOutputOp(linked[p], j, <<o, i>>)]

\* A link is put into the inputs of its reader, and into the readers of its source.
LEMMA InputPut ==
  ASSUME NEW op, OperatorFits(op), NEW i \in Int, NEW e \in Peer, NEW d
  PROVE  /\ OperatorFits(Reader(op, i, e, d)) /\ Reader(op, i, e, d).in = Irs!Put(op.in, i, e)
         /\ Reader(op, i, e, d).out = op.out
<1> DEFINE g == op.in
           v == Irs!Put(g, i, e)
           q == Reader(op, i, e, d)
<1>0. q = [op EXCEPT !.in = v, !.described = d]
  BY DEF Reader
<1> HIDE DEF q
<1>1. /\ op = [k \in Fields \cup {"in", "out"} |-> op[k]]
      /\ op.in \in [DOMAIN op.in -> Peer] /\ DOMAIN op.in \subseteq Int
      /\ op.out \in [DOMAIN op.out -> Seq(Peer)] /\ DOMAIN op.out \subseteq Int
  BY DEF OperatorFits
<1>2. v \in [DOMAIN v -> Peer] /\ DOMAIN v \subseteq Int
  <2> HIDE DEF g
  <2>1. g \in [DOMAIN g -> Peer] /\ DOMAIN g \subseteq Int
    BY <1>1 DEF g
  <2>2. v = [k \in DOMAIN g \cup {i} |-> IF k = i THEN e ELSE g[k]]
    BY DEF Irs!Put
  <2> QED BY <2>1, <2>2
<1> HIDE DEF v
<1>3. q = [k \in Fields \cup {"in", "out"} |-> IF k = "in" THEN v ELSE IF k = "described" THEN d ELSE op[k]]
  BY <1>0, <1>1
<1>4. q.in = v /\ q.out = op.out
  BY <1>3 DEF Fields
<1>5. q = [k \in Fields \cup {"in", "out"} |-> q[k]]
  BY <1>3
<1>6. OperatorFits(q)
  BY <1>1, <1>2, <1>4, <1>5 DEF OperatorFits
<1> QED BY <1>4, <1>6 DEF q, v

LEMMA OutputPut ==
  ASSUME NEW op, OperatorFits(op), NEW j \in Int, NEW e \in Peer
  PROVE  LET q == Irs!LinkToOutputOp(op, j, e)
         IN OperatorFits(q) /\ q.in = op.in /\ q.out = Irs!Put(op.out, j, Longer(op, j, e))
<1> DEFINE s == Longer(op, j, e)
           g == op.out
           v == Irs!Put(g, j, s)
           q == [op EXCEPT !.out = v]
<1>1. /\ op = [k \in Fields \cup {"in", "out"} |-> op[k]]
      /\ op.in \in [DOMAIN op.in -> Peer] /\ DOMAIN op.in \subseteq Int
      /\ op.out \in [DOMAIN op.out -> Seq(Peer)] /\ DOMAIN op.out \subseteq Int
  BY DEF OperatorFits
<1>2. s \in Seq(Peer)
  BY OneMore DEF IsOneMore
<1>0. Irs!LinkToOutputOp(op, j, e) = q
  BY DEF Irs!LinkToOutputOp, Longer, Readers
<1> HIDE DEF s
<1>3. v \in [DOMAIN v -> Seq(Peer)] /\ DOMAIN v \subseteq Int
  <2> HIDE DEF g
  <2>1. g \in [DOMAIN g -> Seq(Peer)] /\ DOMAIN g \subseteq Int
    BY <1>1 DEF g
  <2>2. v = [k \in DOMAIN g \cup {j} |-> IF k = j THEN s ELSE g[k]]
    BY DEF Irs!Put
  <2> QED BY <1>2, <2>1, <2>2
<1> HIDE DEF v
<1>4. q = [k \in Fields \cup {"in", "out"} |-> IF k = "out" THEN v ELSE op[k]]
  BY <1>1
<1>5. q.out = v /\ q.in = op.in
  BY <1>4 DEF Fields
<1>6. q = [k \in Fields \cup {"in", "out"} |-> q[k]]
  BY <1>4
<1> HIDE DEF q
<1>7. OperatorFits(q)
  BY <1>1, <1>3, <1>5, <1>6 DEF OperatorFits
<1>8. OperatorFits(q) /\ q.in = op.in /\ q.out = Irs!Put(op.out, j, Longer(op, j, e))
  BY <1>5, <1>7 DEF v, s
<1> QED BY <1>0, <1>8

\* A link is put into both operators, which may be one.
LEMMA LinkPut ==
  ASSUME NEW old, Fit(old), LinksKept(old), NEW o \in Ids, NEW p \in Ids, NEW i \in Int, NEW j \in Int,
         i \notin DOMAIN old[o].in, NEW d
  PROVE  Fit(WithLink(old, o, i, p, j, d)) /\ LinksKept(WithLink(old, o, i, p, j, d))
<1> DEFINE e == <<p, j>>
           r == <<o, i>>
           op == old[o]
           first == Reader(op, i, e, d)
           linked == WithReader(old, o, i, p, j, d)
           lp == linked[p]
           second == Irs!LinkToOutputOp(lp, j, r)
           new == WithLink(old, o, i, p, j, d)
<1>1. e \in Peer /\ r \in Peer
  BY DEF Peer
<1>2. OperatorFits(first) /\ first.in = Irs!Put(op.in, i, e) /\ first.out = op.out
  <2>1. OperatorFits(op)
    BY DEF Fit
  <2> HIDE DEF e, op
  <2> QED BY <1>1, <2>1, InputPut
<1>3. linked = [q \in Ids |-> IF q = o THEN first ELSE old[q]]
  BY DEF Fit, WithReader
<1> HIDE DEF first, linked, new
<1>4. OperatorFits(lp)
  BY <1>2, <1>3 DEF Fit
<1>5. \A q \in Ids : linked[q].out = old[q].out
  BY <1>2, <1>3
<1>6. linked[o].in = Irs!Put(old[o].in, i, e) /\ \A q \in Ids \ {o} : linked[q].in = old[q].in
  BY <1>2, <1>3
<1>7. OperatorFits(second) /\ second.in = lp.in /\ second.out = Irs!Put(lp.out, j, Longer(lp, j, r))
  <2> HIDE DEF lp, r
  <2> QED BY <1>1, <1>4, OutputPut
<1>8. \A q \in Ids : OperatorFits(linked[q])
  BY <1>2, <1>3 DEF Fit
<1>9. Irs!Put(lp.out, j, Longer(lp, j, r)) = Irs!Put(old[p].out, j, Longer(old[p], j, r))
  <2>1. lp.out = old[p].out
    BY <1>5
  <2> HIDE DEF lp
  <2> QED BY <2>1 DEF Longer, Readers
<1>10. linked = [q \in Ids |-> linked[q]]
  BY <1>3
<1> HIDE DEF second, lp
<1>11. new = [q \in Ids |-> IF q = p THEN second ELSE linked[q]]
  <2>1. new = [linked EXCEPT ![p] = second]
    BY DEF new, linked, second, lp, WithLink
  <2> QED BY <1>10, <2>1
<1>12. Fit(new)
  BY <1>7, <1>8, <1>11 DEF Fit
<1>13. \A q \in Ids : new[q].in = linked[q].in
  BY <1>7, <1>11 DEF lp
<1>14. new[p].out = Irs!Put(old[p].out, j, Longer(old[p], j, r)) /\ \A q \in Ids \ {p} : new[q].out = old[q].out
  BY <1>5, <1>7, <1>9, <1>11
<1>15. LinksKept(new)
  <2>1. new[o].in = Irs!Put(old[o].in, i, <<p, j>>) /\ \A q \in Ids \ {o} : new[q].in = old[q].in
    BY <1>6, <1>13
  <2>2. new[p].out = Irs!Put(old[p].out, j, Longer(old[p], j, <<o, i>>)) /\ \A q \in Ids \ {p} : new[q].out = old[q].out
    BY <1>14
  <2>3. \A q \in Ids : OperatorFits(old[q])
    BY DEF Fit
  <2> QED BY <2>1, <2>2, <2>3, LinkAdded
<1> QED BY <1>12, <1>15 DEF new

LEMMA ImplSetInputKeeps ==
  ASSUME NEW c, Fit(ops), LinksKept(ops), c.op \in Ids, c.from \in Ids, c.index \in Int, c.output \in Int
  PROVE  Fit(Irs!ImplSetInput(ops, c)) /\ LinksKept(Irs!ImplSetInput(ops, c))
<1> DEFINE to == ops[c.op]
           from == ops[c.from]
           j == IF c.output = Irs!Only THEN 0 ELSE c.output
           refused ==
             \/ c.index \notin -1 .. (Len(to.described) - 1) \/ c.index \in DOMAIN to.in
             \/ j \notin -1 .. (from.outs - 1) \/ (c.output = Irs!Only /\ from.outs # 1)
           d == IF c.index = -1 \/ j = -1 THEN to.described ELSE [to.described EXCEPT ![c.index + 1] = TRUE]
           linked == [ops EXCEPT ![c.op].in = Irs!Put(@, c.index, <<c.from, j>>),
                                 ![c.op].described = IF c.index = -1 \/ j = -1 THEN @ ELSE [@ EXCEPT ![c.index + 1] = TRUE]]
           new == [linked EXCEPT ![c.from] = Irs!LinkToOutputOp(linked[c.from], j, <<c.op, c.index>>)]
<1>1. Irs!ImplSetInput(ops, c) =
        IF refused THEN ops ELSE new
  BY DEF Irs!ImplSetInput
<1>2. j \in Int
  OBVIOUS
<1>3. CASE refused
  BY <1>1, <1>3
<1>4. CASE ~refused
  <2>1. c.index \notin DOMAIN to.in
    BY <1>4
  <2>2. linked = WithReader(ops, c.op, c.index, c.from, j, d)
    <3> DEFINE v == Irs!Put(to.in, c.index, <<c.from, j>>)
               one == [ops EXCEPT ![c.op] = [to EXCEPT !.in = v]]
    <3>1. to = [k \in Fields \cup {"in", "out"} |-> to[k]] /\ ops = [q \in Ids |-> ops[q]]
      BY DEF Fit, OperatorFits
    <3>2. linked = [one EXCEPT ![c.op] = [one[c.op] EXCEPT !.described =
                      IF c.index = -1 \/ j = -1 THEN @ ELSE [@ EXCEPT ![c.index + 1] = TRUE]]]
      OBVIOUS
    <3>3. one[c.op] = [to EXCEPT !.in = v] /\ one[c.op].described = to.described
      BY <3>1 DEF Fields
    <3> QED BY <3>1, <3>2, <3>3 DEF WithReader, Reader
  <2> HIDE DEF refused, linked, d, j
  <2>4. new = WithLink(ops, c.op, c.index, c.from, j, d)
    BY <2>2 DEF WithLink
  <2> HIDE DEF new
  <2>5. Fit(new) /\ LinksKept(new)
    BY <1>2, <2>1, <2>4, LinkPut
  <2> QED BY <1>1, <1>4, <2>5
<1> QED BY <1>3, <1>4

\* Noting whether a source is a Const changes no link.
LEMMA SetOpIsInputConstKeeps ==
  ASSUME NEW old, Fit(old), LinksKept(old), NEW o \in Ids, NEW i, NEW const
  PROVE  LET new == [old EXCEPT ![o] = Irs!SetOpIsInputConst(old[o], i, const)] IN Fit(new) /\ LinksKept(new)
<1> DEFINE op == old[o]
           noted == [k \in 1 .. (IF i < Len(op.isInputConst) THEN Len(op.isInputConst) ELSE i + 1) |->
                       IF k = i + 1 THEN const ELSE k <= Len(op.isInputConst) /\ op.isInputConst[k]]
           q == [op EXCEPT !["isInputConst"] = noted]
<1>1. OperatorFits(op)
  BY DEF Fit
<1>2. Irs!SetOpIsInputConst(op, i, const) = q
  BY DEF Irs!SetOpIsInputConst
<1> HIDE DEF noted
<1>3. OperatorFits(q) /\ q.in = op.in /\ q.out = op.out
  <2> HIDE DEF op
  <2>1. "isInputConst" \in Fields
    BY DEF Fields
  <2> DEFINE f == "isInputConst"
  <2> HIDE DEF f
  <2>2. OperatorFits([op EXCEPT ![f] = noted]) /\ [op EXCEPT ![f] = noted].in = op.in /\ [op EXCEPT ![f] = noted].out = op.out
    BY <1>1, <2>1, FieldChanged DEF f
  <2> QED BY <2>2 DEF f
<1> HIDE DEF q
<1>4. Fit([old EXCEPT ![o] = q]) /\ LinksKept([old EXCEPT ![o] = q])
  BY <1>3, OperatorChanged
<1> QED BY <1>2, <1>4

CallMade(c) == c \in app.calls /\ app' = [app EXCEPT !.calls = @ \ {c}]

LEMMA CallsFit ==
  ASSUME LinksInv, NEW c \in app.calls
  PROVE  /\ c.op \in Ids /\ (c.call = "SetInput" => c.from \in Ids /\ c.index \in Int /\ c.output \in Int)
         /\ c.call \in {"SetInput", "UpdateInputDesc", "SetGraphBuilder", "SubgraphCountRegister", "SetSubgraphBuilder", "Destroy"}
  BY DEF LinksInv, NetworkFits, NetworkWellFormed, Ids

LEMMA Changed == ASSUME LinksInv, NEW c, CallMade(c), Fit(ops'), LinksKept(ops') PROVE LinksInv'
  BY LinksChanged DEF CallMade

LEMMA SetInputKeeps == ASSUME LinksInv, NEW c, CallMade(c), c.call = "SetInput", Irs!SetInput(c) PROVE LinksInv'
<1> DEFINE after == Irs!ImplSetInput(ops, c)
           notes == c.index >= 0 /\ (c.by = "index" \/ c.index < Len(ops[c.op].described))
           const == ops[c.from].type = "Const"
           noted == [after EXCEPT ![c.op] = Irs!SetOpIsInputConst(after[c.op], c.index, const)]
<1>1. ops' = IF notes THEN noted ELSE after
  BY DEF Irs!SetInput
<1>2. c.op \in Ids /\ c.from \in Ids /\ c.index \in Int /\ c.output \in Int
  BY CallsFit DEF CallMade
<1>3. Fit(after) /\ LinksKept(after)
  BY <1>2, ImplSetInputKeeps DEF LinksInv, NetworkFits
<1> HIDE DEF after, notes, const
<1>4. Fit(noted) /\ LinksKept(noted)
  BY <1>2, <1>3, SetOpIsInputConstKeeps
<1> HIDE DEF noted
<1>5. Fit(ops') /\ LinksKept(ops')
  BY <1>1, <1>3, <1>4
<1> QED BY <1>5, Changed

\* Calls that change a field of one operator.
LEMMA FieldCallKeeps ==
  ASSUME LinksInv, NEW c, CallMade(c), NEW f \in Fields, NEW v, ops' = [ops EXCEPT ![c.op] = [ops[c.op] EXCEPT ![f] = v]]
  PROVE  LinksInv'
<1> DEFINE op == ops[c.op]
           q == [op EXCEPT ![f] = v]
           new == [ops EXCEPT ![c.op] = q]
<1>1. c.op \in Ids /\ Fit(ops) /\ LinksKept(ops)
  BY CallsFit DEF CallMade, LinksInv, NetworkFits
<1>2. OperatorFits(op)
  BY <1>1 DEF Fit
<1>3. OperatorFits(q) /\ q.in = op.in /\ q.out = op.out
  <2> HIDE DEF op
  <2> QED BY <1>2, FieldChanged
<1>4. ops' = new
  OBVIOUS
<1> HIDE DEF q
<1>5. Fit(new) /\ LinksKept(new)
  BY <1>1, <1>3, OperatorChanged
<1> QED BY <1>4, <1>5, Changed

LEMMA UpdateInputDescKeeps == ASSUME LinksInv, NEW c, CallMade(c), Irs!UpdateInputDesc(c) PROVE LinksInv'
<1> DEFINE v == [ops[c.op].described EXCEPT ![c.index + 1] = TRUE]
<1>1. ops' = [ops EXCEPT ![c.op] = [ops[c.op] EXCEPT !["described"] = v]] /\ "described" \in Fields
  BY DEF Irs!UpdateInputDesc, Fields
<1> QED BY <1>1, FieldCallKeeps

LEMMA SubgraphCountRegisterKeeps == ASSUME LinksInv, NEW c, CallMade(c), Irs!SubgraphCountRegister(c) PROVE LinksInv'
<1> DEFINE v == [i \in 1 .. c.number |-> i - 1]
<1>1. ops' = [ops EXCEPT ![c.op] = [ops[c.op] EXCEPT !["named"] = v]] /\ "named" \in Fields
  BY DEF Irs!SubgraphCountRegister, Fields
<1> QED BY <1>1, FieldCallKeeps

Builders(op, c) ==
  IF c.branch \in DOMAIN op.builders THEN op.builders ELSE Irs!Put(op.builders, c.branch, c.builder)

LEMMA SetSubgraphBuilderKeeps == ASSUME LinksInv, NEW c, CallMade(c), Irs!SetSubgraphBuilder(c) PROVE LinksInv'
<1> DEFINE v == Builders(ops[c.op], c)
<1>1. ops' = [ops EXCEPT ![c.op] = [ops[c.op] EXCEPT !["builders"] = v]] /\ "builders" \in Fields
  BY DEF Irs!SetSubgraphBuilder, Fields, Builders
<1> QED BY <1>1, FieldCallKeeps

LEMMA DestroyOperatorKeeps == ASSUME LinksInv, NEW c, CallMade(c), Irs!DestroyOperator(c) PROVE LinksInv'
<1>1. ops' = [ops EXCEPT ![c.op] = [ops[c.op] EXCEPT !["alive"] = FALSE]] /\ "alive" \in Fields
  BY DEF Irs!DestroyOperator, Fields
<1> QED BY <1>1, FieldCallKeeps

LEMMA SetGraphBuilderKeeps == ASSUME LinksInv, NEW c, CallMade(c), Irs!SetGraphBuilder(c) PROVE LinksInv'
<1> DEFINE v == IF c.branch \in ToSet(ops[c.op].named) THEN ops[c.op].named ELSE Append(ops[c.op].named, c.branch)
           one == [ops EXCEPT ![c.op] = [ops[c.op] EXCEPT !["named"] = v]]
           w == Builders(one[c.op], c)
           op == one[c.op]
           q == [op EXCEPT !["builders"] = w]
           two == [one EXCEPT ![c.op] = q]
<1>1. c.op \in Ids /\ Fit(ops) /\ LinksKept(ops)
  BY CallsFit DEF CallMade, LinksInv, NetworkFits
<1>2. "named" \in Fields /\ "builders" \in Fields
  BY DEF Fields
<1>3. ops' = two
  BY Zenon DEF Irs!SetGraphBuilder, Builders, Irs!ToSet, ToSet
<1> HIDE DEF v
<1>4. Fit(one) /\ LinksKept(one)
  <2> DEFINE f == "named"
             t == ops[c.op]
             r == [t EXCEPT ![f] = v]
  <2>1. OperatorFits(t)
    BY <1>1 DEF Fit
  <2> HIDE DEF t, f
  <2>2. OperatorFits(r) /\ r.in = t.in /\ r.out = t.out
    BY <1>2, <2>1, FieldChanged DEF f
  <2> HIDE DEF r
  <2>3. Fit([ops EXCEPT ![c.op] = r]) /\ LinksKept([ops EXCEPT ![c.op] = r])
    BY <1>1, <2>2, OperatorChanged DEF t
  <2> QED BY <2>3 DEF r, t, f
<1> HIDE DEF one, w
<1>5. OperatorFits(op)
  BY <1>1, <1>4 DEF Fit
<1>6. OperatorFits(q) /\ q.in = op.in /\ q.out = op.out
  <2> DEFINE f == "builders"
  <2> HIDE DEF op, f
  <2>1. f \in Fields
    BY <1>2 DEF f
  <2>2. OperatorFits([op EXCEPT ![f] = w]) /\ [op EXCEPT ![f] = w].in = op.in /\ [op EXCEPT ![f] = w].out = op.out
    BY <1>5, <2>1, FieldChanged
  <2> QED BY <2>2 DEF f
<1> HIDE DEF q
<1>7. Fit(two) /\ LinksKept(two)
  BY <1>1, <1>4, <1>6, OperatorChanged
<1> QED BY <1>3, <1>7, Changed

LEMMA CallKeeps == LinksInv /\ Irs!Call => LinksInv'
<1> SUFFICES ASSUME LinksInv, Irs!Call PROVE LinksInv'
  OBVIOUS
<1>1. PICK c \in app.calls :
        /\ app' = [app EXCEPT !.calls = @ \ {c}]
        /\ CASE c.call = "SetInput" -> Irs!SetInput(c)
             [] c.call = "UpdateInputDesc" -> Irs!UpdateInputDesc(c)
             [] c.call = "SetGraphBuilder" -> Irs!SetGraphBuilder(c)
             [] c.call = "SubgraphCountRegister" -> Irs!SubgraphCountRegister(c)
             [] c.call = "SetSubgraphBuilder" -> Irs!SetSubgraphBuilder(c)
             [] c.call = "Destroy" -> Irs!DestroyOperator(c)
  BY DEF Irs!Call
<1>2. CallMade(c)
  BY <1>1 DEF CallMade
<1>3. CASE c.call = "SetInput"
  BY <1>1, <1>2, <1>3, SetInputKeeps
<1>4. CASE c.call = "UpdateInputDesc"
  BY <1>1, <1>2, <1>4, UpdateInputDescKeeps
<1>5. CASE c.call = "SetGraphBuilder"
  BY <1>1, <1>2, <1>5, SetGraphBuilderKeeps
<1>6. CASE c.call = "SubgraphCountRegister"
  BY <1>1, <1>2, <1>6, SubgraphCountRegisterKeeps
<1>7. CASE c.call = "SetSubgraphBuilder"
  BY <1>1, <1>2, <1>7, SetSubgraphBuilderKeeps
<1>8. CASE c.call = "Destroy"
  BY <1>1, <1>2, <1>8, DestroyOperatorKeeps
<1> QED BY <1>3, <1>4, <1>5, <1>6, <1>7, <1>8, CallsFit

LEMMA LinksStay == LinksInv /\ UNCHANGED <<app, ops>> => LinksInv'
  BY LinksChanged DEF LinksInv, NetworkFits

\* A graph is built, saved and loaded from the operators, which stay as they are.
LEMMA LinksNext == LinksInv /\ Irs!Next => LinksInv'
  BY CallKeeps, LinksStay DEF Irs!Next, Irs!SetInputs, Irs!SetOutputs, Irs!Save, Irs!Load

\* Whatever an application links, refuses to link twice or destroys, the two operators
\* of a link agree on it: an input that is linked stands once among the readers of its
\* source's output, and an input that is not linked in no such list, so a walk of the
\* graph finds a link from both of its ends or not at all (OperatorImpl::SetInput and
\* LinkToOutputOp, operator_impl.cpp:44-133).
THEOREM LinksAreSound == RecordsSpec => []LinksSound
<1> DEFINE Inv == part = "graphs" => LinksInv
<1>1. RecordsInit => Inv
  BY LinksInit DEF RecordsInit
<1>2. Inv /\ [RecordsNext]_recordVars => Inv'
  <2> SUFFICES ASSUME Inv, [RecordsNext]_recordVars, part' = "graphs" PROVE LinksInv'
    OBVIOUS
  <2>1. CASE GraphsStep
    BY <2>1, LinksNext DEF GraphsStep
  <2>2. CASE UNCHANGED recordVars
    BY <2>2, LinksStay DEF recordVars, graphVars
  <2> QED BY <2>1, <2>2 DEF RecordsNext, OptionsStep, ModelsStep, ParasStep, AttrsStep, BuffersStep
<1>3. Inv => LinksSound
  BY LinksAgreed DEF LinksSound
<1> QED BY <1>1, <1>2, <1>3, PTL DEF RecordsSpec
=============================================================================
