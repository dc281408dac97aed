---------------------------- MODULE TensorBuffers ----------------------------
(***************************************************************************)
(* Tensor buffers: a record of the DDK in front of memory that the DDK     *)
(* allocated, that the application lent, or that an object of the ROM      *)
(* holds.  ROM objects come in two generations, HIAI_TensorBuffer and      *)
(* HIAI_NDTensorBuffer ("nd"), each with its own functions; which ones a   *)
(* ROM exports differs, so a creation tries several.  An old HCL runtime   *)
(* wants the first generation, and a run converts the buffers on the way.  *)
(*                                                                         *)
(* A record and its clone of the descriptor are one block; so are a ROM    *)
(* object and what hangs on it, but for the memory it stands for.          *)
(***************************************************************************)
EXTENDS Integers, Sequences, FiniteSets, SequencesExt

CONSTANTS
  Roms,       \* what the foundation library may be: [npu, oldHcl, creators, functions]
  Descs,      \* descriptors of AiTensors: [dims, esize, float]
  Images,     \* images: [format, b, h, w, handle], handle the bytes of the lent memory or 0
  Int32Max,   \* the largest size of an image
  Calls,      \* creations: [by, desc, bytes], the dims of desc empty for none
  Tensors,    \* names of AiTensor objects
  Envs,       \* how a call goes: the malloc that fails, the creators that refuse
  MaxCalls,   \* bound on the calls of a behaviour
  MaxHeld     \* bound on the buffers the application holds at a time

VARIABLES
  rom,        \* the foundation library
  heap,       \* [mem, lost, wrong, env]
  mine,       \* the buffers the application holds
  tensors,    \* the AiTensor objects: [desc, b]
  ran,        \* the conversion that has just happened: [ok, lists, before]
  calls       \* how many calls there were

vars == <<rom, heap, mine, tensors, ran, calls>>

NCHW_DIM_NUM == 4
Lent == 8     \* the bytes of the memory the application lends
NotRun == [ok |-> FALSE, lists |-> {}, before |-> {}]
Quiet == [fault |-> "none", refuses |-> {}, extra |-> 0]
Out(h, b) == [heap |-> h, b |-> b]
Failed(h) == Out(h, 0)
Size(h, b) == h.mem[b].size

-----------------------------------------------------------------------------
(* Memory.                                                                  *)

Block(kind, size) ==
  [kind |-> kind, size |-> size, data |-> 0, handle |-> 0, owner |-> FALSE, legacy |-> FALSE, desc |-> [dims |-> <<>>]]
Fresh(h) == CHOOSE n \in 1..(Cardinality(DOMAIN h.mem) + 1) : n \notin DOMAIN h.mem /\ 1..(n - 1) \subseteq DOMAIN h.mem
Grown(h, b, block) == [h EXCEPT !.mem = [x \in DOMAIN h.mem \cup {b} |-> IF x = b THEN block ELSE h.mem[x]]]
Alloc(h, block) == LET b == Fresh(h) IN Out(Grown(h, b, block), b)
Free(h, b, kind) ==
  IF b \in DOMAIN h.mem /\ h.mem[b].kind = kind THEN [h EXCEPT !.mem = [x \in DOMAIN h.mem \ {b} |-> h.mem[x]]]
  ELSE [h EXCEPT !.wrong = TRUE]
Spent(h) == [h EXCEPT !.env.fault = "none"]

HIAI_NDTensorDesc_GetTotalDimNum(desc) ==
  IF desc.dims = <<>> THEN 0 ELSE FoldLeft(LAMBDA n, d : IF d <= 0 THEN 0 ELSE n * d, 1, desc.dims)
HIAI_NDTensorDesc_GetByteSize(desc) == HIAI_NDTensorDesc_GetTotalDimNum(desc) * desc.esize
Is4D(desc) == Len(desc.dims) = NCHW_DIM_NUM

RecordBlock(desc, data, size, handle, isOwner, isLegacy) ==
  [kind |-> "record", size |-> size, data |-> data, handle |-> handle, owner |-> isOwner, legacy |-> isLegacy,
   desc |-> desc]
HIAI_MR_NDTensorBuffer_Create(h, desc, data, size, handle, isOwner, isLegacy) ==
  IF h.env.fault = "record" THEN Failed(Spent(h))
  ELSE Alloc(h, RecordBlock(desc, data, size, handle, isOwner, isLegacy))

-----------------------------------------------------------------------------
(* Objects of the ROM.                                                      *)

Exports(creator) == creator \in rom.creators
Has(kind, function) == <<kind, function>> \in rom.functions
Made(h, kind, n) ==
  LET memory == Alloc(h, Block("memory", n))
  IN Alloc(memory.heap, [Block(kind, n) EXCEPT !.data = memory.b])

\* A library without the function leaves the object where it is.
HIAI_NDTensorBuffer_Release(h, kind, object) ==
  IF ~Has(kind, "Destroy") THEN [h EXCEPT !.lost = @ \cup {object}]
  ELSE IF h.mem[object].kind # kind THEN [h EXCEPT !.wrong = TRUE]
  ELSE Free(Free(h, h.mem[object].data, "memory"), object, kind)

\* A record in front of a new object of n bytes; what cannot have one is released.
CreateFromTensorBufferKept(h, kind, desc, n) ==     \* faulty: the object is kept
  IF n = 0 THEN Failed(h)
  ELSE LET made == Made(h, kind, n)
       IN IF ~Has(kind, "GetSize") THEN Failed(made.heap)
          ELSE HIAI_MR_NDTensorBuffer_Create(made.heap, desc, made.heap.mem[made.b].data, n, made.b, TRUE, kind = "tensor")
CreateFromTensorBuffer(h, kind, desc, n) ==
  IF n = 0 THEN Failed(h)
  ELSE LET made == Made(h, kind, n)
           data == made.heap.mem[made.b].data
           out == IF ~Has(kind, "GetSize") THEN Failed(made.heap)
                  ELSE HIAI_MR_NDTensorBuffer_Create(made.heap, desc, data, n, made.b, TRUE, kind = "tensor")
       IN IF out.b = 0 THEN Failed(HIAI_NDTensorBuffer_Release(out.heap, kind, made.b)) ELSE out

\* The creators in turn, until one gives a buffer.
Tried(out, desc, t) ==
  IF out.b # 0 \/ ~Exports(t.symbol) \/ t.symbol \in out.heap.env.refuses THEN out
  ELSE CreateFromTensorBuffer(out.heap, t.kind, desc, t.n)
Try(kind, symbol, n) == [kind |-> kind, symbol |-> symbol, n |-> n]
FirstMade(h, desc, tries) ==
  LET made[i \in 0..Len(tries)] == IF i = 0 THEN Failed(h) ELSE Tried(made[i - 1], desc, tries[i])
  IN made[Len(tries)]
Only4D(desc, n) == IF Is4D(desc) THEN n ELSE 0

CreateFromNDTensorDescLegacy(h, desc) ==
  LET n == HIAI_NDTensorDesc_GetByteSize(desc)
  IN IF Exports("nd_create") THEN FirstMade(h, desc, <<Try("nd", "nd_create", n)>>)
     ELSE FirstMade(h, desc, <<Try("tensor", "create_v2", n), Try("tensor", "CreateWithDataType", Only4D(desc, n)),
                               Try("tensor", "create", IF desc.float THEN Only4D(desc, n) ELSE 0)>>)
CreateFromSizeLegacy(h, desc, size) ==
  FirstMade(h, desc, IF Exports("nd_size") THEN <<Try("nd", "nd_size", size)>> ELSE <<Try("tensor", "create_v2", size)>>)
CreateFromFormatLegacy(h, desc, size) ==
  FirstMade(h, desc, <<Try("nd", "nd_image", size + h.env.extra), Try("tensor", "image", Only4D(desc, size + h.env.extra)),
                       Try("tensor", "create_v2", size)>>)
CreateFromNativeHandle(h, desc, size) ==
  FirstMade(h, desc, IF Exports("nd_handle") THEN <<Try("nd", "nd_handle", size)>> ELSE <<Try("tensor", "handle", size)>>)

-----------------------------------------------------------------------------
(* The C functions.                                                         *)

CreateLocalBufferFromSize(h, desc, size) ==
  IF size = 0 THEN Failed(h)
  ELSE IF h.env.fault = "data" THEN Failed(Spent(h))
  ELSE LET data == Alloc(h, Block("local", size))
           out == HIAI_MR_NDTensorBuffer_Create(data.heap, desc, data.b, size, 0, TRUE, FALSE)
       IN IF out.b = 0 THEN Failed(Free(out.heap, data.b, "local")) ELSE out
OrLocal(legacy, desc, size) == IF legacy.b # 0 THEN legacy ELSE CreateLocalBufferFromSize(legacy.heap, desc, size)

CreateFromNDTensorDesc(h, desc) ==
  OrLocal(IF rom.npu THEN CreateFromNDTensorDescLegacy(h, desc) ELSE Failed(h), desc, HIAI_NDTensorDesc_GetByteSize(desc))
CreateFromSize(h, desc, size) ==
  OrLocal(IF rom.npu THEN CreateFromSizeLegacy(h, desc, size) ELSE Failed(h), desc, size)
CreateFromFormat(h, desc, size) ==
  OrLocal(IF rom.npu THEN CreateFromFormatLegacy(h, desc, size) ELSE Failed(h), desc, size)

CreateNoCopy(h, desc, data, dataSize) ==
  IF dataSize = 0 \/ dataSize # HIAI_NDTensorDesc_GetByteSize(desc) THEN Failed(h)
  ELSE HIAI_MR_NDTensorBuffer_Create(h, desc, data, dataSize, 0, FALSE, FALSE)

ReleaseLocal(h, b) == IF h.mem[b].owner THEN Free(h, h.mem[b].data, "local") ELSE h
DestroyLegacy(h, b) == HIAI_NDTensorBuffer_Release(h, IF h.mem[b].legacy THEN "tensor" ELSE "nd", h.mem[b].handle)
Destroy(h, b) == Free(IF h.mem[b].handle = 0 THEN ReleaseLocal(h, b) ELSE DestroyLegacy(h, b), b, "record")

CreateFromBuffer(h, desc, dataSize) ==
  LET out == CreateFromNDTensorDesc(h, desc)
  IN IF out.b # 0 /\ Size(out.heap, out.b) # dataSize THEN Failed(Destroy(out.heap, out.b)) ELSE out

\* -1: no fd; otherwise the object that was asked for it.
GetFd(h, b) ==
  LET kind == IF h.mem[b].legacy THEN "tensor" ELSE "nd"
  IN IF ~rom.npu \/ ~Has(kind, "Fd") \/ h.mem[b].handle = 0 THEN -1 ELSE h.mem[b].handle

-----------------------------------------------------------------------------
(* The C++ functions: images, and a wrapper for each buffer.                *)

CreateHIAINDTensorBuffer(h, desc, dataSize) ==
  LET out == CreateFromFormat(h, desc, dataSize)
  IN IF out.b # 0 /\ Size(out.heap, out.b) # dataSize THEN Failed(Destroy(out.heap, out.b)) ELSE out

sizeScaleMap ==
  [YUV420SP |-> 3, XRGB8888 |-> 4, YUV400 |-> 1, ARGB8888 |-> 4, YUYV |-> 2, YUV422SP |-> 2, AYUV444 |-> 4,
   RGB888 |-> 3, BGR888 |-> 3]
channelMap == [sizeScaleMap EXCEPT !["YUYV"] = 3, !["YUV422SP"] = 3]
Fits(image, scale) ==     \* CheckInputOverflow
  /\ image.b > 0 /\ image.h > 0 /\ image.w > 0
  /\ image.b <= (((Int32Max \div scale) \div image.h) \div image.w)
InitTensorInfo(image) ==     \* the bytes, 0 for an image that is refused
  LET scale == sizeScaleMap[image.format]
      size == image.b * image.h * image.w * scale
  IN IF image.format \notin DOMAIN sizeScaleMap \/ ~Fits(image, scale) THEN 0
     ELSE IF image.format = "YUV420SP" THEN size \div 2 ELSE size
ImageDesc(image) ==
  [dims |-> <<image.b, channelMap[image.format], image.h, image.w>>, esize |-> 1, float |-> FALSE]

\* What the application hands in: sizes are numbers, and it lends what it says it lends.
InputsFit ==
  /\ \A d \in Descs :
       d = [dims |-> d.dims, esize |-> d.esize, float |-> d.float] /\ HIAI_NDTensorDesc_GetByteSize(d) \in 0..Lent
  /\ \A c \in Calls :
       /\ c.by \in {"desc", "size", "buffer", "noCopy", "handle", "format"}
       /\ c.bytes \in Nat /\ HIAI_NDTensorDesc_GetByteSize(c.desc) \in Nat
       /\ c.by = "noCopy" => c.bytes <= Lent
  /\ \A i \in Images : i.b \in Int /\ i.h \in Int /\ i.w \in Int /\ i.handle \in Nat
  /\ \A e \in Envs : e.extra \in Nat
ASSUME BufferInputs == InputsFit

ImageBufferInit(h, image) ==
  IF InitTensorInfo(image) = 0 THEN Failed(h)
  ELSE CreateHIAINDTensorBuffer(h, ImageDesc(image), InitTensorInfo(image))
ImageBufferInitFromHandle(h, image) ==
  IF InitTensorInfo(image) = 0 THEN Failed(h) ELSE CreateFromNativeHandle(h, ImageDesc(image), image.handle)

\* The buffer of a wrapper that could not be allocated is lost.
NDTensorBufferImpl(out) ==
  IF out.b # 0 /\ out.heap.env.fault = "wrapper" THEN Failed([Spent(out.heap) EXCEPT !.lost = @ \cup {out.b}]) ELSE out

CreateNDTensorBuffer(h, call) ==
  NDTensorBufferImpl(
    CASE call.desc.dims = <<>> -> Failed(h)
      [] call.desc.dims # <<>> /\ call.by = "desc" -> CreateFromNDTensorDesc(h, call.desc)
      [] call.desc.dims # <<>> /\ call.by = "size" -> CreateFromSize(h, call.desc, call.bytes)
      [] call.desc.dims # <<>> /\ call.by = "buffer" -> CreateFromBuffer(h, call.desc, call.bytes)
      [] call.desc.dims # <<>> /\ call.by = "noCopy" -> CreateNoCopy(h, call.desc, 1, call.bytes)
      [] call.desc.dims # <<>> /\ call.by = "handle" -> CreateFromNativeHandle(h, call.desc, call.bytes)
      [] call.desc.dims # <<>> /\ call.by = "format" -> CreateHIAINDTensorBuffer(h, call.desc, call.bytes))
CreateImageTensorBuffer(h, image) ==
  NDTensorBufferImpl(IF image.handle = 0 THEN ImageBufferInit(h, image) ELSE ImageBufferInitFromHandle(h, image))

-----------------------------------------------------------------------------
(* The conversion for an old HCL runtime.                                   *)

\* A new object takes the memory of the old one over; null if that is none or not 4D.
ConvertNDTensorBufferToTensorBuffer(h, b) ==
  LET object == h.mem[b].handle
  IN IF object = 0 THEN Failed(h)
     ELSE IF ~Is4D(h.mem[b].desc) THEN Failed(h)
     ELSE IF h.env.fault = "record" THEN Failed(Spent(h))
     ELSE Alloc(h, [h.mem[object] EXCEPT !.kind = "tensor"])

\* The first buffer that is of the first generation ends the loop, with success.
ChangeOne(out, b) ==
  LET h == out.heap
      new == ConvertNDTensorBufferToTensorBuffer(h, b)
  IN IF out.state # "go" THEN out
     ELSE IF h.mem[b].legacy THEN [out EXCEPT !.state = "legacy"]
     ELSE IF new.b = 0 THEN [heap |-> new.heap, state |-> "failed"]
     ELSE [out EXCEPT !.heap = [Free(new.heap, h.mem[b].handle, "nd") EXCEPT !.mem[b].handle = new.b, !.mem[b].legacy = TRUE]]
HIAI_ChangeNDTensorBuffersHandleToTensorBuffers(h, list) ==
  LET after[i \in 0..Len(list)] == IF i = 0 THEN [heap |-> h, state |-> "go"] ELSE ChangeOne(after[i - 1], list[i])
  IN after[Len(list)]

-----------------------------------------------------------------------------
(* What applications call.                                                  *)

Called(env) == [heap EXCEPT !.env = env]
Done(h) == heap' = [h EXCEPT !.env = Quiet]
Held == mine \cup {tensors[t].b : t \in {x \in Tensors : tensors[x].b # 0}}

Hand(made) ==
  /\ Cardinality(mine \cup heap.lost) < MaxHeld
  /\ \E out \in {made} : Done(out.heap) /\ mine' = (mine \cup {out.b}) \ {0}
  /\ ran' = NotRun
  /\ UNCHANGED <<rom, tensors>>
Make(env, call) == Hand(CreateNDTensorBuffer(Called(env), call))
MakeImage(env, image) == Hand(CreateImageTensorBuffer(Called(env), image))

Drop(b) ==
  /\ Done(Destroy(heap, b)) /\ mine' = mine \ {b}
  /\ ran' = NotRun
  /\ UNCHANGED <<rom, tensors>>

\* A buffer may be input and output.  The run itself is the runtime's; it happens if both conversions succeed.
PreRun(env, inputs, outputs) ==
  /\ rom.oldHcl
  /\ \E in \in {HIAI_ChangeNDTensorBuffersHandleToTensorBuffers(Called(env), inputs)} :
     \E out \in {HIAI_ChangeNDTensorBuffersHandleToTensorBuffers(in.heap, outputs)} :
       /\ Done(out.heap)
       /\ ran' = [ok |-> in.state # "failed" /\ out.state # "failed", lists |-> {inputs, outputs},
                  before |-> {b \in Held : heap.mem[b].legacy}]
  /\ UNCHANGED <<rom, mine, tensors>>

\* An AiTensor gives up its old buffer for the result, also if there is none; what is
\* refused by a look at the sizes leaves it, with the new dimensions.
Assign(t, desc, made) ==
  \E out \in {made} :
    /\ Done(IF tensors[t].b = 0 THEN out.heap ELSE Destroy(out.heap, tensors[t].b)) /\ ran' = NotRun
    /\ tensors' = [tensors EXCEPT ![t] = [desc |-> desc, b |-> out.b, kept |-> FALSE]]
Init4D(env, t, desc) ==
  /\ heap.lost = {} /\ Is4D(desc)
  /\ \E by \in {"desc", "handle"} :
       Assign(t, desc, CreateNDTensorBuffer(Called(env), [by |-> by, desc |-> desc, bytes |-> 2]))
  /\ UNCHANGED <<rom, mine>>
InitData(env, t, desc) ==
  /\ heap.lost = {} /\ Is4D(desc)
  /\ LET total == HIAI_NDTensorDesc_GetByteSize(desc)
     IN IF total = 0
        THEN tensors' = [tensors EXCEPT ![t].desc = desc, ![t].kept = TRUE] /\ ran' = NotRun /\ UNCHANGED heap
        ELSE Assign(t, desc, CreateNDTensorBuffer(Called(env), [by |-> "noCopy", desc |-> desc, bytes |-> total]))
  /\ UNCHANGED <<rom, mine>>
InitImage(env, t, image) ==
  /\ heap.lost = {} /\ image.handle = 0
  /\ \E out \in {CreateImageTensorBuffer(Called(env), image)} :
       IF out.b = 0 THEN Done(out.heap) /\ ran' = NotRun /\ UNCHANGED tensors ELSE Assign(t, ImageDesc(image), out)
  /\ UNCHANGED <<rom, mine>>
SetTensorDimension(t, desc) ==
  /\ Is4D(desc)
  /\ tensors' = [tensors EXCEPT ![t].desc.dims = desc.dims, ![t].kept = TRUE]
  /\ ran' = NotRun
  /\ UNCHANGED <<rom, heap, mine>>

Init ==
  /\ rom \in Roms
  /\ heap = [mem |-> [b \in {1} |-> Block("application", Lent)], lost |-> {}, wrong |-> FALSE, env |-> Quiet]
  /\ mine = {} /\ ran = NotRun /\ calls = 0
  /\ tensors = [t \in Tensors |-> [desc |-> [dims |-> <<>>], b |-> 0, kept |-> FALSE]]

Next ==
  /\ calls < MaxCalls /\ calls' = calls + 1
  /\ \/ \E env \in Envs :
          \/ \E call \in Calls : Make(env, call)
          \/ \E t \in Tensors, d \in Descs : InitData(env, t, d) \/ Init4D(env, t, d)
          \/ \E i \in Images : MakeImage(env, i) \/ \E t \in Tensors : InitImage(env, t, i)
          \/ \E a, b, c \in Held : a # b /\ (PreRun(env, <<a>>, <<c>>) \/ PreRun(env, <<a, b>>, <<c>>))
     \/ \E b \in mine : Drop(b)
     \/ \E t \in Tensors, d \in Descs : SetTensorDimension(t, d)

Spec == Init /\ [][Next]_vars

-----------------------------------------------------------------------------
(* Properties.                                                              *)

Records == {b \in DOMAIN heap.mem : heap.mem[b].kind = "record"}
Behind(b) == {heap.mem[b].data, heap.mem[b].handle} \ {0}
Reached(roots) == LET next == roots \cup UNION {Behind(b) : b \in roots} IN next \cup UNION {Behind(b) : b \in next}

\* Nothing is released twice, by the functions of the other generation or by free()
\* when it is the application's, after any conversions, failures and reuses.
ReleasedRightly == ~heap.wrong /\ 1 \in DOMAIN heap.mem

\* Every block is behind one buffer somebody holds, but for those whose wrapper could
\* not be allocated and objects of a library without the function that destroys them.
NothingLost == DOMAIN heap.mem \subseteq Reached(Held \cup heap.lost) \cup {1}
HeldOnce ==
  /\ \A a, b \in Records \ heap.lost : a # b => (Behind(a) \cap Behind(b)) \ {1} = {}
  /\ \A t \in Tensors : tensors[t].b \notin mine

\* A buffer is backed by as much memory as it says, and what it hands out as an object
\* of one generation is one.
Backed ==
  \A b \in Records :
    LET r == heap.mem[b]
    IN /\ {r.data} \subseteq DOMAIN heap.mem /\ Size(heap, r.data) >= r.size
       /\ r.handle # 0 => heap.mem[r.handle].kind = (IF r.legacy THEN "tensor" ELSE "nd") /\ heap.mem[r.handle].data = r.data
       /\ GetFd(heap, b) # -1 => ~r.legacy \/ Has("tensor", "Fd")

\* A run that goes ahead on an old runtime is given objects of the first generation,
\* but behind a buffer that was one already (hiai_nd_tensor_buffer_legacy_compatible.cpp:80-83).
RunsConverted ==
  ran.ok => \A list \in ran.lists : \A i \in DOMAIN list :
              heap.mem[list[i]].legacy \/ \E j \in 1..(i - 1) : list[j] \in ran.before

\* An AiTensor says the dimensions of its buffer, unless they were set since or an
\* Init was refused after it had taken them over (AiTensor.cpp:188-209, 301-303).
DimensionsAgree ==
  \A t \in Tensors : tensors[t].b # 0 /\ ~tensors[t].kept => heap.mem[tensors[t].b].desc.dims = tensors[t].desc.dims

BuffersSound == ReleasedRightly /\ NothingLost /\ HeldOnce /\ Backed /\ RunsConverted /\ DimensionsAgree
=============================================================================
