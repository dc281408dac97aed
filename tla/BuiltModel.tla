----------------------------- MODULE BuiltModel -----------------------------
(***************************************************************************)
(* Built models, from the C++ objects down to the files: IBuiltModel       *)
(* (BuiltModelImpl) over the C dispatch (HIAI_MR_BuiltModel_...) over the  *)
(* direct runtime (DirectBuiltModelImpl), the model builder and the IR     *)
(* builder that produce them, and the custom data (the AIPP configuration) *)
(* that travels with a model in front of its bytes.                        *)
(*                                                                         *)
(* A buffer or a file is a sequence of cells <<kind, number>>: the tag     *)
(* "CUST", a 32-bit integer, the cells of a type or of a value, the two    *)
(* cells of a ModelFileHeader (model type; customDataLen) and body cells.  *)
(* Every call of the API is one action: the objects are not shared between *)
(* threads by the code.  What the foundation library answers, and whether  *)
(* an allocation succeeds, is chosen by the environment.                   *)
(***************************************************************************)
EXTENDS Naturals, Sequences, FiniteSets

CONSTANTS Handles,        \* the C++ built model objects of the application
          Files,          \* the paths it uses
          Delivered,      \* the contents delivered with the application
          Customs,        \* custom data an application or the AIPP library sets
          Sizes,          \* the sizes of external buffers, of estimated outputs
          MaxExternal,    \* MAX_External_Buffer_SIZE, in cells
          MaxTarget,      \* MAX_COMPILED_TARGET_SIZE, in cells
          Roms,           \* the sets of foundation symbols a device may have
          MaxDescs        \* bound: live C tensor descriptors

VARIABLES models,         \* Handles -> the C++ object, or Absent
          files,          \* Files -> contents, <<>> when empty, NoFile
          descs,          \* the live HIAI_NDTensorDesc
          rom,            \* the symbols HIAI_Foundation_GetSymbol finds
          saved,          \* the last successful save: what it put where
          output          \* the length of the IR build API's ModelBufferData, 0: none
vars == <<models, files, descs, rom, saved, output>>

Absent == [open |-> FALSE]
NoImpl == [made |-> FALSE]
NoFile == <<<<"nofile", 0>>>>
NoName == ""
NoCustom == [type |-> <<>>, value |-> <<>>]
NotSaved == [done |-> FALSE]

-----------------------------------------------------------------------------
(* Cells.                                                                  *)
Tag == <<"CUST", 0>>
Int(n) == <<"int", n>>
HeaderSize == 2
ModelTypes == {"IR_GRAPH", "HCS_PARTITION", "STANDARD_IR_GRAPH", "OTHER"}

(* ModelTypeUtil::GetModelType: a model too short for a header, or without *)
(* the magic number, is a serialised IR graph.                             *)
GetModelType(b) ==
  IF Len(b) >= HeaderSize /\ b[1][1] \in ModelTypes THEN b[1][1] ELSE "IR_API_GRAPH"

(* ModelTypeUtil::GetModelTypeFromFile: a file no longer than a header is  *)
(* refused, where a buffer of the header's length is not.                  *)
TypeOfFile(f) ==
  IF files[f] # NoFile /\ Len(files[f]) > HeaderSize
    THEN GetModelType(SubSeq(files[f], 1, HeaderSize)) ELSE "unreadable"

-----------------------------------------------------------------------------
(* FileUtil.                                                               *)
LoadToBuffer(f) == IF files[f] = NoFile THEN <<>> ELSE files[f]
CreateEmptyFileAppending(fs, f) == [fs EXCEPT ![f] = IF @ = NoFile THEN <<>> ELSE @]  \* faulty: "ab"
CreateEmptyFile(fs, f) == [fs EXCEPT ![f] = <<>>]
WriteBufferToFile(fs, data, f) == [fs EXCEPT ![f] = IF @ = NoFile THEN data ELSE @ \o data]

-----------------------------------------------------------------------------
(* CustomDataUtil: tag, length, length of the type, type, length of the    *)
(* value, value, then the model.                                           *)
CustomCells(c) ==
  <<Tag, Int(Len(c.type) + Len(c.value)), Int(Len(c.type))>> \o c.type
    \o <<Int(Len(c.value))>> \o c.value

(* CopyCustomDataToBuffer wants room for more than the custom data.        *)
RoomForCustom(size, c) == size > Len(CustomCells(c))

(* WriteCustomDataToFile, and SaveCustomDataToBuffer: no type, no prefix.  *)
Prefix(c) == IF c.type = <<>> THEN <<>> ELSE CustomCells(c)

(* SplitCustomData(b, c): the model after the prefix, <<>> for nullptr; a  *)
(* failure half-way leaves what was read in the custom data c.             *)
SplitCustomData(b, c) ==
  LET typeLen == b[3][2]
      off == typeLen + 4                       \* the cell of the value's length
      typed == [c EXCEPT !.type = SubSeq(b, 4, off - 1)]
      valueLen == b[off][2]
      both == [typed EXCEPT !.value = SubSeq(b, off + 1, off + valueLen)]
      hasType == Len(b) >= 3 /\ typeLen > 0 /\ Len(b) >= off - 1
      hasValue == Len(b) >= off /\ valueLen > 0 /\ Len(b) >= off + valueLen
  IN  IF ~hasType THEN [data |-> <<>>, custom |-> c]
      ELSE IF ~hasValue THEN [data |-> <<>>, custom |-> typed]
      ELSE [data |-> SubSeq(b, off + valueLen + 1, Len(b)), custom |-> both]

(* GetModelData: without the tag the buffer is the model, and the custom   *)
(* data of the caller stays what it was.                                   *)
GetModelData(b, c) ==
  IF Len(b) <= 1 THEN [data |-> <<>>, custom |-> c]
  ELSE IF b[1] = Tag THEN SplitCustomData(b, c) ELSE [data |-> b, custom |-> c]

(* HasCustomData: a file shorter than the tag has none.                    *)
HasCustomData(f) == LoadToBuffer(f) # <<>> /\ LoadToBuffer(f)[1] = Tag

(* GetCustomData of the builder: the custom data omg appends to a model,   *)
(* found by the length the header gives.  Only the first read is checked:  *)
(* what lies outside of the buffer may be any custom data.                 *)
GetCustomData(b, len) ==
  LET at == Len(b) - len + 3
      typeLen == b[at][2]
      valueAt == at + typeLen + 1
      valueLen == b[valueAt][2]
      inside == at >= 1 /\ valueAt <= Len(b) /\ valueAt + valueLen <= Len(b)
  IN  IF at > Len(b) THEN {}
      ELSE IF inside
        THEN {[type |-> SubSeq(b, at + 1, valueAt - 1), value |-> SubSeq(b, valueAt + 1, valueAt + valueLen)]}
      ELSE Customs \union {NoCustom}

(* MakeCompatibleBuffer of the builder: the model and its custom data, no  *)
(* model when it fails.                                                    *)
MakeCompatibleBuffer(b) ==
  LET split == GetModelData(b, NoCustom)
      found == GetCustomData(b, b[2][2])
  IN  IF split.data # b \/ GetModelType(b) \notin {"STANDARD_IR_GRAPH", "HCS_PARTITION"}
         \/ b[2][2] = 0
        THEN {split}
      ELSE IF found = {} THEN {[data |-> <<>>, custom |-> NoCustom]}
      ELSE {[data |-> b, custom |-> c] : c \in found}

-----------------------------------------------------------------------------
(* The direct runtime's model.                                             *)
DirectBuiltModel(buffer, file) ==
  [made |-> TRUE, buffer |-> buffer, file |-> file, inputs |-> {}, outputs |-> {}]

(* DirectCommonUtil::MakeCompatibleBuffer: the compatibility library, when *)
(* there is one, may refuse a model or replace it.                         *)
Rewritten == <<"rewritten", 0>>
Compatible(b) ==
  {b} \union (IF "compatible" \notin rom THEN {}
              ELSE {<<>>} \union (IF b = <<>> \/ b[Len(b)] = Rewritten THEN {} ELSE {Append(b, Rewritten)}))

(* HIAI_DIRECT_BuiltModel_Restore: an IR graph is refused.                 *)
DirectRestore(b) ==
  IF b = <<>> \/ GetModelType(b) = "IR_API_GRAPH" THEN {NoImpl}
  ELSE {IF c = <<>> THEN NoImpl ELSE DirectBuiltModel(c, NoName) : c \in Compatible(b)}

(* HIAI_DIRECT_BuiltModel_RestoreFromFile: a partitioned model stays in    *)
(* its file, every other is loaded.                                        *)
DirectRestoreFromFile(f) ==
  CASE TypeOfFile(f) = "unreadable" -> {NoImpl}
    [] TypeOfFile(f) = "HCS_PARTITION" -> {DirectBuiltModel(<<>>, f)}
    [] OTHER -> DirectRestore(LoadToBuffer(f))

(* DirectBuiltModelImpl::LoadToBuffer.                                     *)
Loaded(m) == IF m.buffer # <<>> THEN m.buffer
             ELSE IF m.file = NoName THEN <<>> ELSE LoadToBuffer(m.file)

(* CheckParameters and the checks of HIAI_DIRECT_ModelBuilder_Build, with  *)
(* DirectCommonUtil::IsSupportBuildOptions and IsSupportIRBuild.           *)
MayBuild(b, options) ==
  /\ options.plain /\ options.estimated <= MaxTarget
  /\ CASE GetModelType(b) = "IR_API_GRAPH" -> "irBuild" \in rom
       [] GetModelType(b) = "OTHER" -> TRUE
       [] OTHER -> options.format = "NCHW"

TargetSize(options) == IF options.estimated > 0 THEN options.estimated ELSE MaxTarget

(* BuildModel of the direct builder: the foundation compiles into the      *)
(* output buffer; the original format wants buildModel_v2.                 *)
Compile(b, options) ==
  LET target == <<<<"HCS_PARTITION", 0>>, <<"customDataLen", 0>>, b[Len(b)]>>
  IN  IF "build" \in rom /\ (options.format = "NCHW" \/ "buildV2" \in rom)
         /\ Len(target) <= TargetSize(options)
        THEN {<<>>, target} ELSE {<<>>}

(* HIAI_DIRECT_ModelBuilder_Build.                                         *)
DirectBuild(b, options) ==
  {NoImpl} \union
  {DirectBuiltModel(t, NoName) :
     t \in (UNION {Compile(c, options) : c \in IF MayBuild(b, options) THEN Compatible(b) \ {<<>>} ELSE {}}) \ {<<>>}}

-----------------------------------------------------------------------------
(* The C++ objects, and the C dispatch: a call needs a model (the C++      *)
(* object refuses without one, as the C function does) and a runtime that  *)
(* has the symbol, which the direct runtime has for all but the shape      *)
(* index and the shared memory.                                            *)
Open(h) == models[h].open
Impl(h) == models[h].impl
Usable(h) == Open(h) /\ Impl(h).made

HIAI_ModelRuntime_Init ==
  {"BUILD", "RESTORE", "RESTORE_FROM_FILE", "SAVE_TO_EXTERNAL_BUFFER", "SAVE", "SAVE_TO_FILE",
   "CHECK_COMPATIBILITY", "GET_NAME", "SET_NAME", "TENSOR_NUM", "TENSOR_DESC", "DESTROY"}
DispatchSave(h, symbol) == Usable(h) /\ symbol \in HIAI_ModelRuntime_Init
DispatchQuery(h, symbols) == Usable(h) /\ symbols \subseteq HIAI_ModelRuntime_Init
NewModel(impl, custom) == [open |-> TRUE, impl |-> impl, custom |-> custom]
WithImpl(h, impl) == models' = [models EXCEPT ![h].impl = impl]

(* CreateBuiltModel.                                                       *)
Create(h) ==
  /\ ~Open(h)
  /\ models' = [models EXCEPT ![h] = NewModel(NoImpl, NoCustom)]
  /\ UNCHANGED <<files, descs, rom, saved, output>>

(* The last reference: ~BuiltModelImpl, HIAI_MR_BuiltModel_Destroy and     *)
(* HIAI_DIRECT_BuiltModel_Destroy; the direct model destroys its           *)
(* descriptors.                                                            *)
Release(h) ==
  /\ Open(h)
  /\ models' = [models EXCEPT ![h] = Absent]
  /\ descs' = IF Impl(h).made THEN descs \ (Impl(h).inputs \union Impl(h).outputs) ELSE descs
  /\ UNCHANGED <<files, rom, saved, output>>

(* ModelBuilderImpl::Build and HIAI_MR_ModelBuilder_Build: a new object    *)
(* replaces nothing unless the build succeeds.                             *)
BuildOf(h, b, custom, options) ==
  \E m \in IF b = <<>> THEN {NoImpl} ELSE DirectBuild(b, options) :
    /\ models' = IF m.made THEN [models EXCEPT ![h] = NewModel(m, custom)] ELSE models
    /\ UNCHANGED <<files, descs, rom, saved, output>>

Build(h, options) ==
  \E b \in Delivered \union {LoadToBuffer(f) : f \in Files} :
    /\ ~Open(h) /\ b # <<>>
    /\ \E m \in MakeCompatibleBuffer(b) : BuildOf(h, m.data, m.custom, options)

(* HiaiIrBuild::Build: MakeCompatibleModel, BuildModel, SetCustomData with *)
(* the configuration the AIPP library generates (none without it).         *)
IrBuild(h, ir, custom, options) ==
  /\ ~Open(h) /\ GetModelType(ir) = "IR_API_GRAPH"
  /\ BuildOf(h, ir, custom, options)

(* BuiltModelImpl::RestoreFromBuffer.  The custom data is read before the  *)
(* runtime sees the model, and stays when it refuses it.                   *)
RestoreWith(h, b) ==
  LET split == GetModelData(b, models[h].custom)
  IN  \E m \in DirectRestore(split.data) :
        models' = [models EXCEPT ![h].impl = m, ![h].custom = split.custom]

RestoreFromBuffer(h, b) ==
  /\ Open(h) /\ ~Impl(h).made /\ b # <<>>
  /\ RestoreWith(h, b)
  /\ UNCHANGED <<files, descs, rom, saved, output>>

(* BuiltModelImpl::RestoreFromFile.                                        *)
RestoreFromFile(h, f) ==
  /\ Open(h) /\ ~Impl(h).made
  /\ IF HasCustomData(f) THEN RestoreWith(h, LoadToBuffer(f))
     ELSE \E m \in DirectRestoreFromFile(f) :
            models' = [models EXCEPT ![h].impl = m]
  /\ UNCHANGED <<files, descs, rom, saved, output>>

-----------------------------------------------------------------------------
(* Saving.  saved remembers the last successful save.                      *)
Saved(place, content, h) ==
  [done |-> TRUE, place |-> place, content |-> content, custom |-> models[h].custom,
   model |-> Loaded(Impl(h))]
KeepsBuffer(h) == WithImpl(h, [Impl(h) EXCEPT !.buffer = Loaded(Impl(h))])

(* BuiltModelImpl::SaveToBuffer and DirectBuiltModelImpl::Save, which      *)
(* keeps what it loads.                                                    *)
SaveToBuffer(h) ==
  /\ DispatchSave(h, "SAVE")
  /\ KeepsBuffer(h)
  /\ saved' = IF Loaded(Impl(h)) = <<>> THEN saved
              ELSE Saved("buffer", Prefix(models[h].custom) \o Loaded(Impl(h)), h)
  /\ UNCHANGED <<files, descs, rom, output>>

(* BuiltModelImpl::SaveToExternalBuffer and the runtime's.                 *)
External(h, size) ==
  LET custom == models[h].custom
      offset == Len(Prefix(custom))
      model == Loaded(Impl(h))
  IN  IF size < MaxExternal /\ (custom.type = <<>> \/ RoomForCustom(size, custom))
         /\ model # <<>> /\ Len(model) <= size - offset
        THEN Prefix(custom) \o model ELSE <<>>

SaveToExternalBuffer(h, size) ==
  /\ DispatchSave(h, "SAVE_TO_EXTERNAL_BUFFER") /\ size > 0
  /\ IF size < MaxExternal /\ (models[h].custom.type = <<>> \/ RoomForCustom(size, models[h].custom))
       THEN KeepsBuffer(h) ELSE UNCHANGED models
  /\ saved' = IF External(h, size) = <<>> THEN saved ELSE Saved("external", External(h, size), h)
  /\ UNCHANGED <<files, descs, rom, output>>

(* BuiltModelImpl::SaveToFile and DirectBuiltModelImpl::SaveToFile: the    *)
(* target is emptied, the custom data written, and only then does the      *)
(* runtime refuse a model that has a file of its own.                      *)
SaveToFile(h, f) ==
  LET opened == WriteBufferToFile(CreateEmptyFile(files, f), Prefix(models[h].custom), f)
      refused == Impl(h).file # NoName \/ Impl(h).buffer = <<>>
  IN  /\ DispatchSave(h, "SAVE_TO_FILE")
      /\ files' = IF refused THEN opened ELSE WriteBufferToFile(opened, Impl(h).buffer, f)
      /\ saved' = IF ~refused THEN Saved(f, files'[f], h)
                  ELSE IF saved.done /\ saved.place = f THEN NotSaved ELSE saved
      /\ UNCHANGED <<models, descs, rom, output>>

-----------------------------------------------------------------------------
(* Queries.                                                                *)
SetCustomData(h, custom) ==
  /\ Open(h)
  /\ models' = [models EXCEPT ![h].custom = custom]
  /\ UNCHANGED <<files, descs, rom, saved, output>>

(* A new descriptor, for the tensors of one direction; none at the bound.  *)
FreshDescs(live) ==
  LET free == (1 .. MaxDescs) \ live IN {{d} : d \in {e \in free : \A f \in free : e <= f}}

(* GetIONDTensorDesc: GetLoadedModelManager, then the tensor information   *)
(* in three forms, each used only when the one before it failed.  A form   *)
(* stores inputs, then outputs, by a swap that drops what was there; a     *)
(* form that fails half-way has stored its inputs.                         *)
TensorForm(q, form) ==
  IF q.ok \/ form \notin rom THEN {q}
  ELSE {q} \union
       UNION {LET half == [q EXCEPT !.impl.inputs = in, !.descs = @ \union in]
              IN  {half} \union {[half EXCEPT !.impl.outputs = out, !.descs = @ \union out, !.ok = TRUE] :
                                   out \in FreshDescs(half.descs)} : in \in FreshDescs(q.descs)}
TensorForms(S, form) == UNION {TensorForm(q, form) : q \in S}

GetIONDTensorDesc(m, live) ==
  IF m.inputs # {} /\ m.outputs # {} THEN {[impl |-> m, descs |-> live, ok |-> TRUE]}
  ELSE TensorForms(TensorForms(TensorForms({[impl |-> m, descs |-> live, ok |-> FALSE]},
                                           "ndTensorInfo"), "tensorInfoV2"), "tensorInfo")

(* Faulty: the model's own descriptors are handed out, and destroyed.      *)
GetTensorDescsUncloned(h) ==
  /\ DispatchQuery(h, {"TENSOR_NUM", "TENSOR_DESC"})
  /\ \E q \in GetIONDTensorDesc(Impl(h), descs) :
        WithImpl(h, q.impl) /\ descs' = q.descs \ q.impl.inputs
  /\ UNCHANGED <<files, rom, saved, output>>

(* GetTensorDescs: the count, then a clone of each, read and destroyed.    *)
GetTensorDescs(h) ==
  /\ DispatchQuery(h, {"TENSOR_NUM", "TENSOR_DESC"})
  /\ \E q \in GetIONDTensorDesc(Impl(h), descs) : WithImpl(h, q.impl) /\ descs' = q.descs
  /\ UNCHANGED <<files, rom, saved, output>>

-----------------------------------------------------------------------------
(* The IR build API on ModelBufferData, which needs the client library.    *)
CreateModelBuff(customSize) ==
  /\ customSize <= MaxTarget /\ "client" \in rom /\ output = 0
  /\ output' = customSize
  /\ UNCHANGED <<models, files, descs, rom, saved>>

ReleaseModelBuff ==
  /\ output > 0
  /\ output' = 0
  /\ UNCHANGED <<models, files, descs, rom, saved>>

(* BuildModelOnline: the estimated size is the buffer's, the length of the *)
(* output is what SaveToExternalBuffer wrote, set before it is checked.    *)
BuildModelOnline(ir, options) ==
  /\ output > 0 /\ GetModelType(ir) = "IR_API_GRAPH"
  /\ \E m \in DirectBuild(ir, [options EXCEPT !.estimated = output]) :
       LET fits == m.made /\ Len(m.buffer) <= output /\ output < MaxExternal
       IN  /\ output' = IF fits THEN Len(m.buffer) ELSE output
           /\ saved' = IF fits THEN [done |-> TRUE, place |-> "external", content |-> m.buffer,
                                     custom |-> NoCustom, model |-> m.buffer]
                       ELSE saved
  /\ UNCHANGED <<models, files, descs, rom>>

-----------------------------------------------------------------------------
Options == [plain : BOOLEAN, format : {"NCHW", "ORIGIN"}, estimated : Sizes]

Init ==
  /\ models = [h \in Handles |-> Absent]
  /\ files \in [Files -> Delivered \union {NoFile}]
  /\ rom \in Roms
  /\ descs = {} /\ saved = NotSaved /\ output = 0

Next ==
  \/ \E h \in Handles :
       \/ Create(h) \/ Release(h) \/ SaveToBuffer(h) \/ GetTensorDescs(h)
       \/ \E o \in Options :
            \/ Build(h, o)
            \/ \E ir \in Delivered, c \in Customs \union {NoCustom} : IrBuild(h, ir, c, o)
       \/ \E b \in Delivered \union {saved.content : x \in {s \in {saved} : s.done}} : RestoreFromBuffer(h, b)
       \/ \E f \in Files : RestoreFromFile(h, f) \/ SaveToFile(h, f)
       \/ \E n \in Sizes : SaveToExternalBuffer(h, n)
       \/ \E c \in Customs : SetCustomData(h, c)
  \/ \E n \in Sizes : CreateModelBuff(n)
  \/ ReleaseModelBuff
  \/ \E ir \in Delivered, o \in Options : BuildModelOnline(ir, o)

Spec == Init /\ [][Next]_vars

-----------------------------------------------------------------------------
(* What a successful save put in a buffer or in a file gives back, when it *)
(* is restored, the model's bytes and its custom data: the writers of      *)
(* CustomDataUtil and of the runtime, in the order SaveToFile calls them,  *)
(* agree with GetModelData and SplitCustomData.  Custom data with a type   *)
(* and no value is written and refused on the way back, and a partitioned  *)
(* model has whatever bytes its file has now, a tag in front included.     *)
Expected(c) == IF c.type = <<>> THEN NoCustom ELSE c
SavedIsRestored ==
  saved.done /\ saved.model[1] # Tag /\ (saved.custom.type = <<>> \/ saved.custom.value # <<>>) =>
    LET content == IF saved.place \in Files THEN files[saved.place] ELSE saved.content
    IN  GetModelData(content, NoCustom) = [data |-> saved.model, custom |-> Expected(saved.custom)]

(* The tensor descriptors a direct model caches are alive, and no two      *)
(* models hold the same one, however its queries failed and were repeated: *)
(* callers destroy clones.                                                 *)
Held(h) == IF Usable(h) THEN Impl(h).inputs \union Impl(h).outputs ELSE {}
DescsHeldOnce ==
  /\ \A h \in Handles : Held(h) \subseteq descs /\ (Usable(h) => Impl(h).inputs \cap Impl(h).outputs = {})
  /\ \A h, g \in Handles : h # g => Held(h) \cap Held(g) = {}

(* A model that keeps its file (HCS_PARTITION_MODEL) can be read from it:  *)
(* "if modelfile exsits, no need save model buffer to file again"          *)
(* (direct_built_model_impl.cpp).                                          *)
ModelFileKept == \A h \in Handles : Usable(h) /\ Impl(h).file # NoName /\ Impl(h).buffer = <<>> => Loaded(Impl(h)) # <<>>
=============================================================================
