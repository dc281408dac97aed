--------------------------- MODULE OptionRecords ---------------------------
(***************************************************************************)
(* The option records of the C layer (hiai_model_build_options_v1.c,       *)
(* hiai_model_manager_options_v1.c), the functions that dispatch to them   *)
(* or to the plugin (hiai_model_builder_types.c, hiai_model_manager_types.c)*)
(* and the conversion of the C++ ModelBuildOptions                         *)
(* (model_build_options_util.cpp), over a heap whose mallocs may fail.     *)
(*                                                                         *)
(* A machine m is the heap and what happened to it: "blocks" maps the live *)
(* blocks to their contents, "count" numbers the mallocs, "fails" are the  *)
(* numbers of the mallocs that return NULL, "missing" the setters the      *)
(* plugin does not export, and "bad" tells that a block was freed or read  *)
(* after it was freed, or that an array was read past its end.             *)
(***************************************************************************)
EXTENDS Integers, Sequences, SequencesExt, FiniteSets, Functions

NULL == 0

Machine(fails, missing) ==
  [blocks |-> <<>>, count |-> 0, fails |-> fails, missing |-> missing, bad |-> FALSE]

Live(m, p) == p \in DOMAIN m.blocks

\* F of a value, computed once.
Then(value, F(_)) == CHOOSE r \in {F(v) : v \in {value}} : TRUE

Malloc(m, content) ==
  IF m.count + 1 \in m.fails THEN [m |-> [m EXCEPT !.count = @ + 1], ptr |-> NULL]
  ELSE [m |-> [m EXCEPT !.count = @ + 1, !.blocks = (m.count + 1 :> content) @@ @], ptr |-> m.count + 1]

Free(m, p) ==
  IF Live(m, p) THEN [m EXCEPT !.blocks = Restrict(@, DOMAIN @ \ {p})]
  ELSE [m EXCEPT !.bad = TRUE]

FreeUnlessNull(m, p) == IF p = NULL THEN m ELSE Free(m, p)

Store(m, p, field, value) ==
  IF Live(m, p) THEN [m EXCEPT !.blocks[p][field] = value] ELSE [m EXCEPT !.bad = TRUE]

(***************************************************************************)
(* The five V1 records and the init options, as their Create leaves them.  *)
(***************************************************************************)
DynamicShapeConfigV1 ==
  [kind |-> "DynamicShapeConfig", enableMode |-> "DISABLE", maxCachedNum |-> 0,
   cacheMode |-> "BUILDED_MODEL"]
OpDeviceOrderV1 ==
  [kind |-> "OpDeviceOrder", opName |-> NULL, supportedDevices |-> NULL,
   supportedDeviceNum |-> 0]
CLCustomizationV1 == [kind |-> "CLCustomization", opName |-> NULL, customization |-> NULL]
ModelDeviceConfigV1 ==
  [kind |-> "ModelDeviceConfig", deviceConfigMode |-> "AUTO", fallBackMode |-> "ENABLE",
   configModelNum |-> 0, modelDeviceOrder |-> NULL, configOpNum |-> 0,
   opDeviceOrder |-> NULL, deviceMemoryReusePlan |-> "UNSET", clCustomization |-> NULL]
ModelBuildOptionsV1 ==
  [kind |-> "ModelBuildOptions", inputNum |-> 0, inputTensorDescs |-> NULL,
   formatMode |-> "USE_NCHW", precisionMode |-> "FP32", dynamicShapeConfig |-> NULL,
   modelDeviceConfig |-> NULL, tuningStrategy |-> "OFF", estimatedOutputSize |-> 0,
   quantizeConfig |-> NULL]
ModelInitOptionsV1 ==
  [kind |-> "ModelInitOptions", perfMode |-> "NORMAL", buildOptions |-> NULL]

(***************************************************************************)
(* The function tables.  A getter of a table returns the value below when  *)
(* there is no record or the plugin does not export it; a setter then does *)
(* nothing.                                                                *)
(***************************************************************************)
DynamicShapeConfigFuncs ==
  [enableMode |-> "DISABLE", maxCachedNum |-> 0, cacheMode |-> "BUILDED_MODEL"]
OpDeviceOrderFuncs == [opName |-> NULL, supportedDeviceNum |-> 0, supportedDevices |-> NULL]
CLCustomizationFuncs == [opName |-> NULL, customization |-> NULL]
ModelDeviceConfigFuncs ==
  [deviceConfigMode |-> "AUTO", fallBackMode |-> "ENABLE", configModelNum |-> 0,
   modelDeviceOrder |-> NULL, configOpNum |-> 0, opDeviceOrder |-> NULL,
   deviceMemoryReusePlan |-> "UNSET", clCustomization |-> NULL]
ModelBuildOptionsFuncs ==
  [inputNum |-> 0, inputTensorDescs |-> NULL, formatMode |-> "USE_NCHW",
   precisionMode |-> "FP32", dynamicShapeConfig |-> NULL, modelDeviceConfig |-> NULL,
   tuningStrategy |-> "OFF", estimatedOutputSize |-> 0, quantizeConfig |-> NULL]
ModelInitOptionsFuncs == [perfMode |-> "UNSET", buildOptions |-> NULL]

Funcs ==
  [DynamicShapeConfig |-> DynamicShapeConfigFuncs, OpDeviceOrder |-> OpDeviceOrderFuncs,
   CLCustomization |-> CLCustomizationFuncs, ModelDeviceConfig |-> ModelDeviceConfigFuncs,
   ModelBuildOptions |-> ModelBuildOptionsFuncs, ModelInitOptions |-> ModelInitOptionsFuncs]

Get(m, p, kind, field) ==
  IF p = NULL \/ field \in m.missing THEN Funcs[kind][field] ELSE m.blocks[p][field]

(* The values each enumeration field takes; a setter ignores any other.     *)
EnumOf(field) ==
  CASE field = "enableMode"            -> {"DISABLE", "ENABLE"}
    [] field = "cacheMode"             -> {"BUILDED_MODEL", "LOADED_MODEL"}
    [] field = "deviceConfigMode"      -> {"AUTO", "MODEL_LEVEL", "OP_LEVEL"}
    [] field = "fallBackMode"          -> {"ENABLE", "DISABLE"}
    [] field = "deviceMemoryReusePlan" -> {"UNSET", "LOW", "HIGH"}
    [] field = "formatMode"            -> {"USE_NCHW", "USE_ORIGIN"}
    [] field = "precisionMode"         -> {"FP32", "FP16"}
    [] field = "tuningStrategy"        -> {"OFF", "ON_DEVICE_TUNING", "ON_CLOUD_TUNING"}
Devices == {"NPU", "GPU", "CPU"}
MinCacheNum == 1
MaxCacheNum == 10

(***************************************************************************)
(* The four kinds of setter.  Each dispatches through the table of its     *)
(* record: a setter the plugin does not export changes nothing.            *)
(***************************************************************************)
Ignored(m, p, field) == p = NULL \/ field \in m.missing

SetEnum(m, p, field, v) ==
  IF Ignored(m, p, field) \/ v \notin EnumOf(field) THEN m ELSE Store(m, p, field, v)

SetSize(m, p, field, n) == IF Ignored(m, p, field) THEN m ELSE Store(m, p, field, n)

(* Faulty variant of SetMaxCacheNum: the largest count is refused.          *)
SetMaxCacheNumBelow(m, p, n) ==
  IF n \notin MinCacheNum..(MaxCacheNum - 1) THEN m ELSE SetSize(m, p, "maxCachedNum", n)

SetMaxCacheNum(m, p, n) ==
  IF n \notin MinCacheNum..MaxCacheNum THEN m ELSE SetSize(m, p, "maxCachedNum", n)

(* A copied string: set once, and left unset when the copy is not made.     *)
SetName(m, p, field, name) ==
  IF Ignored(m, p, field) THEN m
  ELSE IF ~Live(m, p) THEN [m EXCEPT !.bad = TRUE]
  ELSE IF m.blocks[p][field] # NULL THEN m
  ELSE LET Kept(c) == Store(c.m, p, field, c.ptr)
       IN  Kept(Malloc(m, [kind |-> "name", name |-> name]))

(* A pointer taken over from the caller: set once, with its count.          *)
SetOnce(m, p, field, q) ==
  IF Ignored(m, p, field) \/ q = NULL THEN m
  ELSE IF ~Live(m, p) THEN [m EXCEPT !.bad = TRUE]
  ELSE IF m.blocks[p][field] # NULL THEN m
  ELSE Store(m, p, field, q)

SetArray(m, p, field, q, numField, num) ==
  LET Counted(n) == IF n = m THEN m ELSE Store(n, p, numField, num)
  IN  Counted(SetOnce(m, p, field, q))

SetModelDeviceOrder(m, p, num, q) ==
  IF q # NULL /\ \E i \in 1..num : m.blocks[q].elems[i] \notin Devices THEN m
  ELSE SetArray(m, p, "modelDeviceOrder", q, "configModelNum", num)

(* The buffer of the quantize config is allocated once and then rewritten;  *)
(* the data stays the caller's.                                             *)
SetQuantizeConfig(m, p, data) ==
  IF Ignored(m, p, "quantizeConfig") \/ data = NULL THEN m
  ELSE IF m.blocks[p].quantizeConfig # NULL
       THEN Store(m, m.blocks[p].quantizeConfig, "data", data)
  ELSE LET Kept(c) == IF c.ptr = NULL THEN c.m ELSE Store(c.m, p, "quantizeConfig", c.ptr)
       IN  Kept(Malloc(m, [kind |-> "buffer", data |-> data]))

SetPerfMode(m, p, mode) ==
  IF Ignored(m, p, "perfMode") THEN m
  ELSE Store(m, p, "perfMode",
             IF mode \in {"UNSET", "LOW", "NORMAL", "HIGH", "EXTREME", "HIGH_COMPUTE_UNIT"}
             THEN mode ELSE "NORMAL")

SetEnableMode(m, p, mode) == SetEnum(m, p, "enableMode", mode)
SetCacheMode(m, p, mode) == SetEnum(m, p, "cacheMode", mode)
SetOpName(m, p, name) == SetName(m, p, "opName", name)
SetDeviceOrder(m, p, num, devices) ==
  SetArray(m, p, "supportedDevices", devices, "supportedDeviceNum", num)
SetCustomization(m, p, customization) == SetName(m, p, "customization", customization)
SetDeviceConfigMode(m, p, mode) == SetEnum(m, p, "deviceConfigMode", mode)
SetFallBackMode(m, p, mode) == SetEnum(m, p, "fallBackMode", mode)
SetOpDeviceOrder(m, p, num, orders) ==
  SetArray(m, p, "opDeviceOrder", orders, "configOpNum", num)
SetDeviceMemoryReusePlan(m, p, plan) == SetEnum(m, p, "deviceMemoryReusePlan", plan)
SetCLCustomization(m, p, customizations) == SetOnce(m, p, "clCustomization", customizations)
SetInputTensorDescs(m, p, num, descs) ==
  SetArray(m, p, "inputTensorDescs", descs, "inputNum", num)
SetFormatModeOption(m, p, mode) == SetEnum(m, p, "formatMode", mode)
SetPrecisionModeOption(m, p, mode) == SetEnum(m, p, "precisionMode", mode)
SetDynamicShapeConfig(m, p, config) == SetOnce(m, p, "dynamicShapeConfig", config)
SetModelDeviceConfig(m, p, config) == SetOnce(m, p, "modelDeviceConfig", config)
SetTuningStrategy(m, p, strategy) == SetEnum(m, p, "tuningStrategy", strategy)
SetEstimatedOutputSize(m, p, size) == SetSize(m, p, "estimatedOutputSize", size)
SetBuildOptions(m, p, options) == SetOnce(m, p, "buildOptions", options)

(***************************************************************************)
(* The destroyers.  They free what the record owns, in the order of the    *)
(* code, and the record last.                                              *)
(***************************************************************************)
NDTensorDescDestroy(m, p) ==
  IF p = NULL THEN m
  ELSE IF ~Live(m, p) THEN [m EXCEPT !.bad = TRUE]
  ELSE Free(FreeUnlessNull(m, m.blocks[p].dims), p)

(* Faulty variant of OpDeviceOrderDestroy: the name is freed in both places.*)
OpDeviceOrderDestroyNameTwice(m, p) ==
  IF p = NULL THEN m
  ELSE IF ~Live(m, p) THEN [m EXCEPT !.bad = TRUE]
  ELSE Free(FreeUnlessNull(FreeUnlessNull(m, m.blocks[p].opName), m.blocks[p].opName), p)

OpDeviceOrderDestroy(m, p) ==
  IF p = NULL THEN m
  ELSE IF ~Live(m, p) THEN [m EXCEPT !.bad = TRUE]
  ELSE Free(FreeUnlessNull(FreeUnlessNull(m, m.blocks[p].opName),
                           m.blocks[p].supportedDevices), p)

CLCustomizationDestroy(m, p) ==
  IF p = NULL THEN m
  ELSE IF ~Live(m, p) THEN [m EXCEPT !.bad = TRUE]
  ELSE Free(FreeUnlessNull(FreeUnlessNull(m, m.blocks[p].opName),
                           m.blocks[p].customization), p)

DynamicShapeConfigDestroy(m, p) == FreeUnlessNull(m, p)

(* Destroy(m, e) for the first num elements of the array, then the array.   *)
ArrayDestroy(Destroy(_, _), m, array, num) ==
  LET After[i \in 0..num] ==
        IF i = 0 THEN m ELSE Destroy(After[i - 1], m.blocks[array].elems[i])
  IN  IF array = NULL THEN m
      ELSE IF ~Live(m, array) \/ num > Len(m.blocks[array].elems) THEN [m EXCEPT !.bad = TRUE]
      ELSE Free(After[num], array)

ModelDeviceConfigDestroy(m, p) ==
  LET Freed(n) == Free(FreeUnlessNull(n, m.blocks[p].modelDeviceOrder), p)
      OpsFreed(n) == Then(ArrayDestroy(CLCustomizationDestroy, n, m.blocks[p].clCustomization,
                                       m.blocks[p].configOpNum), Freed)
  IN  IF p = NULL THEN m
      ELSE IF ~Live(m, p) THEN [m EXCEPT !.bad = TRUE]
      ELSE Then(ArrayDestroy(OpDeviceOrderDestroy, m, m.blocks[p].opDeviceOrder,
                             m.blocks[p].configOpNum), OpsFreed)

ModelBuildOptionsDestroy(m, p) ==
  LET Freed(n) == Free(FreeUnlessNull(n, m.blocks[p].quantizeConfig), p)
      ShapeFreed(n) == Then(ModelDeviceConfigDestroy(n, m.blocks[p].modelDeviceConfig), Freed)
      DescsFreed(n) ==
        Then(DynamicShapeConfigDestroy(n, m.blocks[p].dynamicShapeConfig), ShapeFreed)
  IN  IF p = NULL THEN m
      ELSE IF ~Live(m, p) THEN [m EXCEPT !.bad = TRUE]
      ELSE Then(ArrayDestroy(NDTensorDescDestroy, m, m.blocks[p].inputTensorDescs,
                             m.blocks[p].inputNum), DescsFreed)

ModelInitOptionsDestroy(m, p) ==
  IF p = NULL THEN m
  ELSE IF ~Live(m, p) THEN [m EXCEPT !.bad = TRUE]
  ELSE Free(ModelBuildOptionsDestroy(m, m.blocks[p].buildOptions), p)

(***************************************************************************)
(* The conversion of the C++ options.  Each step returns the machine and   *)
(* the pointer it made, NULL when it failed.                               *)
(***************************************************************************)
Failed(m) == [m |-> m, ptr |-> NULL]

NDTensorDescCreate(m, desc) ==
  LET d == Malloc(m, [kind |-> "NDTensorDesc", dims |-> NULL, desc |-> desc])
      a == Malloc(d.m, [kind |-> "array", elems |-> desc])
  IN  IF desc = <<>> \/ d.ptr = NULL THEN IF desc = <<>> THEN Failed(m) ELSE d
      ELSE IF a.ptr = NULL THEN Failed(Free(a.m, d.ptr))
      ELSE [m |-> Store(a.m, d.ptr, "dims", a.ptr), ptr |-> d.ptr]

ConvertCDynamicShapeConfig(m, config) ==
  LET Filled(c) ==
        IF c.ptr = NULL THEN c
        ELSE [c EXCEPT !.m =
               SetCacheMode(SetMaxCacheNum(
                 SetEnableMode(c.m, c.ptr, IF config.enable THEN "ENABLE" ELSE "DISABLE"),
                 c.ptr, config.maxCachedNum), c.ptr, config.cacheMode)]
  IN  Then(Malloc(m, DynamicShapeConfigV1), Filled)

ConvertToCOpDeviceConfig(m, op) ==
  LET Ordered(c, l) ==
        IF l.ptr = NULL THEN Failed(OpDeviceOrderDestroy(l.m, c.ptr))
        ELSE [m |-> SetDeviceOrder(l.m, c.ptr, Len(op.devices), l.ptr), ptr |-> c.ptr]
      Named(c) ==
        IF c.ptr = NULL THEN c
        ELSE Then(Malloc(SetOpName(c.m, c.ptr, op.name),
                         [kind |-> "array", elems |-> op.devices]), LAMBDA l : Ordered(c, l))
  IN  Then(Malloc(m, OpDeviceOrderV1), Named)

(* Fills an array with Convert of each input; a failure destroys what was   *)
(* made and frees the array.                                                *)
ConvertList(Convert(_, _), Destroy(_, _), m, inputs) ==
  LET Made(acc, c) == [m |-> c.m, elems |-> Append(acc.elems, c.ptr), ok |-> c.ptr # NULL]
      Step(acc, input) == IF acc.ok THEN Made(acc, Convert(acc.m, input)) ELSE acc
      Filled(array) ==
        LET Stored(made) ==
              IF made.ok
              THEN [m |-> Store(made.m, array.ptr, "elems", made.elems), ptr |-> array.ptr]
              ELSE Failed(Free(FoldLeft(Destroy, made.m, made.elems), array.ptr))
        IN  IF array.ptr = NULL THEN array
            ELSE Then(FoldLeft(Step, [m |-> array.m, elems |-> <<>>, ok |-> TRUE], inputs), Stored)
  IN  Then(Malloc(m, [kind |-> "pointers", elems |-> [i \in DOMAIN inputs |-> NULL]]), Filled)

(* Faulty variant of ConvertToCOpDeviceConfigList: a failure frees the array*)
(* and not the orders already in it.                                        *)
ConvertToCOpDeviceConfigListKeeping(m, ops) ==
  ConvertList(ConvertToCOpDeviceConfig, LAMBDA n, made : n, m, ops)

ConvertToCOpDeviceConfigList(m, ops) ==
  ConvertList(ConvertToCOpDeviceConfig, OpDeviceOrderDestroy, m, ops)

ConvertToCTensorDescs(m, descs) ==
  ConvertList(NDTensorDescCreate, NDTensorDescDestroy, m, descs)

ConvertToCModelDeviceOrder(m, devices) ==
  IF devices = <<>> THEN Failed(m) ELSE Malloc(m, [kind |-> "array", elems |-> devices])

(* The order l of the devices, or of the operators, is given to the device  *)
(* config c; without it the config is destroyed.                            *)
ModelOrdered(c, l, config) ==
  IF l.ptr = NULL THEN Failed(ModelDeviceConfigDestroy(l.m, c.ptr))
  ELSE [c EXCEPT !.m = SetModelDeviceOrder(l.m, c.ptr, Len(config.modelDeviceOrder), l.ptr)]

OpsOrdered(c, l, config) ==
  IF l.ptr = NULL THEN Failed(ModelDeviceConfigDestroy(l.m, c.ptr))
  ELSE [c EXCEPT !.m =
         SetDeviceMemoryReusePlan(SetOpDeviceOrder(l.m, c.ptr, Len(config.opDeviceOrder), l.ptr),
                                  c.ptr, config.deviceMemoryReusePlan)]

ConvertCModelDeviceConfig(m, config) ==
  LET Ordered(c) ==
        CASE config.deviceConfigMode = "MODEL_LEVEL" ->
               Then(ConvertToCModelDeviceOrder(c.m, config.modelDeviceOrder),
                    LAMBDA l : ModelOrdered(c, l, config))
          [] config.deviceConfigMode = "OP_LEVEL" /\ config.opDeviceOrder # <<>> ->
               Then(ConvertToCOpDeviceConfigList(c.m, config.opDeviceOrder),
                    LAMBDA l : OpsOrdered(c, l, config))
          [] config.deviceConfigMode = "OP_LEVEL" /\ config.opDeviceOrder = <<>> ->
               [c EXCEPT !.m = SetDeviceMemoryReusePlan(@, c.ptr, config.deviceMemoryReusePlan)]
          [] OTHER -> c
      Moded(c) ==
        IF c.ptr = NULL THEN c
        ELSE Ordered([c EXCEPT !.m =
               SetFallBackMode(SetDeviceConfigMode(@, c.ptr, config.deviceConfigMode),
                               c.ptr, config.fallBackMode)])
  IN  Then(Malloc(m, ModelDeviceConfigV1), Moded)

(* The stages of ConvertToCBuildOptions: the descriptors d, the dynamic      *)
(* shape s and the device config c were made for the options b.             *)
Abandon(m, b) == Failed(ModelBuildOptionsDestroy(m, b))

WithDeviceConfig(b, c, options) ==
  IF c.ptr = NULL THEN Abandon(c.m, b)
  ELSE LET Sized(m) == [m |-> SetQuantizeConfig(m, b, options.quantizeConfig), ptr |-> b]
           Tuned(m) == Then(SetEstimatedOutputSize(m, b, options.estimatedOutputSize), Sized)
       IN  Then(SetTuningStrategy(SetModelDeviceConfig(c.m, b, c.ptr), b, options.tuningStrategy),
                Tuned)

WithDynamicShape(b, s, options) ==
  IF s.ptr = NULL THEN Abandon(s.m, b)
  ELSE Then(ConvertCModelDeviceConfig(SetDynamicShapeConfig(s.m, b, s.ptr),
                                      options.modelDeviceConfig),
            LAMBDA c : WithDeviceConfig(b, c, options))

WithModes(b, m, options) ==
  Then(ConvertCDynamicShapeConfig(
         SetPrecisionModeOption(SetFormatModeOption(m, b, options.formatMode),
                                b, options.precisionMode), options.dynamicShapeConfig),
       LAMBDA s : WithDynamicShape(b, s, options))

WithTensorDescs(b, d, options) ==
  IF d.ptr = NULL THEN Abandon(d.m, b)
  ELSE Then(SetInputTensorDescs(d.m, b, Len(options.inputTensorDescs), d.ptr),
            LAMBDA m : WithModes(b, m, options))

ConvertToCBuildOptions(m, options) ==
  LET Begun(b) ==
        IF b.ptr = NULL THEN b
        ELSE IF options.inputTensorDescs = <<>> THEN WithModes(b.ptr, b.m, options)
        ELSE Then(ConvertToCTensorDescs(b.m, options.inputTensorDescs),
                  LAMBDA d : WithTensorDescs(b.ptr, d, options))
  IN  Then(Malloc(m, ModelBuildOptionsV1), Begun)

(* ModelBuildOptionsUtil::IsHasBuildOptions.                                *)
IsHasBuildOptions(options) ==
  \/ options.formatMode # "USE_NCHW"
  \/ options.precisionMode # "FP32"
  \/ options.inputTensorDescs # <<>>
  \/ options.dynamicShapeConfig.enable
  \/ options.modelDeviceConfig.fallBackMode # "ENABLE"
  \/ options.modelDeviceConfig.modelDeviceOrder # <<>>
  \/ options.modelDeviceConfig.opDeviceOrder # <<>>
  \/ options.tuningStrategy # "OFF"
  \/ options.estimatedOutputSize # 0
  \/ options.quantizeConfig # NULL

(* ConvertToCInitOptions: build options that cannot be converted leave the  *)
(* init options without any.                                                *)
ConvertToCInitOptions(m, perfMode, options) ==
  LET Built(c, b) == [c EXCEPT !.m = SetBuildOptions(b.m, c.ptr, b.ptr)]
      Begun(c) ==
        IF c.ptr = NULL THEN c
        ELSE IF IsHasBuildOptions(options)
             THEN Then(ConvertToCBuildOptions(SetPerfMode(c.m, c.ptr, perfMode), options),
                       LAMBDA b : Built(c, b))
        ELSE [c EXCEPT !.m = SetPerfMode(@, c.ptr, perfMode)]
  IN  Then(Malloc(m, ModelInitOptionsV1), Begun)

-----------------------------------------------------------------------------
(***************************************************************************)
(* An application of the C functions, and the C++ layers above them.       *)
(* "mine" are the blocks the application holds: what a setter refuses      *)
(* stays with it, what a setter takes is the record's.                     *)
(***************************************************************************)
CONSTANTS
  Inputs,     \* the C++ build options the conversions are tried with
  Faults,     \* the sets of mallocs that fail
  Plugins,    \* the sets of setters a plugin lacks
  MaxCount    \* bound on the mallocs of a behaviour

VARIABLES heap, mine, converted
vars == <<heap, mine, converted>>

NotConverted == [done |-> FALSE]

Init ==
  /\ heap \in {Machine(fails, missing) : fails \in Faults, missing \in Plugins}
  /\ mine = {}
  /\ converted = NotConverted

KindOf(p) == heap.blocks[p].kind
Held(kind) == {p \in mine : Live(heap, p) /\ KindOf(p) = kind}
Room(n) == heap.count + n <= MaxCount

(* The C++ layers: one conversion, from an empty heap.                      *)
Convert(options) ==
  /\ heap.count = 0
  /\ \E c \in {ConvertToCBuildOptions(heap, options)} :
       /\ heap' = c.m
       /\ mine' = {c.ptr} \ {NULL}
       /\ converted' = [done |-> TRUE, options |-> options, ptr |-> c.ptr]

ConvertInit(options, perfMode) ==
  /\ heap.count = 0
  /\ \E c \in {ConvertToCInitOptions(heap, perfMode, options)} :
       /\ heap' = c.m
       /\ mine' = {c.ptr} \ {NULL}
  /\ UNCHANGED converted

(* The C functions; the application makes a second record of a kind only    *)
(* when it has given the first one away (a bound of the model).             *)
Create(record) ==
  /\ Room(1) /\ Held(record.kind) = {}
  /\ LET c == Malloc(heap, record)
     IN  heap' = c.m /\ mine' = mine \cup ({c.ptr} \ {NULL})
  /\ UNCHANGED converted

Name(p) ==
  /\ Room(1)
  /\ heap' = SetOpName(heap, p, "op")
  /\ UNCHANGED <<mine, converted>>

Customize(p) ==
  /\ Room(1)
  /\ heap' = SetCustomization(heap, p, "cl")
  /\ UNCHANGED <<mine, converted>>

SetDevices(p) ==
  /\ Room(1)
  /\ LET a == Malloc(heap, [kind |-> "array", elems |-> <<"NPU">>])
         n == SetDeviceOrder(a.m, p, 1, a.ptr)
     IN  /\ heap' = n
         /\ mine' = IF a.ptr # NULL /\ n = a.m THEN mine \cup {a.ptr} ELSE mine
  /\ UNCHANGED converted

(* The device order of a model, with a device the record may not know.      *)
SetModelDevices(d, device) ==
  /\ Room(1)
  /\ LET a == Malloc(heap, [kind |-> "array", elems |-> <<device>>])
         n == SetModelDeviceOrder(a.m, d, 1, a.ptr)
     IN  /\ heap' = n
         /\ mine' = IF a.ptr # NULL /\ n = a.m THEN mine \cup {a.ptr} ELSE mine
  /\ UNCHANGED converted

(* An array of one record, given to a device config.                        *)
Give(d, p) ==
  /\ Room(1)
  /\ LET a == Malloc(heap, [kind |-> "pointers", elems |-> <<p>>])
         n == IF KindOf(p) = "OpDeviceOrder" THEN SetOpDeviceOrder(a.m, d, 1, a.ptr)
              ELSE SetCLCustomization(a.m, d, a.ptr)
     IN  IF a.ptr = NULL THEN heap' = a.m /\ UNCHANGED mine
         ELSE /\ heap' = n
              /\ mine' = (mine \ {p}) \cup (IF n = a.m THEN {a.ptr} ELSE {})
  /\ UNCHANGED converted

GiveConfig(b, d) ==
  /\ heap' = SetModelDeviceConfig(heap, b, d)
  /\ mine' = IF heap' = heap THEN mine ELSE mine \ {d}
  /\ UNCHANGED converted

Quantize(b, data) ==
  /\ Room(1)
  /\ heap' = SetQuantizeConfig(heap, b, data)
  /\ UNCHANGED <<mine, converted>>

Destroyed(p) ==
  CASE KindOf(p) = "OpDeviceOrder"     -> OpDeviceOrderDestroy(heap, p)
    [] KindOf(p) = "CLCustomization"   -> CLCustomizationDestroy(heap, p)
    [] KindOf(p) = "ModelDeviceConfig" -> ModelDeviceConfigDestroy(heap, p)
    [] KindOf(p) = "ModelBuildOptions" -> ModelBuildOptionsDestroy(heap, p)
    [] KindOf(p) = "ModelInitOptions"  -> ModelInitOptionsDestroy(heap, p)

Destroy(p) ==
  /\ KindOf(p) \notin {"array", "pointers"}
  /\ heap' = Destroyed(p)
  /\ mine' = mine \ {p}
  /\ UNCHANGED converted

CFunctions ==
  \/ \E r \in {OpDeviceOrderV1, CLCustomizationV1, ModelDeviceConfigV1, ModelBuildOptionsV1} :
       Create(r)
  \/ \E p \in Held("OpDeviceOrder") : Name(p) \/ SetDevices(p)
  \/ \E p \in Held("CLCustomization") : Name(p) \/ Customize(p)
  \/ \E d \in Held("ModelDeviceConfig") :
       \/ \E device \in {"GPU", "OTHER"} : SetModelDevices(d, device)
       \/ \E p \in Held("OpDeviceOrder") \cup Held("CLCustomization") : Give(d, p)
       \/ \E b \in Held("ModelBuildOptions") : GiveConfig(b, d)
  \/ \E b \in Held("ModelBuildOptions"), data \in {1, 2} : Quantize(b, data)

Next ==
  \/ \E o \in Inputs : Convert(o) \/ \E perf \in {"HIGH", "UNKNOWN"} : ConvertInit(o, perf)
  \/ ~converted.done /\ heap.fails \subseteq 1..MaxCount /\ CFunctions
  \/ \E p \in mine : Destroy(p)

Spec == Init /\ [][Next]_vars
-----------------------------------------------------------------------------
PointerFields ==
  {"dims", "opName", "supportedDevices", "customization", "modelDeviceOrder", "opDeviceOrder",
   "clCustomization", "inputTensorDescs", "dynamicShapeConfig", "modelDeviceConfig",
   "quantizeConfig", "buildOptions"}

PointersOf(block) ==
  ({block[f] : f \in DOMAIN block \cap PointerFields}
     \cup (IF block.kind = "pointers" THEN ToSet(block.elems) ELSE {})) \ {NULL}

(* The blocks a record owns, however deep: init options, build options,     *)
(* device config, array, device order, name.                                *)
Owned(S) ==
  LET More(T) == T \cup UNION {PointersOf(heap.blocks[p]) : p \in T \cap DOMAIN heap.blocks}
  IN  More(More(More(More(More(S)))))

(* No block is freed twice or used after it was freed, no array is read     *)
(* past its end, every pointer of a live record leads to a live block, and  *)
(* no two records own the same block, whichever mallocs failed and however  *)
(* often a setter was called.                                               *)
HeapSound ==
  /\ ~heap.bad
  /\ \A p \in DOMAIN heap.blocks :
       /\ PointersOf(heap.blocks[p]) \subseteq DOMAIN heap.blocks
       /\ \A q \in DOMAIN heap.blocks \ {p} : PointersOf(heap.blocks[p]) \cap PointersOf(heap.blocks[q]) = {}

(* Every live block is held by the application or owned by a record it      *)
(* holds: a failed conversion has freed what it allocated, and a destroyed  *)
(* record all it owned.  Two leaks of the code are excepted: a config that  *)
(* has customisations and no device orders frees the array and not its      *)
(* elements, and an array given to a setter the plugin lacks is lost.       *)
NothingLost ==
  LET lost == DOMAIN heap.blocks \ Owned(mine)
      Custom == {p \in DOMAIN heap.blocks : KindOf(p) = "CLCustomization"}
  IN  heap.missing = {} => lost \subseteq Owned(Custom)

(* What the getters return of a converted record is what the C++ options    *)
(* say: the device order only of the mode that uses it, the count of cached *)
(* shapes only when it is in range, and the name of an operator unless its  *)
(* copy could not be made.                                                  *)
ConvertedFaithfully ==
  converted.done /\ converted.ptr # NULL /\ Live(heap, converted.ptr) /\ heap.missing = {} =>
    LET b == converted.ptr
        o == converted.options
        Option(field) == Get(heap, b, "ModelBuildOptions", field)
        Shape(field) == Get(heap, Option("dynamicShapeConfig"), "DynamicShapeConfig", field)
        Device(field) == Get(heap, Option("modelDeviceConfig"), "ModelDeviceConfig", field)
        Op(p, field) == Get(heap, p, "OpDeviceOrder", field)
        Elems(p) == IF p = NULL THEN <<>> ELSE heap.blocks[p].elems
        mode == o.modelDeviceConfig.deviceConfigMode
        ops == IF mode = "OP_LEVEL" THEN o.modelDeviceConfig.opDeviceOrder ELSE <<>>
    IN  /\ \A f \in {"formatMode", "precisionMode", "tuningStrategy", "estimatedOutputSize"} :
             Option(f) = o[f]
        /\ Option("inputNum") = Len(o.inputTensorDescs)
        /\ [i \in DOMAIN Elems(Option("inputTensorDescs")) |->
              Elems(heap.blocks[Elems(Option("inputTensorDescs"))[i]].dims)] = o.inputTensorDescs
        /\ (Shape("enableMode") = "ENABLE") = o.dynamicShapeConfig.enable
        /\ Shape("cacheMode") = o.dynamicShapeConfig.cacheMode
        /\ Shape("maxCachedNum") = (IF o.dynamicShapeConfig.maxCachedNum \in 1..10
                                    THEN o.dynamicShapeConfig.maxCachedNum ELSE 0)
        /\ Device("deviceConfigMode") = mode
        /\ Device("fallBackMode") = o.modelDeviceConfig.fallBackMode
        /\ Elems(Device("modelDeviceOrder"))
             = (IF mode = "MODEL_LEVEL" THEN o.modelDeviceConfig.modelDeviceOrder ELSE <<>>)
        /\ Device("configOpNum") = Len(ops)
        /\ \A i \in DOMAIN ops :
             LET op == Elems(Device("opDeviceOrder"))[i]
                 name == Op(op, "opName")
             IN  /\ Elems(Op(op, "supportedDevices")) = ops[i].devices
                 /\ IF name = NULL THEN heap.fails # {} ELSE heap.blocks[name].name = ops[i].name
        /\ IF Option("quantizeConfig") = NULL THEN o.quantizeConfig = NULL \/ heap.fails # {}
           ELSE heap.blocks[Option("quantizeConfig")].data = o.quantizeConfig
============================================================================
