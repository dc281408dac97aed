------------------------------ MODULE Records ------------------------------
(***************************************************************************)
(* The components of the model runtime that own heap records, side by side *)
(* in one state space: they share no state, so each behaviour exercises    *)
(* the one that "part" names, and the variables of the others stay Idle.   *)
(* TensorBuffers is extended, so that its property is checked as it stands; *)
(* its variables stay as Init leaves them.                                 *)
(***************************************************************************)
EXTENDS TensorBuffers

CONSTANTS
  Inputs, Faults, Plugins, MaxCount,                         \* OptionRecords
  Handles, Files, Delivered, Customs, ModelRoms,             \* BuiltModel
  Sizes, MaxExternal, MaxTarget, MaxDescs,
  Paras, MaxBatch, MaxSets,                                  \* AippPara
  Networks,                                                  \* OperatorGraph
  Names, AttrValues, DataTypes, Raws, MaxUses                \* Attributes

ASSUME BatchAssumption == MaxBatch \in Nat

VARIABLES part,
  options, owned, converted,                    \* OptionRecords
  models, files, descs, device, saved, output,  \* BuiltModel
  npu, table, handles, base, buffer, late, undefined, sets,  \* AippPara
  app, ops, graph, file, copy,                  \* OperatorGraph
  attrs, attrDesc, value, view, got, freed, said, broken, asked \* Attributes

optionVars == <<options, owned, converted>>
modelVars == <<models, files, descs, device, saved, output>>
paraVars == <<npu, table, handles, base, buffer, late, undefined, sets>>
graphVars == <<app, ops, graph, file, copy>>
attrVars == <<attrs, attrDesc, value, view, got, freed, said, broken, asked>>
bufferVars == vars
recordVars == <<part, optionVars, modelVars, paraVars, graphVars, attrVars, bufferVars>>
Idle == "idle"

-----------------------------------------------------------------------------
Options == INSTANCE OptionRecords WITH heap <- options, mine <- owned
Models == INSTANCE BuiltModel WITH Roms <- ModelRoms, rom <- device

\* Cells have a kind and a number, custom data are cells, and a path is not one of the two names of a buffer.
CellKinds == Models!ModelTypes \cup {"CUST", "int", "type", "value", "customDataLen", "body", "ir", "rewritten"}
Cell == CellKinds \X Nat
CustomData == [type : Seq(Cell), value : Seq(Cell)]
ASSUME ModelsAssumption ==
  Delivered \subseteq Seq(Cell) /\ Customs \subseteq CustomData /\ {"buffer", "external", ""} \cap Files = {}

Params == INSTANCE AippPara WITH Handles <- Paras
Irs == INSTANCE OperatorGraph

\* The calls of a network are about its operators, whatever the indexes they give.
NetworkWellFormed(net) ==
  /\ net = [ops |-> net.ops, calls |-> net.calls, inputs |-> net.inputs, outputs |-> net.outputs, file |-> net.file]
  /\ net.ops \in Seq([name : STRING, type : STRING])
  /\ \A c \in net.calls :
       /\ c.op \in 1 .. Len(net.ops)
       /\ c.call \in {"SetInput", "UpdateInputDesc", "SetGraphBuilder", "SubgraphCountRegister", "SetSubgraphBuilder", "Destroy"}
       /\ c.call = "SetInput" => c.from \in 1 .. Len(net.ops) /\ c.index \in Int /\ c.output \in Int
ASSUME NetworksAssumption == \A net \in Networks : NetworkWellFormed(net)
Attrs == INSTANCE Attributes WITH
  Values <- AttrValues, MaxCalls <- MaxUses, desc <- attrDesc, undefined <- freed, calls <- asked

\* What is set has a kind; a descriptor of a file or a factory has no wrappers yet, and a list says its type.
ValueWellFormed(x) == x = [kind |-> x.kind, v |-> x.v] /\ x.kind \in Attrs!Kinds
AttrWellFormed(d) ==
  /\ d = [case |-> d.case, val |-> d.val, type |-> d.type, items |-> d.items, wrapped |-> {}, gone |-> {}]
  /\ d.case \in Attrs!Basic \cup Attrs!Members \cup {"bytes", "list", "none"}
  /\ d.items = [k \in Attrs!ListKinds |-> d.items[k]]
  /\ d.type \in Attrs!ListKinds \cup {"none"} /\ (d.case = "list" => d.type # "none")
RawWellFormed(raw) ==
  /\ raw = [hasOutAttr |-> raw.hasOutAttr, layout |-> raw.layout, dtype |-> raw.dtype, device |-> raw.device,
            size |-> raw.size, key |-> raw.key, keyWrapper |-> "none", last |-> raw.last, attrs |-> raw.attrs]
  /\ DOMAIN raw.attrs \subseteq Names /\ raw.attrs = [n \in DOMAIN raw.attrs |-> raw.attrs[n]]
  /\ \A n \in DOMAIN raw.attrs : AttrWellFormed(raw.attrs[n])
ASSUME AttrsAssumption == (\A x \in AttrValues : ValueWellFormed(x)) /\ (\A raw \in Raws : RawWellFormed(raw))

\* A device without an NPU.
NoLibrary == [npu |-> FALSE, oldHcl |-> FALSE, creators |-> {}, functions |-> {}]
BuffersIdle == Init /\ rom = NoLibrary
GraphsIdle == app = Idle /\ ops = Idle /\ graph = Idle /\ file = Idle /\ copy = Idle
AttrsIdle ==
  /\ attrs = Idle /\ attrDesc = Idle /\ value = Idle /\ view = Idle /\ got = Idle
  /\ freed = Idle /\ said = Idle /\ broken = Idle /\ asked = Idle
ParasIdle ==
  /\ npu = Idle /\ table = Idle /\ handles = Idle /\ base = Idle
  /\ buffer = Idle /\ late = Idle /\ undefined = Idle /\ sets = Idle
ModelsIdle == models = Idle /\ files = Idle /\ descs = Idle /\ device = Idle /\ saved = Idle /\ output = Idle
OptionsIdle == options = Idle /\ owned = Idle /\ converted = Idle

-----------------------------------------------------------------------------
RecordsInit ==
  \/ part = "options" /\ Options!Init /\ ModelsIdle /\ ParasIdle /\ GraphsIdle /\ AttrsIdle /\ BuffersIdle
  \/ part = "models" /\ Models!Init /\ OptionsIdle /\ ParasIdle /\ GraphsIdle /\ AttrsIdle /\ BuffersIdle
  \/ part = "paras" /\ Params!Init /\ OptionsIdle /\ ModelsIdle /\ GraphsIdle /\ AttrsIdle /\ BuffersIdle
  \/ part = "graphs" /\ Irs!Init /\ OptionsIdle /\ ModelsIdle /\ ParasIdle /\ AttrsIdle /\ BuffersIdle
  \/ part = "attrs" /\ Attrs!Init /\ OptionsIdle /\ ModelsIdle /\ ParasIdle /\ GraphsIdle /\ BuffersIdle
  \/ part = "buffers" /\ Init /\ OptionsIdle /\ ModelsIdle /\ ParasIdle /\ GraphsIdle /\ AttrsIdle

OptionsStep == part = "options" /\ Options!Next /\ UNCHANGED <<part, modelVars, paraVars, graphVars, attrVars, bufferVars>>
ModelsStep == part = "models" /\ Models!Next /\ UNCHANGED <<part, optionVars, paraVars, graphVars, attrVars, bufferVars>>
ParasStep == part = "paras" /\ Params!Next /\ UNCHANGED <<part, optionVars, modelVars, graphVars, attrVars, bufferVars>>
GraphsStep == part = "graphs" /\ Irs!Next /\ UNCHANGED <<part, optionVars, modelVars, paraVars, attrVars, bufferVars>>
AttrsStep == part = "attrs" /\ Attrs!Next /\ UNCHANGED <<part, optionVars, modelVars, paraVars, graphVars, bufferVars>>
BuffersStep == part = "buffers" /\ Next /\ UNCHANGED <<part, optionVars, modelVars, paraVars, graphVars, attrVars>>

RecordsNext == OptionsStep \/ ModelsStep \/ ParasStep \/ GraphsStep \/ AttrsStep \/ BuffersStep
RecordsSpec == RecordsInit /\ [][RecordsNext]_recordVars

-----------------------------------------------------------------------------
\* The option records and their conversion: nothing is freed twice or used after
\* it was freed, nothing is lost but by the two named leaks, and the converted
\* record says what the options say.
OptionsSound ==
  part = "options" => Options!HeapSound /\ Options!NothingLost /\ Options!ConvertedFaithfully

\* Built models: what a save wrote gives the model and its custom data back, and no
\* tensor descriptor is held twice or after it was freed.
BuiltModelsSound == part = "models" => Models!SavedIsRestored /\ Models!DescsHeldOnce

\* AIPP parameters: what the setters derive from one another is current, and no object reaches the wrong library
\* but a plugin's after the plugin refused another.
ParaSound == part = "paras" => Params!ParaSound

\* The two operators of a link agree on it.
LinksSound == part = "graphs" => Irs!LinksAgree

\* A graph that is built mirrors the operators, and one that is saved comes back from
\* the file, but for the named causes.
GraphsSound == part = "graphs" => Irs!GraphMirrorsNetwork /\ Irs!GraphsComeBack

\* Attributes: typed reads answer what was set, and no freed message is used but in
\* the three named cases.
AttributesSound == part = "attrs" => Attrs!AttributesSound
=============================================================================
