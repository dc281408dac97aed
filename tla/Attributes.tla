----------------------------- MODULE Attributes -----------------------------
(***************************************************************************)
(* The attributes and the data type of a tensor descriptor, as the C++ API *)
(* keeps them in protobuf messages.  An attribute is a oneof with a case;  *)
(* ProtoAttrDef builds a wrapper around a message member once and keeps it *)
(* until a copy, whatever becomes of the case.  AttrValue keeps the type   *)
(* it found when it was built beside the attribute it looks at.            *)
(*                                                                         *)
(* Values are sequences of numbers: the empty one is what a member holds   *)
(* when it is new, Null in one is a null pointer, Unsavable a graph that   *)
(* cannot be serialised.                                                   *)
(***************************************************************************)
EXTENDS Integers, Sequences, FiniteSets

CONSTANTS
  Names,       \* names of attributes
  Values,      \* what may be set: [kind, v]
  DataTypes,   \* data types an application may set
  Raws,        \* descriptors as they come from a factory or a file
  MaxCalls     \* bound on the calls of the application

VARIABLES
  attrs,       \* the attributes: a partial function of Names
  desc,        \* the members of the descriptor
  value,       \* an AttrValue of the application
  view,        \* a tensor that looks into an attribute
  got,         \* what the last typed read answered
  undefined,   \* the call that touched a message that is gone
  said, broken, calls  \* what was set last, the attributes half set or misread, calls so far

vars == <<attrs, desc, value, view, got, undefined, said, broken, calls>>

Null == -99
Unsavable == -98
Int32 == -2..1
UInt32 == 0..3

Basic == {"string", "int", "float", "bool"}
Members == {"named_attrs", "tensor_desc", "tensor", "graph"}
ListKinds == {"list_string", "list_int", "list_float", "list_bool", "list_tensor_desc", "list_tensor"}
Kinds == Basic \cup Members \cup ListKinds \cup {"bytes"}
Said(kind, v) == [kind |-> kind, v |-> v]
Nothing == Said("none", <<>>)

-----------------------------------------------------------------------------
(* ProtoAttrDef.                                                            *)

NoItems == [k \in ListKinds |-> <<>>]
AttrDef == [case |-> "none", val |-> <<>>, type |-> "none", items |-> NoItems, wrapped |-> {}, gone |-> {}]

\* A list says its type itself.
GetValueType(d) == IF d.case = "list" THEN d.type ELSE d.case

\* Another case frees the message of the old one, and the wrapper stays.
Switch(d, case) ==
  IF d.case = case THEN d
  ELSE [AttrDef EXCEPT !.case = case, !.wrapped = d.wrapped, !.gone = d.gone \cup ({d.case} \cap d.wrapped)]

\* A wrapper is built, and the case switched to it, at the first use only.
Wrap(d, member) == IF member \in d.wrapped THEN d ELSE [Switch(d, member) EXCEPT !.wrapped = @ \cup {member}]
Member(kind) == IF kind \in ListKinds THEN "list" ELSE kind
TouchesGone(d, kind) == Member(kind) \in d.gone

CopyFrom(d) == [d EXCEPT !.wrapped = {}, !.gone = {}]

-----------------------------------------------------------------------------
(* AttrValue.                                                               *)

Content(d, kind) ==
  IF kind \in ListKinds THEN IF d.case = "list" THEN d.items[kind] ELSE <<>> ELSE IF d.case = kind THEN d.val ELSE <<>>
Found(d) == Said(GetValueType(d), Content(d, GetValueType(d)))

\* The tensors in front of the first null one.
Whole(list) == {n \in 0..Len(list) : \A i \in 1..n : list[i] # Null}
Accepted(list) == SubSeq(list, 1, CHOOSE n \in Whole(list) : \A m \in Whole(list) : m <= n)

SetBasic(d, x) == [Switch(d, x.kind) EXCEPT !.val = x.v]
SetMember(d, x) == [Wrap(d, x.kind) EXCEPT !.val = x.v]
SetGraph(d, x) == IF x.v = <<Unsavable>> THEN Wrap(d, "graph") ELSE SetMember(d, x)
SetList(d, x) == [Wrap(d, "list") EXCEPT !.items[x.kind] = x.v, !.type = x.kind]
SetTensorList(d, x) ==
  IF Accepted(x.v) = x.v THEN SetList(d, x) ELSE [Wrap(d, "list") EXCEPT !.items[x.kind] = Accepted(x.v)]

\* A setter takes values of the type that is there or of any if there is none; what
\* fails inside it has switched the case already.
RefusedNull(type, x) == x.v = <<Null>>   \* faulty: no look at the type
Refused(type, x) == type \notin {x.kind, "none"} \/ x.v = <<Null>>
Fails(x) == x.v = <<Unsavable>> \/ (x.kind = "list_tensor" /\ Accepted(x.v) # x.v)
Set(d, x) ==
  CASE x.kind \in Basic \cup {"bytes"} -> SetBasic(d, x)
    [] x.kind = "graph" -> SetGraph(d, x)
    [] x.kind \in Members \ {"graph"} -> SetMember(d, x)
    [] x.kind = "list_tensor" -> SetTensorList(d, x)
    [] x.kind \in ListKinds \ {"list_tensor"} -> SetList(d, x)

\* A getter of a message or of bytes switches the case to what it looks for, and the
\* graph is moved out of the attribute.
GetGraph(d) == [Wrap(d, "graph") EXCEPT !.val = <<>>]
Get(d, kind) ==
  CASE kind \in Basic -> d
    [] kind = "bytes" -> Switch(d, "bytes")
    [] kind = "graph" -> GetGraph(d)
    [] kind \in Kinds \ (Basic \cup {"bytes", "graph"}) -> Wrap(d, Member(kind))

-----------------------------------------------------------------------------
(* The descriptor's data type and the reading of old descriptors.           *)

DATA_TYPE_MAP == {"FLOAT", "INT8", "INT32"}
SELF_DEFINE_DATA_TYPE_MAP == {"DUAL", "INT4"}

\* What an old model has in its attributes becomes a member, what is blank a default.
CompatibleMemberHandle(raw) ==
  IF raw.hasOutAttr THEN raw
  ELSE [raw EXCEPT !.hasOutAttr = TRUE,
                   !.layout = IF @ = "" THEN "NCHW" ELSE @,
                   !.dtype = IF @ = "UNDEFINED" THEN "FLOAT" ELSE @,
                   !.device = IF @ = "" THEN "NPU" ELSE @,
                   !.size = IF "size" \in DOMAIN raw.attrs THEN Content(raw.attrs["size"], "int") ELSE @]

\* A type of the tools is an attribute of its own, erased behind the wrappers' back.
dtype(d) == IF d.key = "" THEN d.dtype ELSE d.key
set_dtype(d, t) ==
  LET erased == [d EXCEPT !.key = "", !.keyWrapper = IF @ = "built" THEN "gone" ELSE @]
  IN IF t \in DATA_TYPE_MAP THEN [erased EXCEPT !.dtype = t]
     ELSE IF t \in SELF_DEFINE_DATA_TYPE_MAP THEN [erased EXCEPT !.key = t]
     ELSE erased

-----------------------------------------------------------------------------
(* The calls of an application.                                             *)

Calling == calls < MaxCalls /\ undefined = "" /\ calls' = calls + 1
Here(name) == IF name \in DOMAIN attrs THEN attrs[name] ELSE AttrDef
Put(name, d) == attrs' = [n \in DOMAIN attrs \cup {name} |-> IF n = name THEN d ELSE attrs[n]]
NoRead == got' = [kind |-> "none"]
ViewLost(name) == view' = IF view = name THEN "" ELSE view

\* AttrUtils::Set: the attribute is created before its type is looked at.
UtilsSet(name, x) ==
  /\ Calling /\ NoRead
  /\ LET old == Here(name)
         new == IF Refused(GetValueType(old), x) THEN old ELSE Set(old, x)
     IN /\ IF ~Refused(GetValueType(old), x) /\ TouchesGone(old, x.kind)
           THEN undefined' = "UtilsSet" /\ UNCHANGED attrs
           ELSE Put(name, new) /\ UNCHANGED undefined
        /\ IF Refused(GetValueType(old), x) THEN UNCHANGED <<said, broken>>
           ELSE IF Fails(x) THEN broken' = broken \cup {name} /\ UNCHANGED said
           ELSE said' = [said EXCEPT ![name] = x] /\ broken' = broken \ {name}
  /\ UNCHANGED <<desc, value, view>>

\* AttrUtils::Get: by the type that is there, numbers in the range of the variable.
Wide(kind) == IF kind \in {"int32", "uint32"} THEN "int" ELSE kind
InRange(kind, v) == (kind = "int32" => v[1] \in Int32) /\ (kind = "uint32" => v[1] \in UInt32)
UtilsGet(name, kind) ==
  /\ Calling
  /\ LET d == Here(name)
         typed == name \in DOMAIN attrs /\ GetValueType(d) = Wide(kind)
         ok == typed /\ InRange(kind, Content(d, Wide(kind)))
     IN /\ got' = [kind |-> kind, name |-> name, ok |-> ok, v |-> IF ok THEN Said(kind, Content(d, Wide(kind))) ELSE Nothing]
        /\ IF typed /\ kind \in Kinds THEN Put(name, Get(d, kind)) ELSE UNCHANGED attrs
        /\ undefined' = IF typed /\ TouchesGone(d, Wide(kind)) THEN "UtilsGet" ELSE ""
        /\ said' = IF ok /\ kind = "graph" THEN [said EXCEPT ![name].v = <<>>] ELSE said
        /\ view' = IF ok /\ kind = "tensor" THEN name ELSE view
  /\ UNCHANGED <<desc, value, broken>>

\* The application writes through the tensor that a read or MutableTensor gave it.
WriteView(v) ==
  /\ Calling /\ NoRead /\ view # ""
  /\ IF "tensor" \in attrs[view].gone THEN undefined' = "WriteView" /\ UNCHANGED attrs
     ELSE attrs' = [attrs EXCEPT ![view].val = v] /\ UNCHANGED undefined
  /\ said' = [said EXCEPT ![view].v = v]
  /\ UNCHANGED <<desc, value, view, broken>>

\* Tensors read from a list and set there again: the list frees them first.
SetOwnTensorList(name) ==
  /\ Calling /\ NoRead
  /\ name \in DOMAIN attrs /\ GetValueType(attrs[name]) = "list_tensor" /\ attrs[name].items["list_tensor"] # <<>>
  /\ undefined' = "SetOwnTensorList"
  /\ UNCHANGED <<attrs, desc, value, view, said, broken>>

\* AttrHolder::SetAttr trusts the type the value remembers, GetAttr copies.
HolderSet(name) ==
  /\ Calling /\ NoRead
  /\ LET old == Here(name)
         fits == value.type # "none" /\ GetValueType(old) \in {value.type, "none"}
     IN IF fits
        THEN /\ Put(name, CopyFrom(value.def))
             /\ said' = [said EXCEPT ![name] = value.said]
             /\ broken' = IF value.misread THEN broken \cup {name} ELSE broken \ {name}
             /\ ViewLost(name)
        ELSE (IF value.type = "none" THEN UNCHANGED attrs ELSE Put(name, old)) /\ UNCHANGED <<said, broken, view>>
  /\ UNCHANGED <<desc, value, undefined>>
HolderGet(name) ==
  /\ Calling /\ NoRead /\ name \in DOMAIN attrs
  /\ value' = [type |-> GetValueType(attrs[name]), def |-> CopyFrom(attrs[name]), said |-> said[name],
               misread |-> name \in broken]
  /\ UNCHANGED <<attrs, desc, view, undefined, said, broken>>
DelAttr(name) ==
  /\ Calling /\ NoRead
  /\ attrs' = [n \in DOMAIN attrs \ {name} |-> attrs[n]]
  /\ said' = [said EXCEPT ![name] = Nothing] /\ broken' = broken \ {name} /\ ViewLost(name)
  /\ UNCHANGED <<desc, value, undefined>>

\* All attributes, the one of the data type too, get a wrapper, and are asked their type.
GetAllAttrs ==
  /\ Calling /\ NoRead
  /\ desc' = [desc EXCEPT !.keyWrapper = IF @ = "none" /\ desc.key # "" THEN "built" ELSE @]
  /\ undefined' = IF desc.keyWrapper = "gone" THEN "GetAllAttrs" ELSE ""
  /\ UNCHANGED <<attrs, value, view, said, broken>>

\* The application's own AttrValue: its getters do not look at the type.
ValueSet(x) ==
  /\ Calling /\ NoRead /\ ~Refused(value.type, x)
  /\ IF TouchesGone(value.def, x.kind) THEN undefined' = "ValueSet" /\ UNCHANGED value
     ELSE /\ value' = [value EXCEPT !.def = Set(@, x), !.type = IF Fails(x) THEN @ ELSE x.kind,
                                    !.said = IF Fails(x) THEN @ ELSE x, !.misread = @ \/ Fails(x)]
          /\ UNCHANGED undefined
  /\ UNCHANGED <<attrs, desc, view, said, broken>>
ValueGet(kind) ==
  /\ Calling /\ NoRead
  /\ IF TouchesGone(value.def, kind) THEN undefined' = "ValueGet" /\ UNCHANGED value
     ELSE /\ value' = [value EXCEPT !.def = Get(@, kind), !.misread = @ \/ Get(value.def, kind).case # value.def.case,
                                    !.said = IF kind = "graph" /\ @.kind = "graph" THEN Said("graph", <<>>) ELSE @]
          /\ UNCHANGED undefined
  /\ UNCHANGED <<attrs, desc, view, said, broken>>

SetDataType(t) ==
  /\ Calling /\ NoRead
  /\ desc' = [set_dtype(desc, t) EXCEPT !.last = t]
  /\ UNCHANGED <<attrs, value, view, undefined, said, broken>>

\* The descriptor is assigned a copy of itself: the wrappers are built anew.
CopyDesc ==
  /\ Calling /\ NoRead
  /\ attrs' = [n \in DOMAIN attrs |-> CopyFrom(attrs[n])]
  /\ desc' = [desc EXCEPT !.keyWrapper = "none"]
  /\ view' = ""
  /\ UNCHANGED <<value, undefined, said, broken>>

Init ==
  /\ \E raw \in Raws :
       /\ attrs = raw.attrs
       /\ desc = [CompatibleMemberHandle(raw) EXCEPT !.last = dtype(CompatibleMemberHandle(raw))]
       /\ said = [n \in Names |-> IF n \in DOMAIN raw.attrs THEN Found(raw.attrs[n]) ELSE Nothing]
  /\ value = [type |-> "none", def |-> AttrDef, said |-> Nothing, misread |-> FALSE]
  /\ view = "" /\ got = [kind |-> "none"] /\ undefined = "" /\ broken = {} /\ calls = 0

Next ==
  \/ \E n \in Names :
       \/ HolderSet(n) \/ HolderGet(n) \/ DelAttr(n) \/ SetOwnTensorList(n)
       \/ \E x \in Values : UtilsSet(n, x)
       \/ \E k \in {x.kind : x \in Values} \cup {"int32", "uint32"} : UtilsGet(n, k)
  \/ \E x \in Values : ValueSet(x)
  \/ \E k \in {x.kind : x \in Values} : ValueGet(k)
  \/ \E t \in DataTypes : SetDataType(t)
  \/ WriteView(<<7>>) \/ GetAllAttrs \/ CopyDesc

Spec == Init /\ [][Next]_vars

-----------------------------------------------------------------------------
(* Properties.                                                              *)

\* A typed read succeeds exactly when the last accepted call gave the attribute that
\* type and the number fits, and answers what that call set, through refusals, copies
\* and reads of other types.  Apart are attributes a failed set or a wrong getter left
\* (attr_value.cpp:566-582, attr_utils.cpp:46-60).
ReadsAnswer ==
  got.kind # "none" /\ got.name \notin broken /\ undefined = "" /\ got.kind # "graph" =>
    LET s == said[got.name]
    IN /\ got.ok <=> s.kind = Wide(got.kind) /\ InRange(got.kind, s.v)
       /\ got.ok => got.v.v = s.v

\* What an attribute and a value hold is what was set, and a value remembers its type.
HoldsWhatWasSet ==
  /\ \A n \in Names \ broken :
       /\ GetValueType(Here(n)) = said[n].kind
       /\ said[n].kind # "none" => Content(Here(n), said[n].kind) = said[n].v
  /\ ~value.misread =>
       value.type = GetValueType(value.def) /\ (value.type # "none" => Content(value.def, value.type) = value.said.v)

\* A tensor that looks into an attribute looks at what the attribute holds.
ViewsHold == view # "" => attrs[view].case = "tensor" /\ "tensor" \in attrs[view].wrapped \ attrs[view].gone

\* No wrapper is used whose message is gone, but by a value misread, by a list of
\* tensors set to its own, and by the list of all attributes once the data type was
\* changed (proto_tensor_desc_def.cpp:374-393).
NothingGoneIsUsed ==
  \/ undefined \in {"", "SetOwnTensorList"}
  \/ undefined = "GetAllAttrs" /\ desc.keyWrapper = "gone"
  \/ undefined \in {"ValueSet", "ValueGet"} /\ value.misread

\* The data type is the one set last, unless no table knows that.
DataTypeKept == dtype(desc) = desc.last \/ desc.last \notin DATA_TYPE_MAP \cup SELF_DEFINE_DATA_TYPE_MAP

AttributesSound == ReadsAnswer /\ HoldsWhatWasSet /\ ViewsHold /\ NothingGoneIsUsed /\ DataTypeKept
=============================================================================
