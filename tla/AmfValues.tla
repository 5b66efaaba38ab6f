----------------------------- MODULE AmfValues -----------------------------
(* The values of AMF, as package/app/rtmpServer/src/amf.cc makes them. *)

\* A value: a number or Boolean is in n, a string in s, an object's map in o.
AMFValue(type, n, s, o) == [type |-> type, n |-> n, s |-> s, o |-> o]

Number(n)  == AMFValue("AMF_NUMBER", n, <<>>, <<>>)
Integer(n) == AMFValue("AMF_INTEGER", n, <<>>, <<>>)
Boolean(n) == AMFValue("AMF_BOOLEAN", n, <<>>, <<>>)
String(s)  == AMFValue("AMF_STRING", 0, s, <<>>)
Object(o)  == AMFValue("AMF_OBJECT", 0, <<>>, o)
Ecma(o)    == AMFValue("AMF_ECMA_ARRAY", 0, <<>>, o)
NullValue  == AMFValue("AMF_NULL", 0, <<>>, <<>>)
Undefined  == AMFValue("AMF_UNDEFINED", 0, <<>>, <<>>)
=============================================================================
