----------------------------- MODULE MCMessage -----------------------------
(* Field assignments over the fields a and b, nested one deep.               *)
EXTENDS Message

ExactAdd(t, d) == t + d

IntLeaf(k) == Leaf("int", <<"lit", k>>)
FloatLeaf(k) == Leaf("float", <<"lit", k>>)
ObjectOf(field, leaf) == EmptyObject @@ (<<field>> :> leaf)

\* Scripts without a schema: writes at the root, at a, inside a, and at b.
NoSchema == <<>>
FreePlacement ==
  { << <<>>, ExprValue({ObjectOf("a", IntLeaf(1))}, {}) >>,
    << <<>>, LiveValue("root", Scalar(IntLeaf(0)), {}, {"root"}) >>,
    << <<"a">>, ExprValue({Scalar(IntLeaf(2))}, {}) >>,
    << <<"a">>, LiveValue("inner", ObjectOf("b", IntLeaf(0)), {}, {"inner"}) >>,
    << <<"a", "b">>, LiveValue("leaf", Scalar(IntLeaf(0)), {"leaf"}, {"leaf"}) >>,
    << <<"a", "b">>, ExprValue({Scalar(IntLeaf(3))}, {}) >>,
    << <<"b">>, ArrayValue(<<ExprValue({Scalar(IntLeaf(4))}, {})>>) >>,
    << <<"b">>, LiveValue("side", Scalar(IntLeaf(0)), {}, {}) >> }

\* A strict schema {a: {b: Int, c: Float}, d: [Int]} with positional fills, one
\* of them nested and one holding live blocks, and values of the wrong type.
StrictSchema ==
  EmptyObject @@ (<<"a">> :> Object) @@ (<<"a", "b">> :> IntLeaf(0)) @@ (<<"a", "c">> :> FloatLeaf(0))
              @@ (<<"d">> :> Leaf("array", <<"lit", 0>>))
Whole == ExprValue({ObjectOf("b", IntLeaf(1)) @@ (<<"c">> :> FloatLeaf(1)), ObjectOf("b", IntLeaf(1))}, {})
LiveB == LiveValue("liveB", Scalar(IntLeaf(0)), {}, {"liveB"})
LiveC == LiveValue("liveC", Scalar(FloatLeaf(0)), {"liveC"}, {"liveC"})
NumberValue == ExprValue({Scalar(IntLeaf(5)), Scalar(FloatLeaf(5))}, {})
InnerFill == ArrayValue(<<LiveB, LiveC>>)
OuterFill == ArrayValue(<<InnerFill, ArrayValue(<<NumberValue>>)>>)
StrictOrder == <<"a", "b", "c", "d">>

\* The same schema without strictness: a new field, an object for it, and a
\* field inside that object.
PermissivePlacement ==
  { << <<"a", "b">>, ExprValue({Scalar(IntLeaf(5))}, {}) >>,
    << <<"x">>, ExprValue({Scalar(IntLeaf(6)), ObjectOf("z", IntLeaf(7))}, {}) >>,
    << <<"x", "y">>, ExprValue({Scalar(IntLeaf(8))}, {}) >> }
=============================================================================
