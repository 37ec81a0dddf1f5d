------------------------------- MODULE MCConfGui -------------------------------
EXTENDS ConfGui, TLC

\* One key of each kind, with values its widget shows and values it does not.
K(type, n, auth, src, vals, typed) ==
  [type |-> type, n |-> n, auth |-> auth, src |-> src, def |-> IF n = 2 THEN <<1, 1>> ELSE <<1>>,
   shown |-> TRUE, vals |-> vals, typed |-> typed]

MCLayouts ==
  {K("text", 1, <<5>>, <<>>, {<<>>, <<1>>}, {2}), K("class", 1, <<5>>, <<>>, {<<>>, <<1>>}, {2}),
   K("dock", 1, <<>>, <<MainDock, 3>>, {<<MainDock>>, <<>>, <<3>>}, {0})}
  \cup {[K(t, 1, <<0, 9>>, <<>>, {<<1>>}, {2}) EXCEPT !.shown = FALSE] : t \in {"bool", "text", "dock", "float"}}
  \cup {[K("float", 2, <<1, 5>>, <<>>, {<<2, 3>>}, {4}) EXCEPT !.def = <<1>>]}
  \cup {K("bool", 2, <<>>, <<>>, {<<0, 1>>}, {0, 1}), K("boolCtrl", 1, <<>>, <<>>, {<<0>>, <<>>}, {1}),
        K("intScale", 1, <<1, 5>>, <<>>, {<<3>>, <<9>>}, {2, 7}), K("intSpin", 1, <<0>>, <<>>, {<<3>>}, {4}),
        K("float", 2, <<1, 5>>, <<>>, {<<2, 3>>, <<2, 9>>, <<2>>}, {4}),
        K("size", 2, <<1, 5>>, <<>>, {<<2, 2>>, <<2, 3>>, <<0, 0>>}, {4}),
        K("rgb", 1, <<>>, <<>>, {<<1, 2, 3>>, <<1, 2, 3, 4>>}, {5}),
        K("rgba", 1, <<>>, <<>>, {<<1, 2, 3>>, <<1, 2, 3, 4>>}, {5}),
        K("font", 1, <<>>, <<>>, {<<1>>, <<>>}, {2}), K("link", 1, <<1, 2>>, <<>>, {<<1>>}, {2}),
        K("handbook", 1, <<>>, <<>>, {<<1>>}, {2}), K("label", 1, <<>>, <<>>, {<<1>>}, {2}),
        K("multiChoice", 1, <<1, 2>>, <<>>, {<<1, 2>>}, {2}),
        K("tree", 1, <<>>, <<>>, {<<1, 2, 3>>, <<1>>}, {4}),
        K("password", 1, <<>>, <<>>, {<<>>, <<101>>}, {2}), K("password", 1, <<5>>, <<>>, {<<>>, <<101>>}, {2}),
        K("shortkey", 1, <<>>, <<>>, {<<1>>}, {2}),
        K("list", 1, <<1, 2>>, <<>>, {<<1>>, <<2>>, <<8>>}, {0}), K("listEntry", 1, <<1, 2>>, <<>>, {<<8>>, <<>>}, {4}),
        K("numbered", 1, <<1, 2>>, <<>>, {<<0>>, <<1>>, <<5>>, <<>>}, {0}),
        K("ctrlSimple", 1, <<>>, <<>>, {<<0>>}, {0}),
        K("ctrlSelect", 1, <<1, 7, 7, 2, 7, 7>>, <<>>, {<<0>>, <<1>>, <<2>>, <<6>>}, {0}),
        K("theme", 1, <<1, 2, 3>>, <<1, 2>>, {<<1>>, <<8>>}, {0})}
  \cup {K(t, 1, <<>>, <<1, 2>>, {<<1>>, <<8>>, <<>>}, {0}) :
          t \in {"view", "desktopIcons", "animation", "decorator", "decoSimple", "decoDefault", "screen", "iconsDock"}}
MCShared == {"class", "dock"}
MCSymmetry == Permutations(Grabs)
================================================================================
