------------------------------ MODULE MCLuaVM -------------------------------
EXTENDS LuaVM

\* Short circuits over the literals that luaK_goiftrue and luaK_goiffalse treat by
\* their value.
Literals == {<<"nil">>, <<"true">>, <<"false">>, <<"num", 1>>}
ShortCircuits ==
  {<<<<"return", <<<<"bin", o3, <<"bin", o2, <<"bin", o1, w, x>>, y>>, z>>>>>>>> :
     o1, o2, o3 \in {"and", "or"}, w, x, y, z \in Literals}
MCPrograms == LET programs == ShortCircuits
              IN  [p \in programs |-> Processed(p)]
=============================================================================
