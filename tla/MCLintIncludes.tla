--------------------------- MODULE MCLintIncludes ---------------------------
(* Files p/foo_test.cc and p/foo.cpp, and headers of every kind.            *)
EXTENDS LintIncludes

Name(dir, words, ext) == [dir |-> dir, words |-> words, ext |-> ext]
vector == Name(<< >>, <<"vector">>, "")
stdio == Name(<< >>, <<"stdio">>, "h")
foo_h == Name(<<"p">>, <<"foo">>, "h")
bar_h == Name(<<"p">>, <<"bar">>, "h")
local_h == Name(<< >>, <<"foo">>, "h")
other_cc == Name(<<"q">>, <<"bar">>, "cc")
lua_h == Name(<< >>, <<"lua">>, "h")

MCFiles == {[name |-> Name(<<"p">>, w, e), absolute |-> Name(<<"home", "p">>, w, e)] :
              <<w, e>> \in {<< <<"foo", "test">>, "cc" >>, << <<"foo">>, "cpp" >>}}
Quoted(h) == [header |-> h, system |-> FALSE]
System(h) == [header |-> h, system |-> TRUE]
MCIncludes == {Quoted(foo_h), Quoted(local_h), Quoted(bar_h), System(vector), System(stdio),
               Quoted(lua_h), Quoted(other_cc)}
MCCppHeaders == {vector}
MCThirdParty == {lua_h}
Order == << local_h, lua_h, bar_h, foo_h, other_cc, stdio, vector >>
MCCanonical == [h \in {Order[i] : i \in 1..Len(Order)} |-> CHOOSE i \in 1..Len(Order) : Order[i] = h]
MCRequired == {vector}
on_disk == Name(<<"home", "p">>, <<"foo">>, "h")
MCDisks == {[h \in {on_disk} |-> {vector}], [h \in {on_disk} |-> {}], << >>}
=============================================================================
