------------------------------ MODULE SampleNames ------------------------------
(* Sites a name is typed at and what there is to offer, for the model of      *)
(* Completion.  1 stands for a capital, 2 and 3 for small letters.             *)
EXTENDS Sequences

Part(kind, of) == [kind |-> kind, of |-> of]
Symbol(path) == [kind |-> "symbol", path |-> path]
Call == Part("argument", <<2, 2>>)
Computed == Part("argument", <<>>)

CursorSites ==
  {[kind |-> kind, path |-> <<>>] : kind \in {"import", "string"}}
    \cup {Symbol(path) :
            path \in {<<>>, <<Call>>, <<Computed, Call>>, <<Part("head", <<>>)>>,
                      <<Part("class", <<>>)>>, <<Part("class", <<>>), Call>>, <<Part("rest", <<>>)>>,
                      <<Part("key", <<>>), Call>>, <<Part("value", <<1, 2>>), Call>>,
                      <<Part("value", <<1, 2>>)>>, <<Part("value", <<>>), Call>>,
                      <<Call, Part("value", <<1, 2>>), Part("argument", <<2, 3>>)>>,
                      <<Part("rest", <<>>), Part("value", <<1, 3>>), Call>>}}

Binding(name, sourceType, inferred) == [name |-> name, sourceType |-> sourceType, inferred |-> inferred]
Record(name, class, options) == [name |-> name, class |-> class, options |-> options]
OptionOf(name, values) == [name |-> name, values |-> values]

Locals ==
  {<<>>,
   <<Binding(<<2, 2, 3>>, FALSE, {}), Binding(<<1, 2>>, TRUE, {"Thing"})>>,
   <<Binding(<<2, 2, 3, 2>>, TRUE, {}), Binding(<<2, 2, 3, 3>>, FALSE, {})>>,
   <<Binding(<<2, 3, 2>>, FALSE, {"Type"}), Binding(<<2, 2>>, FALSE, {"Function"}),
     Binding(<<2, 3, 3>>, FALSE, {"Type", "Thing"}), Binding(<<1, 3>>, FALSE, {"Type"})>>}

Options ==
  <<OptionOf(<<1, 2>>, <<<<2, 2>>, <<2, 3>>, <<2, 2, 2>>>>),
    OptionOf(<<1, 2, 3>>, <<<<3, 3>>, <<3, 2>>, <<3, 2, 2>>, <<3, 3, 3>>>>),
    OptionOf(<<1, 3>>, <<<<2>>>>)>>

Records ==
  {<<>>,
   <<Record(<<2, 2>>, "Function", Options), Record(<<2, 3>>, "Function", <<>>),
     Record(<<1, 2, 2>>, "Type", <<>>), Record(<<2, 2>>, "Thing", <<>>)>>,
   <<Record(<<2, 2, 3, 3>>, "Type", <<>>), Record(<<2, 2, 3, 2>>, "Type", <<>>),
     Record(<<2, 2, 2>>, "Type", <<>>), Record(<<2, 2, 2, 2>>, "Thing", <<>>),
     Record(<<2, 2, 2, 3>>, "Type", <<>>), Record(<<2, 3>>, "Function", Options)>>}

Catalogues == {<<>>, <<<<1, 2>>, <<1, 2, 2>>, <<1, 3>>, <<1, 3, 2>>, <<2>>>>}

NameWorlds ==
  {[bindings |-> bindings, records |-> records, packages |-> packages] :
     bindings \in Locals, records \in Records, packages \in Catalogues}

ControlWords == <<<<2, 2, 2>>, <<3, 2>>, <<3, 2, 3>>>>
=============================================================================
