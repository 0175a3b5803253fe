----------------------------- MODULE MCSkillScript ------------------------------
EXTENDS SkillScript
CONSTANTS a, b, c, d, g, h, l, p, q

\* Steps a, b, c and d are tools, g and h are groups and l is a loop.
Blank ==
    [ body |-> [x \in Nodes |-> <<>>], id |-> [x \in Steps |-> x],
      kind |-> [x \in Steps |-> "tool"], tool |-> [x \in Steps |-> "mcp"],
      output |-> [x \in Steps |-> NoOutput], reads |-> [x \in Steps |-> {}],
      maxIterations |-> [x \in Steps |-> 2], conditional |-> {}, delayed |-> {} ]
Tree(body) ==
    [Blank EXCEPT !.body = body @@ Blank.body,
                  !.kind = (g :> "group") @@ (h :> "group") @@ (l :> "foreach") @@ Blank.kind]

\* A loop between steps, its second step reads what its first one puts out.
Looping ==
    [Tree((Root :> <<a, l, d>>) @@ (l :> <<b, c>>)) EXCEPT
        !.output = (a :> p) @@ (b :> q) @@ Blank.output,
        !.reads = (l :> {p}) @@ (c :> {q}) @@ (d :> {q}) @@ Blank.reads,
        !.tool = (b :> "script") @@ (c :> "request") @@ Blank.tool,
        !.conditional = {b, c}, !.delayed = {d}]

\* A loop in a group, and a group in a loop.
Grouping ==
    [Tree((Root :> <<a, g>>) @@ (g :> <<b, c, l>>) @@ (l :> <<d>>)) EXCEPT
        !.output = (a :> p) @@ (b :> q) @@ Blank.output,
        !.reads = (b :> {p}) @@ (c :> {q}) @@ (d :> {p, q}) @@ Blank.reads,
        !.tool = (b :> "evaluate") @@ (c :> "wait") @@ Blank.tool,
        !.conditional = {g}, !.delayed = {b}]
Nesting ==
    [Tree((Root :> <<l, d>>) @@ (l :> <<g>>) @@ (g :> <<a, b>>)) EXCEPT
        !.output = (a :> p) @@ Blank.output,
        !.reads = (b :> {p}) @@ (d :> {p}) @@ Blank.reads,
        !.conditional = {g, d}]

\* Deeper than the engine allows; two steps of one name, and two outputs of one name.
Deep == Tree((Root :> <<a, g>>) @@ (g :> <<h>>) @@ (h :> <<l>>) @@ (l :> <<b>>))
SameId == [Tree(Root :> <<a, b>>) EXCEPT !.id = (b :> a) @@ Blank.id]
SameOutput == [Tree(Root :> <<a, b>>) EXCEPT !.output = (a :> p) @@ (b :> p) @@ Blank.output]

MCScripts == {Looping, Grouping, Nesting, Deep, SameId, SameOutput}
MCLooping == {Looping}
===============================================================================
