----------------------------- MODULE MCInference -----------------------------
(* A small instance of Inference for TLC. *)
EXTENDS Inference

CONSTANTS A, B, Other, \* two trusted hosts and one that is not
          r1, r2       \* clients

TrustedHosts == <<A, B>>
World(p, a, b) == [h \in {Primary, A, B} |-> IF h = Primary THEN p ELSE IF h = A THEN a ELSE b]

\* Every reply of a repository, from each one when those before it have nothing.
AnyReply ==
    {Unreachable, Missing, Broken, Opaque, Empty} \cup
    {Model(u, p) : u \in {None, A, Other}, p \in {{}, Protocols}} \cup
    {Model(None, {p}) : p \in Protocols}
AllWorlds ==
    {World(x, Missing, Model(None, Protocols)) : x \in AnyReply} \cup
    {World(Missing, x, Model(None, {"openai_chat"})) : x \in AnyReply} \cup
    {World(Missing, x, y) : x \in {Missing, Broken}, y \in AnyReply}

\* The second client's model is where it should be.
MCWorlds == [r \in Requests |->
    IF r = r1 THEN AllWorlds ELSE {World(Model(None, {p}), Missing, Missing) : p \in Protocols}]

UpTo(n, S) == UNION {[1..k -> S] : k \in 0..n}

\* Texts that can be told apart, refusals, and items of every kind.
Text == Part("output_text", "a")
Items ==
    {Item("message", 1, None, "completed", <<Text>>),
     Item("message", 1, None, "other", <<Part("refusal", "b"), Text, Part("output_text", "c")>>),
     Item("function_call", 2, 3, "completed", <<>>), Item("function_call", 2, 4, "in_progress", <<>>),
     Item("reasoning", 5, None, None, <<Part("reasoning_text", "d")>>),
     Item("web_search_call", 6, None, "completed", <<>>)}

\* Items that stand alone: an output of a call, and reasoning without content.
Alone ==
    {Item("function_call_output", 2, 3, "completed", <<Part("refusal", "e"), Part("input_text", "f")>>),
     Item("reasoning", 7, None, None, <<>>)}

AllReplies ==
    {Response(items) : items \in UpTo(2, Items) \cup {<<item>> : item \in Alone}} \cup
    {Completion(cs, u) :
        cs \in UpTo(2, {Choice(t, c) : t \in {"a", None}, c \in {<<>>, <<"f", "custom">>}}),
        u \in {None} \cup [prompt : {None, 7}, completion : {None, 9}]}

MCReplies == [r \in Requests |->
    IF r = r1 THEN AllReplies ELSE {Response(<<>>), Completion(<<>>, None)}]
=============================================================================
