----------------------------- MODULE Conversions -----------------------------
(***************************************************************************)
(* The translations of gen3_inference between the replies of the OpenAI    *)
(* client and Open Responses, and from there back to a chat completion:    *)
(* which items and texts they keep, in which order, under which ids.       *)
(* Inference models the requests that use them.                            *)
(***************************************************************************)
EXTENDS Integers, Sequences, SequencesExt

CONSTANTS
    Raised,    \* in place of what a conversion that raises would return
    None

\* An item of a reply or of a ResponseResource: its parts are [type, text].
Item(type, id, call, status, parts) ==
    [type |-> type, id |-> id, call_id |-> call, status |-> status, parts |-> parts]
Part(type, text) == [type |-> type, text |-> text]
Choice(content, calls) == [content |-> content, calls |-> calls]

\* A reply: of the Responses API a sequence of items, of Chat one of choices and
\* the details of its usage, each count known or None.
Response(items) == [kind |-> "openresponses", value |-> items, usage |-> None]
Completion(choices, usage) == [kind |-> "openai_chat", value |-> choices, usage |-> usage]

Input(p) == Part("input_text", p.text)
Texts(parts) == [i \in DOMAIN parts |-> parts[i].text]
Statuses == {"in_progress", "completed", "incomplete"}

-----------------------------------------------------------------------------
\* A status Open Responses does not know is incomplete.
Status(s) == IF s \in Statuses THEN s ELSE "incomplete"

\* Seeded fault: a refusal is taken for text.
AnyPart(p) == TRUE

\* Of a message only the text is kept, of reasoning everything.
IsText(p) == p.type = "output_text"

\* Of the output of a call its texts, its files and its images.
OutputParts == {"string", "input_text", "input_file", "input_image"}

\* call_id=",": the id of a call goes to the item's id.  The summary of reasoning
\* goes to a list of its own, which no conversion reads: it is left out.
ConvertItem(item) ==
    CASE item.type = "message" ->
            Item("message", item.id, None, Status(item.status),
                 FlattenSeq([i \in DOMAIN item.parts |->
                     IF IsText(item.parts[i]) THEN <<Input(item.parts[i])>> ELSE <<>>]))
      [] item.type = "function_call" ->
            Item(item.type, item.call_id, ",", Status(item.status), <<>>)
      [] item.type = "function_call_output" ->
            Item(item.type, item.call_id, ",", Status(item.status),
                 SelectSeq(item.parts, LAMBDA p : p.type \in OutputParts))
      [] item.type = "reasoning" ->
            Item("reasoning", item.id, None, None, [i \in DOMAIN item.parts |-> Input(item.parts[i])])

Known(item) == item.type \in {"message", "function_call", "function_call_output", "reasoning"}

\* _convert_response_outputs: other items are skipped.
FromResponses(items) ==
    FlattenSeq([i \in DOMAIN items |-> IF Known(items[i]) THEN <<ConvertItem(items[i])>> ELSE <<>>])

\* _convert_chat_choices_outputs: a message per choice, named by its index.
FromChoices(choices) ==
    [i \in DOMAIN choices |->
        Item("message", i - 1, None, "completed",
             <<Part("input_text", IF choices[i].content = None THEN "" ELSE choices[i].content)>>)]

\* _convert_chat_choices_tools: the function calls of all choices.
ToolsOf(choices) == FlattenSeq([i \in DOMAIN choices |-> SelectSeq(choices[i].calls, LAMBDA c : c # "custom")])

\* _convert_usage: the details of the completion are looked at where those of
\* the prompt are known.
ConvertUsage(u) ==
    IF u = None THEN None
    ELSE IF u.prompt # None /\ u.completion = None THEN Raised
    ELSE [cached |-> IF u.prompt = None THEN -1 ELSE u.prompt,
          reasoning |-> IF u.prompt = None THEN -1 ELSE u.completion]

\* Seeded fault: the text of the last message stands for all.
LastContent(out) == IF out = <<>> THEN <<>> ELSE Texts(Last(out).parts)

\* The texts of messages and reasoning, in the order they are joined in.
Content(out) ==
    FlattenSeq([i \in DOMAIN out |->
        IF out[i].type \in {"message", "reasoning"} THEN Texts(out[i].parts) ELSE <<>>])

\* What _convert_output_items stumbles over: the output of a call has no name to
\* take, and reasoning without content has None in the place of its parts.
Stumbles(item) ==
    \/ item.type = "function_call_output"
    \/ item.type = "reasoning" /\ item.parts = <<>>

\* The message made of the output of a response without an error (the others are
\* given their error's message instead): one function_call, the last one's.
ToChat(out) ==
    LET calls == SelectSeq(out, LAMBDA item : item.type = "function_call") IN
    IF \E i \in DOMAIN out : Stumbles(out[i]) THEN Raised
    ELSE [content |-> Content(out),
          calls |-> IF calls = <<>> THEN <<>> ELSE <<Last(calls).id>>]

\* A ResponseResource.
Resource(output, usage, tools) == [output |-> output, usage |-> usage, tools |-> tools]

\* openai_response_to_openresponses
ConvertResponse(reply) == Resource(FromResponses(reply.value), None, <<>>)

\* chat_completion_to_openresponses_response
ConvertChat(reply) ==
    IF ConvertUsage(reply.usage) = Raised THEN Raised
    ELSE Resource(FromChoices(reply.value), ConvertUsage(reply.usage), ToolsOf(reply.value))

Convert(reply) == IF reply.kind = "openai_chat" THEN ConvertChat(reply) ELSE ConvertResponse(reply)
=============================================================================
