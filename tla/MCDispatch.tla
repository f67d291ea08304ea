------------------------------ MODULE MCDispatch ------------------------------
(* Instances of Dispatch for TLC.                                          *)
EXTENDS Dispatch, TLC

CONSTANTS qwen, llama, codellama, llava, phi

\* qwen2.5-coder-1.5b, llama3:8b, codellama-34b and llava-llama3: two coders, one
\* of them too small for most code and able to call tools, one that sees, and a
\* phi3-mini, which is excluded.
MCName ==
    qwen :> [size |-> 15, words |-> {"qwen", "qwen2.5", "coder"}, tag |-> 0]
    @@ llama :> [size |-> Unknown, words |-> {"llama", "llama3"}, tag |-> 80]
    @@ codellama :> [size |-> 340, words |-> {"llama", "codellama"}, tag |-> 0]
    @@ phi :> [size |-> Unknown, words |-> {"phi", "mini"}, tag |-> 0]
    @@ llava :> [size |-> Unknown, words |-> {"llava", "llama", "llama3"}, tag |-> 0]

MCListed == <<phi, qwen, llama, codellama, llava>>
MCRowOrder == <<codellama, llama, llava, phi, qwen>>

\* The name of llava holds that of llama, whose benchmark it takes.
MCKinship ==
    [m \in Models |-> [b \in Models |-> IF m = b THEN SameBase
                                        ELSE IF m = llava /\ b = llama THEN 99 ELSE 0]]
MCSamePrefix == {<<m, m>> : m \in Models}

MCProfile == [m \in Models |-> [reasoning |-> 40, coding |-> 50, time |-> 1000, days |-> 3]]
MCBenchmarkRow ==
    [m \in Models |-> [reasoning_score |-> 6900, coding_score |-> 5000, general_score |-> 60,
                       elo_rating |-> 1200]]

Text(coding, length, requirements) ==
    [reasoning |-> 0, coding |-> coding, creativity |-> 0, factual |-> 0, code |-> FALSE,
     length |-> length, questions |-> 0, newlines |-> 0, complexity |-> 0,
     requirements |-> requirements]

\* Small talk, and a script and a service to be written, the latter too much for a small
\* coder.
MCPrompts == [talk |-> Text(0, 20, 0), script |-> Text(2, 100, 0), service |-> Text(2, 600, 2)]

Asking(image, tools) == [image |-> image, tools |-> tools, json |-> FALSE]
MCAsks == {NoRequest, Asking(FALSE, TRUE), Asking(TRUE, FALSE)}

MCArriving == {<<"profile", qwen>>, <<"benchmark", llama>>}
MCRunning == {Models, Models \ {llava}}
===============================================================================
