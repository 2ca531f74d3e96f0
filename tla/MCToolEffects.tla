--------------------------- MODULE MCToolEffects ---------------------------
(* ToolEffects with one call of each kind, and small answers of some kinds. *)
EXTENDS ToolEffects

AnswerMixed  == <<"send", "exec", "once", "read">>

\* Expected, but not kept by the code: when an object that a call uses is reset, the
\* turn is parked and joins the call again later (resident.js:1879); resumeClose
\* catches the reset (resume.js:418) and saves it as the tool's error.
ResetParks == [][resets' > resets => mode' = "gone"]_vars
\* Expected, but not kept by the code: after a Stop a pi turn starts no further tool
\* (pi-engine.js:191 "nothing more runs"); resumeClose runs the calls left open.
NoBeginAfterStop ==
    [][\A c \in Call : stop /\ stop' /\ tool[c] = "idle" => tool'[c] # "run"]_vars
=============================================================================
