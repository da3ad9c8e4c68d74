----------------------------- MODULE MCStartup -----------------------------
(* An instance of Startup for TLC: a value or two of each kind per name.    *)
EXTENDS Startup, TLC

Plain(word) == [word |-> word, padded |-> FALSE]
Blanks(word) == [word |-> word, padded |-> TRUE]

NamesAndValues ==
  [SAYFIRST_SOCKET   |-> {Plain("path"), Blanks("path"), Plain(NoWord), Blanks(NoWord)},
   SAYFIRST_DEMO_RUN |-> {Plain("directory"), Blanks("directory")},
   XDG_RUNTIME_DIR   |-> {Plain("directory")},
   MODEL_MODE        |-> {Plain("fixture"), Blanks("real"), Plain(NoWord)},
   MODEL_BASE_URL    |-> {Plain("endpoint"), Plain(NoWord)},
   MODEL_NAME        |-> {Blanks("model")},
   MODEL_API_KEY     |-> {Plain("key"), Blanks(NoWord)},
   MODEL_TEMPERATURE |-> {Plain("warm")}]
=============================================================================
