---------------------------- MODULE MCConversation ----------------------------
(* The two ways of a conversation with OpenCode for TLC: prompts on their way *)
(* there (PromptDelivery) and messages on their way back (MessageMirror).     *)
(* They share no state, so a behaviour is one of the one or of the other.     *)
EXTENDS MessageMirror, PromptDelivery

CONSTANTS m1, m2

VARIABLE way

ConversationInit == MirrorInit /\ PromptInit /\ way \in {"there", "back"}

ConversationNext ==
    /\ UNCHANGED way
    /\ \/ way = "there" /\ PromptNext /\ UNCHANGED mirrorVars
       \/ way = "back" /\ MirrorNext /\ UNCHANGED promptVars

ConversationSpec ==
    /\ ConversationInit
    /\ [][ConversationNext]_<<mirrorVars, promptVars, way>>
    /\ MirrorFairness
===============================================================================
