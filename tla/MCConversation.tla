--------------------------- MODULE MCConversation ---------------------------
(***************************************************************************)
(* Values for model checking Conversation: each part of an offer in each of *)
(* its forms, together with each other in part; and a translator on its     *)
(* own, of StreamSpec, which is fed longer streams than a conversation.     *)
(***************************************************************************)
EXTENDS Conversation

CONSTANTS
    TalkTexts,   \* bound: the texts said in a conversation
    TalkLines    \* bound: lines of a stream in a conversation

Offered(system, tools, limit, stop) ==
    [system |-> system, tools |-> tools, limit |-> limit, stop |-> stop]

MCOffers ==
    {Offered(Str(<<>>), <<>>, 0, <<>>),
     Offered(Str(<<"be brief">>), <<Tool>>, 5, <<<<"halt">>>>),
     Offered(Arr(<<TextBlock(<<"be brief">>)>>), <<Tool>>, 0, <<<<"halt">>>>),
     Offered(Arr(<<TextBlock(<<"be brief">>)>>), <<>>, 5, <<>>)}

\* No conversation: phase says that the translator is alone.
Alone ==
    /\ StreamInit
    /\ client = "none" /\ offer = "none" /\ reply = NoReply
    /\ talk = <<>> /\ said = <<>> /\ seen = <<>>
    /\ phase = "alone"

MCInit == ConversationInit \/ Alone

\* Bound: a conversation is about few texts, and its streams are short and
\* report no tokens.
Small ==
    /\ lines <= TalkLines /\ counted = 0
    /\ Range(spoken) \subseteq TalkTexts
    /\ \A i \in DOMAIN said : Range(said[i].text) \subseteq TalkTexts

MCNext ==
    \/ ConversationNext /\ Small'
    \/ phase = "alone" /\ StreamNext /\ UNCHANGED talkVars

MCConversationSpec == MCInit /\ [][MCNext]_conversationVars

=============================================================================
