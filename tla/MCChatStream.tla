---------------------------- MODULE MCChatStream ----------------------------
\* Model checking of ChatStream: the chats are interchangeable.
EXTENDS ChatStream, TLC

ChatSymmetry == Permutations(Chats)
=============================================================================
