----------------------------- MODULE UIManager -----------------------------
(***************************************************************************)
(* UIManager of src/ui/ui_manager.cpp: messages by id, and the ids of the  *)
(* messages of each file.  A file without an entry in m_fileMessages is    *)
(* one with no ids.                                                        *)
(***************************************************************************)
EXTENDS Naturals, Sequences

CONSTANTS
    File,          \* files that messages are about
    NoFile,        \* the empty path
    MaxMessages    \* bound: AddMessage calls

ASSUME FileAssumption == NoFile \notin File /\ MaxMessages \in Nat

VARIABLES
    currentId,      \* CurrentID
    taskMessages,   \* id -> file, for the messages that are kept
    fileMessages    \* file -> ids

messageVars == <<currentId, taskMessages, fileMessages>>

MessagesInit ==
    /\ currentId = 1
    /\ taskMessages = [id \in {} |-> NoFile]
    /\ fileMessages = [f \in File |-> <<>>]

(* Mutant: a message is kept only when it is a task.                       *)
KeepsTasks(file, isTask) == isTask

Keeps(file, isTask) == isTask \/ file # NoFile

(* The message box of a system message changes no state.                   *)
AddMessage(file, isTask) ==
    /\ currentId <= MaxMessages
    /\ currentId' = currentId + 1
    /\ taskMessages' =
          IF Keeps(file, isTask)
          THEN [id \in DOMAIN taskMessages \cup {currentId} |->
                  IF id = currentId THEN file ELSE taskMessages[id]]
          ELSE taskMessages
    /\ fileMessages' = [f \in File |->
          IF f = file THEN Append(fileMessages[f], currentId) ELSE fileMessages[f]]

(* What RemoveMessage(id) leaves: it erases the whole entry of the         *)
(* message's file, and keeps the message.                                  *)
Removed(id) ==
    IF id \in DOMAIN taskMessages /\ taskMessages[id] # NoFile
    THEN [fileMessages EXCEPT ![taskMessages[id]] = <<>>]
    ELSE fileMessages

RemoveMessage(id) ==
    /\ fileMessages' = Removed(id)
    /\ UNCHANGED <<currentId, taskMessages>>

(* RemoveMessage of the first id while there is one: the first call        *)
(* empties the entry.                                                      *)
ClearFileMessages(f) ==
    /\ fileMessages' =
          IF fileMessages[f] = <<>> THEN fileMessages ELSE Removed(fileMessages[f][1])
    /\ UNCHANGED <<currentId, taskMessages>>

MessagesNext ==
    \/ \E file \in File \cup {NoFile}, isTask \in BOOLEAN : AddMessage(file, isTask)
    \/ \E id \in 1..MaxMessages : RemoveMessage(id)
    \/ \E f \in File : ClearFileMessages(f)

MessagesSpec == MessagesInit /\ [][MessagesNext]_messageVars

-----------------------------------------------------------------------------
(* The two maps agree: the ids listed for a file are those of kept         *)
(* messages about that file, in the order of the calls.  The loop of       *)
(* ClearFileMessages ends only because of it: an id that RemoveMessage     *)
(* does not find would be tried for ever.                                  *)
IndexAgrees ==
    \A f \in File : LET ids == fileMessages[f] IN
        /\ \A i \in 1..Len(ids) : /\ ids[i] \in DOMAIN taskMessages
                                  /\ taskMessages[ids[i]] = f
        /\ \A i, j \in 1..Len(ids) : i < j => ids[i] < ids[j]

(* ClearFileMessages removes the list of the file, and nothing else: after *)
(* it no id is listed for the file, the other files keep what they had,    *)
(* and so does m_taskMessages, the messages of the file included, though   *)
(* "Remove all messages associated with a file" (ui_manager.cpp:78) says   *)
(* otherwise.                                                              *)
ClearIsExact ==
    [][\A f \in File : ClearFileMessages(f) =>
          /\ fileMessages'[f] = <<>>
          /\ taskMessages' = taskMessages
          /\ \A g \in File \ {f} : fileMessages'[g] = fileMessages[g]]_messageVars
=============================================================================
