----------------------------- MODULE TrainingData -----------------------------
(***************************************************************************)
(* What the training scripts learn from: the PAN12 conversations of         *)
(* risk_detection/data/pan12.py as train_grooming.py splits them, and the   *)
(* labelled texts of train_cyberbullying.py.  A sample is who speaks in how *)
(* many messages of which conversation, a text is what the safety rules see *)
(* of it: wording, times and weak labels are left out.                      *)
(***************************************************************************)
EXTENDS Integers, Sequences, FiniteSets

CONSTANTS
  Gap,             \* what a line dropped from the datapack leaves behind
  Datapacks,       \* pack -> the sequence of its chats [id, content]
  PredatorLists,   \* the official lists by split, the empty function if missing
  Kaggle,          \* the rows of the csv: sequence of [text, label]
  GoEmotions,      \* the rows of the mirror: sequence of [text, neutral, negative]
  NotBullying,     \* the label of a benign text
  Rank             \* label -> its place in alphabetical order

-----------------------------------------------------------------------------
(* Conversations *)

(* The messages are the lines that have an author, a body and a time.       *)
Lines(chat) == {l \in DOMAIN chat.content : chat.content[l] # Gap}

BuildConversation(pack, chat) ==
  [pack            |-> pack,
   conversation_id |-> chat.id,
   authors         |-> {chat.content[l] : l \in Lines(chat)},
   messages        |-> Cardinality(Lines(chat))]

(* Predators of both official splits; none if a list is missing.            *)
DefaultOverlappingPredatorIds ==
  IF {"train", "test"} \subseteq DOMAIN PredatorLists
  THEN PredatorLists["train"] \cap PredatorLists["test"]
  ELSE {}

IdentityDisjoint(conv, excluded) == conv.authors \cap excluded = {}

(* load_samples: filter, then keep the first max_conversations of the file, *)
(* then make one sample of every conversation that has a message.           *)
LoadSamples(pack, excluded, max_conversations) ==
  LET conv(i) == BuildConversation(pack, Datapacks[pack][i])
      kept    == {i \in DOMAIN Datapacks[pack] : IdentityDisjoint(conv(i), excluded)}
      first   == {i \in kept : Cardinality({j \in kept : j < i}) < max_conversations}
  IN {conv(i) : i \in {j \in first : conv(j).messages # 0}}

(* int(n * (1 - val_fraction)) samples train, the others validate.          *)
SplitIndex(n, val_percent) == (n * (100 - val_percent)) \div 100

(* shuffle puts any sample on either side of the split index.               *)
Splits(samples, val_percent) ==
  {train \in SUBSET samples :
     Cardinality(train) = SplitIndex(Cardinality(samples), val_percent)}

(* "<conversation_id>:<window_start>-<window_end>", of a full conversation. *)
CacheKey(sample) == <<sample.conversation_id, 0, sample.messages>>

-----------------------------------------------------------------------------
(* Labelled texts.  A text is "", "plain" or "rule": empty, or matched by    *)
(* none or by some of the deterministic safety rules.                       *)

LoadKaggleCsv == SelectSeq(Kaggle, LAMBDA row : row.text # "" /\ row.label # "")

(* The first max_count purely neutral comments, max_count > 0.              *)
LoadGoemotionsNegatives(max_count) ==
  LET benign == SelectSeq(GoEmotions, LAMBDA item :
                  item.neutral /\ ~item.negative /\ item.text # "")
      count  == IF Len(benign) < max_count THEN Len(benign) ELSE max_count
  IN [i \in 1..count |-> [text |-> benign[i].text, label |-> NotBullying]]

FilterOutRuleMatches(rows) == SelectSeq(rows, LAMBDA row : row.text # "rule")

(* The benign label is index 0, the others follow in alphabetical order.    *)
BuildLabelMapping(rows) ==
  LET other == {rows[i].label : i \in DOMAIN rows} \ {NotBullying}
  IN [label \in other \cup {NotBullying} |->
        IF label = NotBullying THEN 0
        ELSE 1 + Cardinality({m \in other : Rank[m] < Rank[label]})]
===============================================================================
