---------------------------- MODULE Pages_proofs ----------------------------
(* Proofs about the page of the configuration tool, for every set of       *)
(* usages, layers, ports and files and any number of rows, macros and      *)
(* expressions: its tabs show what a save would send, whatever is edited,  *)
(* sorted, made again or loaded, with a dialog open or not; and what is    *)
(* read back from the device is what was sent, for every size of the       *)
(* packets of either direction.                                            *)
EXTENDS Pages, WellFoundedInduction, FiniteSetTheorems, SequenceTheorems, TLAPS

\* A set of numbers has a least one.
LEMMA LeastNumber ==
  ASSUME NEW T \in SUBSET Nat, T # {}
  PROVE  \E n \in T : \A m \in T : n <= m
<1> DEFINE Below == {ss \in Nat \X Nat : ss[1] < ss[2]}
<1>1. IsWellFoundedOn(Below, Nat)
  BY NatLessThanWellFounded DEF OpToRel
<1>2. \A i, j \in Nat : i < j => <<i, j>> \in Below
  OBVIOUS
<1> HIDE DEF Below
<1>3. PICK x \in T : \A y \in T : ~(<<y, x>> \in Below)
  BY <1>1, WFMin
<1>4. ASSUME NEW m \in T PROVE x <= m
  <2>1. x \in Nat /\ m \in Nat
    OBVIOUS
  <2>2. ~(m < x)
    BY <1>2, <1>3, <2>1
  <2> QED
    BY <2>1, <2>2
<1> QED
  BY <1>4

-----------------------------------------------------------------------------
(* The expressions tab.                                                    *)

\* The page's form of an expression turns back into it.
LEMMA ConvertsBack ==
  ASSUME NEW x \in ExpressionsTab!Text
  PROVE  /\ ExpressionsTab!ToPage(x) \in ExpressionsTab!Text
         /\ ExpressionsTab!ToConfig(x) \in ExpressionsTab!Text
         /\ ExpressionsTab!ToConfig(ExpressionsTab!ToPage(x)) = x
         /\ ExpressionsTab!Valid(ExpressionsTab!ToPage(x)) <=> ExpressionsTab!Valid(x)
         /\ ExpressionsTab!Valid(ExpressionsTab!ToConfig(x)) <=> ExpressionsTab!Valid(x)
<1> DEFINE Plain == ExpressionsTab!Words
           Numeric == [word : {"number"}, value : Int]
           Element == Plain \cup Numeric
           ui == ExpressionsTab!ToPage(x)
           back == ExpressionsTab!ToConfig(x)
<1>1. x \in Seq(Element)
  BY DEF ExpressionsTab!Text
<1>2. ASSUME NEW w \in Element
      PROVE  /\ w.word = "number" => w = [word |-> "number", value |-> w.value] /\ w.value \in Int
             /\ w.word # "number" => w \in Plain
  BY DEF ExpressionsTab!Words, ExpressionsTab!Word
<1>3. ASSUME NEW v \in Int
      PROVE  /\ ExpressionsTab!Rounded(10 * v) = v /\ ExpressionsTab!Rounded(v) \in Int
             /\ 10 * v \in Int
             /\ ExpressionsTab!Number(v) \in Numeric
             /\ ExpressionsTab!Number(v) = [word |-> "number", value |-> v]
  BY DEF ExpressionsTab!Rounded, ExpressionsTab!Number
<1> HIDE DEF Plain, Numeric
<1>4. /\ DOMAIN x = 1 .. Len(x) /\ Len(x) \in Nat
      /\ \A i \in 1 .. Len(x) : x[i] \in Element
  BY <1>1
<1>5. /\ ui = [i \in 1 .. Len(x) |->
                   IF x[i].word = "number" THEN ExpressionsTab!Number(10 * x[i].value) ELSE x[i]]
      /\ back = [i \in 1 .. Len(x) |->
                   IF x[i].word = "number"
                   THEN ExpressionsTab!Number(ExpressionsTab!Rounded(x[i].value)) ELSE x[i]]
  BY <1>4 DEF ExpressionsTab!ToPage, ExpressionsTab!ToConfig
<1>6. ASSUME NEW i \in 1 .. Len(x)
      PROVE  /\ ui[i] \in Element /\ back[i] \in Element
             /\ ui[i].word = x[i].word /\ back[i].word = x[i].word
             /\ x[i].word = "number" =>
                  ExpressionsTab!Number(ExpressionsTab!Rounded(ui[i].value)) = x[i]
             /\ x[i].word # "number" => ui[i] = x[i]
  <2>1. x[i] \in Element
    BY <1>4
  <2>2. CASE x[i].word = "number"
    <3>1. PICK v \in Int : v = x[i].value
      BY <1>2, <2>1, <2>2
    <3>2. x[i] = ExpressionsTab!Number(v)
      BY <1>2, <1>3, <2>1, <2>2, <3>1
    <3>3. /\ ui[i] = ExpressionsTab!Number(10 * v)
          /\ back[i] = ExpressionsTab!Number(ExpressionsTab!Rounded(v))
      BY <1>5, <2>2, <3>1
    <3>4. /\ ExpressionsTab!Rounded(10 * v) = v
          /\ ui[i] = [word |-> "number", value |-> 10 * v] /\ ui[i] \in Numeric
          /\ back[i] = [word |-> "number", value |-> ExpressionsTab!Rounded(v)] /\ back[i] \in Numeric
      BY <1>3, <3>3
    <3> QED
      BY <2>2, <3>2, <3>4
  <2>3. CASE x[i].word # "number"
    BY <1>5, <2>1, <2>3
  <2> QED
    BY <2>2, <2>3
<1>7. ui \in Seq(Element) /\ back \in Seq(Element)
  BY <1>4, <1>5, <1>6
<1>8. DOMAIN ui = 1 .. Len(x) /\ DOMAIN back = 1 .. Len(x)
  BY <1>5
<1> HIDE DEF ui, back
<1>9. ExpressionsTab!ToConfig(ui) = x
  <2>1. ExpressionsTab!ToConfig(ui) =
          [i \in 1 .. Len(x) |->
             IF ui[i].word = "number"
             THEN ExpressionsTab!Number(ExpressionsTab!Rounded(ui[i].value)) ELSE ui[i]]
    BY <1>8 DEF ExpressionsTab!ToConfig
  <2>2. x = [i \in 1 .. Len(x) |-> x[i]]
    BY <1>1, <1>4
  <2> QED
    BY <1>6, <2>1, <2>2
<1>10. /\ ExpressionsTab!Valid(ui) <=> ExpressionsTab!Valid(x)
       /\ ExpressionsTab!Valid(back) <=> ExpressionsTab!Valid(x)
  BY <1>4, <1>6, <1>8 DEF ExpressionsTab!Valid
<1> QED
  BY <1>7, <1>9, <1>10 DEF ui, back, Plain, Numeric, ExpressionsTab!Text

\* Each expression in the configuration is one, and in the form it is stored in.
ExpressionsInv ==
  /\ expressions \in [1 .. NEXPRESSIONS -> ExpressionsTab!Text]
  /\ texts \in [1 .. NEXPRESSIONS -> ExpressionsTab!Text]
  /\ \A n \in 1 .. NEXPRESSIONS : ExpressionsTab!Valid(expressions[n])
  /\ ExpressionsTab!ExpressionsAgree

LEMMA ExpressionsBegin ==
  ASSUME ExpressionsTab!Init
  PROVE  ExpressionsInv
<1>1. << >> \in ExpressionsTab!Text
  BY DEF ExpressionsTab!Text
<1>2. ExpressionsTab!Valid(<< >>) /\ ExpressionsTab!ToConfig(<< >>) = << >>
  BY DEF ExpressionsTab!Valid, ExpressionsTab!ToConfig
<1> QED
  BY <1>1, <1>2 DEF ExpressionsTab!Init, ExpressionsInv, ExpressionsTab!ExpressionsAgree

\* The expressions of a file or a device.
LEMMA ListedExpressions ==
  ASSUME NEW list \in ExpressionFiles \cup Devices, NEW n \in 1 .. NEXPRESSIONS
  PROVE  list[n] \in ExpressionsTab!Text
BY TabsAssumption DEF ExpressionsTab!TextsAssumption

LEMMA ExpressionsStay ==
  ASSUME ExpressionsInv, ExpressionsTab!Next
  PROVE  ExpressionsInv'
<1> DEFINE Ids == 1 .. NEXPRESSIONS
<1>t. /\ expressions \in [Ids -> ExpressionsTab!Text] /\ texts \in [Ids -> ExpressionsTab!Text]
      /\ \A n \in Ids : ExpressionsTab!Valid(expressions[n])
      /\ \A n \in Ids :
           /\ expressions[n] = IF ExpressionsTab!Valid(texts[n])
                               THEN ExpressionsTab!ToConfig(texts[n]) ELSE << >>
           /\ ~ExpressionsTab!Valid(texts[n]) => n \in is_invalid
  BY DEF ExpressionsInv, ExpressionsTab!ExpressionsAgree
<1>0. << >> \in ExpressionsTab!Text /\ ExpressionsTab!Valid(<< >>)
  BY DEF ExpressionsTab!Text, ExpressionsTab!Valid
<1>1. ASSUME NEW m \in Ids, NEW text \in Texts, ExpressionsTab!ExpressionOnchange(m, text)
      PROVE  ExpressionsInv'
  <2>1. text \in ExpressionsTab!Text
    BY TabsAssumption DEF ExpressionsTab!TextsAssumption
  <2>2. /\ ExpressionsTab!ToConfig(text) \in ExpressionsTab!Text
        /\ ExpressionsTab!Valid(ExpressionsTab!ToConfig(text)) <=> ExpressionsTab!Valid(text)
    BY <2>1, ConvertsBack
  <2>3. /\ texts' = [texts EXCEPT ![m] = text]
        /\ expressions' = [expressions EXCEPT ![m] = IF ExpressionsTab!Valid(text)
                             THEN ExpressionsTab!ToConfig(text) ELSE << >>]
        /\ is_invalid' = IF ExpressionsTab!Valid(text) THEN is_invalid \ {m}
                         ELSE is_invalid \cup {m}
    BY <1>1 DEF ExpressionsTab!ExpressionOnchange, ExpressionsTab!Entered
  <2> QED
    BY <1>t, <1>0, <2>1, <2>2, <2>3 DEF ExpressionsInv, ExpressionsTab!ExpressionsAgree
<1>2. ASSUME NEW file \in ExpressionFiles \cup Devices, ExpressionsTab!Validated(file)
      PROVE  ExpressionsInv'
  <2> DEFINE ui(n) == ExpressionsTab!ToPage(file[n])
  <2>1. ASSUME NEW n \in Ids
        PROVE  /\ ui(n) \in ExpressionsTab!Text
               /\ ExpressionsTab!ToConfig(ui(n)) \in ExpressionsTab!Text
               /\ ExpressionsTab!Valid(ExpressionsTab!ToConfig(ui(n)))
                    <=> ExpressionsTab!Valid(ui(n))
    <3>1. ui(n) \in ExpressionsTab!Text
      BY ListedExpressions, ConvertsBack
    <3> HIDE DEF ui
    <3> QED
      BY <3>1, ConvertsBack
  <2>2. /\ texts' = [n \in Ids |-> ui(n)]
        /\ expressions' = [n \in Ids |-> IF ExpressionsTab!Valid(ui(n))
                             THEN ExpressionsTab!ToConfig(ui(n)) ELSE << >>]
        /\ is_invalid' = {n \in Ids : ~ExpressionsTab!Valid(ui(n))}
    BY <1>2 DEF ExpressionsTab!Validated, ExpressionsTab!Entered, ExpressionsTab!Display
  <2> HIDE DEF ui
  <2> QED
    BY <1>0, <2>1, <2>2 DEF ExpressionsInv, ExpressionsTab!ExpressionsAgree
<1>3. CASE ExpressionsTab!DescriptorOnchange
  <2> DEFINE ui(n) == ExpressionsTab!ToPage(expressions[n])
  <2>1. ASSUME NEW n \in Ids
        PROVE  /\ ui(n) \in ExpressionsTab!Text /\ ExpressionsTab!Valid(ui(n))
               /\ ExpressionsTab!ToConfig(ui(n)) = expressions[n]
    BY <1>t, ConvertsBack
  <2>2. texts' = [n \in Ids |-> ui(n)] /\ expressions' = expressions
    BY <1>3 DEF ExpressionsTab!DescriptorOnchange, ExpressionsTab!Display
  <2> HIDE DEF ui
  <2> QED
    BY <1>t, <2>1, <2>2 DEF ExpressionsInv, ExpressionsTab!ExpressionsAgree
<1> QED
  BY <1>1, <1>2, <1>3 DEF ExpressionsTab!Next, ExpressionsTab!FileUploaded,
                          ExpressionsTab!LoadedFromDevice
-----------------------------------------------------------------------------
(* The macros tab.                                                         *)

\* f[i] has the usages chosen among the first i of an entry.
Chooses(f, entry) ==
  /\ f \in [0 .. Len(entry) -> Seq(Usages \ {NoUsage})]
  /\ f[0] = << >>
  /\ \A i \in 1 .. Len(entry) :
       f[i] = IF entry[i] = NoUsage THEN f[i - 1] ELSE Append(f[i - 1], entry[i])

LEMMA ChosenIs ==
  ASSUME NEW entry \in Seq(Usages), NEW f, Chooses(f, entry)
  PROVE  MacrosTab!Chosen(entry) = f[Len(entry)]
<1> DEFINE n == Len(entry)
           Step(g) == [i \in 0 .. n |->
                         IF i = 0 THEN << >>
                         ELSE IF entry[i] = NoUsage THEN g[i - 1] ELSE Append(g[i - 1], entry[i])]
           upto == CHOOSE g : g = Step(g)
<1>0. n \in Nat
  OBVIOUS
<1>f. ASSUME NEW i \in 0 .. n
      PROVE  f[i] = IF i = 0 THEN << >>
                    ELSE IF entry[i] = NoUsage THEN f[i - 1] ELSE Append(f[i - 1], entry[i])
  <2>1. CASE i = 0
    BY <2>1 DEF Chooses
  <2>2. CASE i # 0
    <3>1. i \in 1 .. Len(entry)
      BY <1>0, <2>2
    <3> QED
      BY <2>2, <3>1 DEF Chooses
  <2> QED
    BY <2>1, <2>2
<1>1. f = Step(f)
  <2>1. DOMAIN f = 0 .. n /\ f = [i \in 0 .. n |-> f[i]]
    BY DEF Chooses
  <2> QED
    BY <1>f, <2>1
<1>2. upto = Step(upto)
  <2> HIDE DEF Step
  <2> QED
    BY <1>1
<1>3. MacrosTab!Chosen(entry) = upto[n]
  BY DEF MacrosTab!Chosen
<1> DEFINE Bad == {m \in 0 .. n : upto[m] # f[m]}
<1>4. SUFFICES ASSUME n \in Bad PROVE FALSE
  BY <1>0, <1>3
<1> HIDE DEF upto
<1>5. PICK m \in Bad : \A k \in Bad : m <= k
  <2>1. Bad \in SUBSET Nat
    BY <1>0
  <2> HIDE DEF Bad
  <2> QED
    BY <1>4, <2>1, LeastNumber
<1>6. m \in 0 .. n /\ upto[m] # f[m]
  OBVIOUS
<1>7. upto[m] = IF m = 0 THEN << >> ELSE IF entry[m] = NoUsage THEN upto[m - 1]
                ELSE Append(upto[m - 1], entry[m])
  BY <1>0, <1>2, <1>6
<1>8. f[m] = IF m = 0 THEN << >> ELSE IF entry[m] = NoUsage THEN f[m - 1]
             ELSE Append(f[m - 1], entry[m])
  BY <1>6, <1>f
<1>9. m # 0
  BY <1>6, <1>7, <1>8
<1>10. m - 1 \in 0 .. n /\ m - 1 \notin Bad
  <2> HIDE DEF Bad
  <2> QED
    BY <1>0, <1>5, <1>6, <1>9
<1>11. upto[m - 1] = f[m - 1]
  BY <1>10
<1> QED
  BY <1>6, <1>7, <1>8, <1>11

LEMMA ChoosesExist ==
  ASSUME NEW entry \in Seq(Usages)
  PROVE  \E f : Chooses(f, entry)
<1> DEFINE n == Len(entry)
           Full == Seq(Usages \ {NoUsage})
           Upto(f, m) ==
             /\ f \in [0 .. m -> Full]
             /\ f[0] = << >>
             /\ \A i \in 1 .. m :
                  f[i] = IF entry[i] = NoUsage THEN f[i - 1] ELSE Append(f[i - 1], entry[i])
           Bad == {m \in 0 .. n : ~\E f : Upto(f, m)}
<1>0. n \in Nat /\ << >> \in Full
  OBVIOUS
<1>1. SUFFICES ASSUME n \in Bad PROVE FALSE
  BY <1>0 DEF Chooses
<1>2. PICK m \in Bad : \A k \in Bad : m <= k
  <2>1. Bad \in SUBSET Nat
    BY <1>0
  <2> HIDE DEF Bad
  <2> QED
    BY <1>1, <2>1, LeastNumber
<1>3. m \in 0 .. n /\ ~\E f : Upto(f, m)
  OBVIOUS
<1>4. m # 0
  <2>1. Upto([i \in 0 .. 0 |-> << >>], 0)
    BY <1>0
  <2> QED
    BY <1>3, <2>1
<1>5. m - 1 \in 0 .. n /\ m - 1 \notin Bad
  <2> HIDE DEF Bad
  <2> QED
    BY <1>0, <1>2, <1>3, <1>4
<1>6. PICK f : Upto(f, m - 1)
  BY <1>5
<1> DEFINE next == IF entry[m] = NoUsage THEN f[m - 1] ELSE Append(f[m - 1], entry[m])
           g == [i \in 0 .. m |-> IF i = m THEN next ELSE f[i]]
<1>7. f[m - 1] \in Full /\ entry[m] \in Usages
  BY <1>0, <1>3, <1>4, <1>6
<1>8. next \in Full
  BY <1>7
<1>9. Upto(g, m)
  <2> HIDE DEF Full
  <2>1. g \in [0 .. m -> Full] /\ g[0] = << >>
    BY <1>0, <1>3, <1>4, <1>6, <1>8
  <2>2. ASSUME NEW i \in 1 .. m
        PROVE  g[i] = IF entry[i] = NoUsage THEN g[i - 1] ELSE Append(g[i - 1], entry[i])
    <3>1. CASE i = m
      BY <1>0, <1>3, <1>4, <3>1
    <3>2. CASE i # m
      BY <1>0, <1>3, <1>4, <1>6, <3>2
    <3> QED
      BY <3>1, <3>2
  <2> QED
    BY <2>1, <2>2
<1> QED
  BY <1>3, <1>9

\* Nothing is chosen of an entry that shows nothing else; what is chosen is a part of
\* the usages, and all of them where each is chosen.
LEMMA WhatIsChosen ==
  /\ \A entry \in Seq(Usages) : MacrosTab!Chosen(entry) \in Seq(Usages \ {NoUsage})
  /\ \A entry \in Seq(Usages \ {NoUsage}) : MacrosTab!Chosen(entry) = entry
  /\ MacrosTab!Chosen(<<NoUsage>>) = << >>
<1>1. ASSUME NEW entry \in Seq(Usages)
      PROVE  MacrosTab!Chosen(entry) \in Seq(Usages \ {NoUsage})
  <2>1. PICK f : Chooses(f, entry)
    BY ChoosesExist
  <2>2. Len(entry) \in 0 .. Len(entry)
    OBVIOUS
  <2> QED
    BY <2>1, <2>2, ChosenIs DEF Chooses
<1>2. ASSUME NEW entry \in Seq(Usages \ {NoUsage})
      PROVE  MacrosTab!Chosen(entry) = entry
  <2> DEFINE f == [i \in 0 .. Len(entry) |-> SubSeq(entry, 1, i)]
  <2>1. entry \in Seq(Usages) /\ Len(entry) \in Nat
    OBVIOUS
  <2>2. ASSUME NEW i \in 0 .. Len(entry)
        PROVE  f[i] \in Seq(Usages \ {NoUsage})
    OBVIOUS
  <2>3. ASSUME NEW i \in 1 .. Len(entry)
        PROVE  entry[i] # NoUsage /\ f[i] = Append(f[i - 1], entry[i])
    OBVIOUS
  <2>4. f[0] = << >> /\ f[Len(entry)] = entry
    OBVIOUS
  <2>5. f \in [0 .. Len(entry) -> Seq(Usages \ {NoUsage})]
    BY <2>2
  <2> HIDE DEF f
  <2>6. Chooses(f, entry)
    BY <2>3, <2>4, <2>5 DEF Chooses
  <2> QED
    BY <2>1, <2>4, <2>6, ChosenIs
<1>3. MacrosTab!Chosen(<<NoUsage>>) = << >>
  <2> DEFINE f == [i \in 0 .. 1 |-> << >>]
  <2>1. <<NoUsage>> \in Seq(Usages) /\ Len(<<NoUsage>>) = 1 /\ <<NoUsage>>[1] = NoUsage
    BY TabsAssumption DEF MacrosTab!FilesAssumption
  <2>2. Chooses(f, <<NoUsage>>)
    BY <2>1 DEF Chooses
  <2>3. f[1] = << >>
    OBVIOUS
  <2> QED
    BY <2>1, <2>2, <2>3, ChosenIs
<1> QED
  BY <1>1, <1>2, <1>3

MacroRows == [1 .. NMACROS -> Seq(Seq(Usages))]
MacroLists == [1 .. NMACROS -> Seq(Seq(Usages \ {NoUsage}))]

\* The macros made from a page are macros, and those a page was made from come back.
LEMMA MacrosFromPage ==
  /\ \A ui \in MacroRows : MacrosTab!FromPage(ui) \in MacroLists
  /\ \A list \in MacroLists :
       MacrosTab!OnPage(list) \in MacroRows /\ MacrosTab!FromPage(MacrosTab!OnPage(list)) = list
<1>1. ASSUME NEW ui \in MacroRows
      PROVE  MacrosTab!FromPage(ui) \in MacroLists
  <2> DEFINE macro(m) == [e \in DOMAIN ui[m] |-> MacrosTab!Chosen(ui[m][e])]
  <2>1. ASSUME NEW m \in 1 .. NMACROS
        PROVE  macro(m) \in Seq(Seq(Usages \ {NoUsage}))
    <3>1. ui[m] \in Seq(Seq(Usages))
      BY DEF MacroRows
    <3>2. /\ DOMAIN ui[m] = 1 .. Len(ui[m]) /\ Len(ui[m]) \in Nat
          /\ \A e \in 1 .. Len(ui[m]) : ui[m][e] \in Seq(Usages)
      BY <3>1
    <3>3. \A e \in 1 .. Len(ui[m]) :
            MacrosTab!Chosen(ui[m][e]) \in Seq(Usages \ {NoUsage})
      BY <3>2, WhatIsChosen
    <3> QED
      BY <3>2, <3>3
  <2>2. MacrosTab!FromPage(ui) = [m \in 1 .. NMACROS |-> macro(m)]
    BY DEF MacrosTab!FromPage
  <2> HIDE DEF macro
  <2> QED
    BY <2>1, <2>2 DEF MacroLists
<1>2. ASSUME NEW list \in MacroLists
      PROVE  MacrosTab!OnPage(list) \in MacroRows
             /\ MacrosTab!FromPage(MacrosTab!OnPage(list)) = list
  <2> DEFINE ui == MacrosTab!OnPage(list)
             macro(m) == [e \in DOMAIN list[m] |-> MacrosTab!ShownEntry(list[m][e])]
  <2>1. ui = [m \in 1 .. NMACROS |-> macro(m)]
    BY DEF MacrosTab!OnPage
  <2>2. ASSUME NEW entry \in Seq(Usages \ {NoUsage})
        PROVE  /\ MacrosTab!ShownEntry(entry) \in Seq(Usages)
               /\ MacrosTab!Chosen(MacrosTab!ShownEntry(entry)) = entry
    <3>1. NoUsage \in Usages /\ entry \in Seq(Usages)
      BY TabsAssumption DEF MacrosTab!FilesAssumption
    <3> QED
      BY <3>1, WhatIsChosen DEF MacrosTab!ShownEntry
  <2>3. ASSUME NEW m \in 1 .. NMACROS
        PROVE  /\ macro(m) \in Seq(Seq(Usages)) /\ DOMAIN macro(m) = DOMAIN list[m]
               /\ list[m] = [e \in DOMAIN list[m] |-> MacrosTab!Chosen(macro(m)[e])]
    <3>1. list[m] \in Seq(Seq(Usages \ {NoUsage}))
      BY DEF MacroLists
    <3>2. /\ DOMAIN list[m] = 1 .. Len(list[m]) /\ Len(list[m]) \in Nat
          /\ \A e \in 1 .. Len(list[m]) : list[m][e] \in Seq(Usages \ {NoUsage})
          /\ list[m] = [e \in DOMAIN list[m] |-> list[m][e]]
      BY <3>1
    <3>3. /\ DOMAIN macro(m) = 1 .. Len(list[m])
          /\ \A e \in 1 .. Len(list[m]) : macro(m)[e] = MacrosTab!ShownEntry(list[m][e])
      BY <3>2
    <3> HIDE DEF macro
    <3>4. \A e \in 1 .. Len(list[m]) : /\ macro(m)[e] \in Seq(Usages)
                                       /\ MacrosTab!Chosen(macro(m)[e]) = list[m][e]
      BY <2>2, <3>2, <3>3
    <3>5. macro(m) = [e \in 1 .. Len(list[m]) |-> macro(m)[e]]
      BY <3>3 DEF macro
    <3>6. macro(m) \in Seq(Seq(Usages))
      <4> DEFINE Entry == Seq(Usages)
                 shown_macro == macro(m)
      <4>1. \A e \in 1 .. Len(list[m]) : shown_macro[e] \in Entry
        BY <3>4
      <4>2. shown_macro = [e \in 1 .. Len(list[m]) |-> shown_macro[e]] /\ Len(list[m]) \in Nat
        BY <3>2, <3>5
      <4> HIDE DEF Entry, shown_macro
      <4>3. shown_macro \in Seq(Entry)
        BY <4>1, <4>2
      <4> QED
        BY <4>3 DEF Entry, shown_macro
    <3>7. list[m] = [e \in DOMAIN list[m] |-> MacrosTab!Chosen(macro(m)[e])]
      BY <3>2, <3>4
    <3> QED
      BY <3>2, <3>3, <3>6, <3>7
  <2> HIDE DEF macro
  <2>4. ui \in MacroRows
    BY <2>1, <2>3 DEF MacroRows
  <2>5. MacrosTab!FromPage(ui) = [m \in 1 .. NMACROS |->
                                      [e \in DOMAIN list[m] |-> MacrosTab!Chosen(macro(m)[e])]]
    BY <2>1, <2>3 DEF MacrosTab!FromPage
  <2>6. list = [m \in 1 .. NMACROS |-> list[m]]
    BY DEF MacroLists
  <2> QED
    BY <2>3, <2>4, <2>5, <2>6
<1> QED
  BY <1>1, <1>2

\* The page shows entries, and the configuration is made from them.
MacrosInv == entries \in MacroRows /\ MacrosTab!MacrosAgree

LEMMA MacrosBegin ==
  ASSUME MacrosTab!Init
  PROVE  MacrosInv
<1>1. MacrosTab!FromPage(entries) = [m \in 1 .. NMACROS |-> << >>]
  BY DEF MacrosTab!Init, MacrosTab!FromPage
<1> QED
  BY <1>1 DEF MacrosTab!Init, MacrosInv, MacrosTab!MacrosAgree, MacroRows

LEMMA SeqExcept ==
  ASSUME NEW S, NEW s \in Seq(S), NEW i, NEW x, i \in DOMAIN s => x \in S
  PROVE  [s EXCEPT ![i] = x] \in Seq(S)
<1>1. CASE i \in DOMAIN s
  BY <1>1
<1>2. CASE i \notin DOMAIN s
  <2>1. [s EXCEPT ![i] = x] = s
    BY <1>2
  <2> QED
    BY <2>1
<1> QED
  BY <1>1, <1>2

LEMMA MacrosStay ==
  ASSUME MacrosInv, MacrosTab!Next
  PROVE  MacrosInv'
<1> DEFINE Entry == Seq(Usages)
           Macro == Seq(Entry)
<1>t. /\ entries \in [1 .. NMACROS -> Macro] /\ macros = MacrosTab!FromPage(entries)
      /\ NoUsage \in Usages
  BY TabsAssumption DEF MacrosInv, MacrosTab!MacrosAgree, MacrosTab!FilesAssumption, MacroRows
<1>0. ASSUME NEW ui \in [1 .. NMACROS -> Macro], entries' = ui, macros' = MacrosTab!FromPage(ui)
      PROVE  MacrosInv'
  BY <1>0 DEF MacrosInv, MacrosTab!MacrosAgree, MacroRows
<1>1. ASSUME NEW m \in 1 .. NMACROS, MacrosTab!AddMacroEntry(m)
      PROVE  MacrosInv'
  <2>1. <<NoUsage>> \in Entry
    BY <1>t
  <2>2. Append(entries[m], <<NoUsage>>) \in Macro
    BY <1>t, <2>1
  <2> QED
    BY <1>t, <1>0, <1>1, <2>2 DEF MacrosTab!AddMacroEntry, MacrosTab!Change
<1>2. ASSUME NEW m \in 1 .. NMACROS, NEW e \in DOMAIN entries[m], MacrosTab!AddMacroItem(m, e)
      PROVE  MacrosInv'
  <2>1. entries[m] \in Macro /\ entries[m][e] \in Entry
    BY <1>t
  <2>2. Append(entries[m][e], NoUsage) \in Entry
    BY <1>t, <2>1
  <2>3. [entries[m] EXCEPT ![e] = Append(entries[m][e], NoUsage)] \in Macro
    BY <2>1, <2>2
  <2> QED
    BY <1>t, <1>0, <1>2, <2>3 DEF MacrosTab!AddMacroItem, MacrosTab!Change
<1>3. ASSUME NEW m \in 1 .. NMACROS, NEW e \in DOMAIN entries[m], NEW i \in DOMAIN entries[m][e],
             MacrosTab!DeleteMacroItem(m, e, i)
      PROVE  MacrosInv'
  <2>1. entries[m] \in Macro /\ entries[m][e] \in Entry /\ e \in 1 .. Len(entries[m])
        /\ i \in 1 .. Len(entries[m][e])
    BY <1>t
  <2>2. MacrosTab!RemoveAt(entries[m][e], i) \in Entry
    BY <2>1 DEF MacrosTab!RemoveAt
  <2>3. MacrosTab!RemoveAt(entries[m], e) \in Macro
    BY <2>1 DEF MacrosTab!RemoveAt
  <2>4. [entries[m] EXCEPT ![e] = MacrosTab!RemoveAt(entries[m][e], i)] \in Macro
    BY <2>1, <2>2
  <2> DEFINE macro == IF Len(entries[m][e]) = 1 THEN MacrosTab!RemoveAt(entries[m], e)
                      ELSE [entries[m] EXCEPT ![e] = MacrosTab!RemoveAt(entries[m][e], i)]
  <2>5. macro \in Macro
    BY <2>3, <2>4
  <2>6. entries' = [entries EXCEPT ![m] = macro]
    BY <1>3 DEF MacrosTab!DeleteMacroItem, MacrosTab!Change
  <2>7. macros' = MacrosTab!FromPage(entries')
    BY <1>3 DEF MacrosTab!DeleteMacroItem, MacrosTab!Change
  <2> HIDE DEF macro
  <2> QED
    BY <1>t, <1>0, <2>5, <2>6, <2>7
<1>4. ASSUME NEW usage \in Usages, MacrosTab!ChooseUsage(usage)
      PROVE  MacrosInv'
  <2> DEFINE m == macro_dialog.macro  e == macro_dialog.entry  i == macro_dialog.item
             entry == [entries[m][e] EXCEPT ![i] = usage]
             macro == [entries[m] EXCEPT ![e] = entry]
             ui == [entries EXCEPT ![m] = macro]
  <2>1. entries' = ui /\ macros' = MacrosTab!FromPage(ui)
    BY <1>4 DEF MacrosTab!ChooseUsage, MacrosTab!Change
  <2>2. ASSUME m \in 1 .. NMACROS, e \in DOMAIN entries[m]
        PROVE  entry \in Entry
    <3>1. entries[m][e] \in Entry
      BY <1>t, <2>2
    <3> QED
      BY <3>1, SeqExcept
  <2> HIDE DEF entry
  <2>3. ASSUME m \in 1 .. NMACROS
        PROVE  macro \in Macro
    <3>1. entries[m] \in Macro
      BY <1>t, <2>3
    <3> QED
      BY <2>2, <2>3, <3>1, SeqExcept
  <2> HIDE DEF macro
  <2>4. ui \in [1 .. NMACROS -> Macro]
    BY <1>t, <2>3
  <2> QED
    BY <1>0, <2>1, <2>4
<1>5. ASSUME NEW file \in MacroFiles, MacrosTab!SetUiState(file)
      PROVE  MacrosInv'
  <2>1. file \in MacroLists
    BY TabsAssumption DEF MacrosTab!FilesAssumption, MacroLists
  <2> QED
    BY <1>5, <2>1, MacrosFromPage DEF MacrosTab!SetUiState, MacrosInv, MacrosTab!MacrosAgree
<1>6. CASE MacrosTab!DescriptorOnchange
  <2>1. macros \in MacroLists
    BY <1>t, MacrosFromPage DEF MacroRows
  <2> QED
    BY <1>6, <2>1, MacrosFromPage DEF MacrosTab!DescriptorOnchange, MacrosInv, MacrosTab!MacrosAgree
<1>7. CASE UNCHANGED <<macros, entries>>
  BY <1>7 DEF MacrosInv, MacrosTab!MacrosAgree, MacrosTab!FromPage
<1> QED
  BY <1>1, <1>2, <1>3, <1>4, <1>5, <1>6, <1>7
  DEF MacrosTab!Next, MacrosTab!ShowUsageModal, MacrosTab!Dismiss, MacrosTab!DeviceOpened
-----------------------------------------------------------------------------
(* The mappings tab.                                                       *)

\* A row shows mapping m, which has number n.
Shows(row, n, m, labels) ==
  /\ row.source \in {Label(m, labels), ReadableName(m.source, labels)}
  /\ row = [of |-> n, source |-> row.source, target |-> m.target, port |-> m.source_port,
            flags |-> m.flags, layers |-> m.layers,
            disabled |-> IF IsTrigger(m) THEN {m.target[2]} ELSE {},
            fixed |-> IsExpression(m)]

\* A mapping is in the list once.
Once(list) == \A i, j \in DOMAIN list : list[i] = list[j] => i = j

\* Of the mappings that exist all are listed but one, the one a dialog was opened for.
Numbered ==
  /\ mappings \in Seq(Nat) /\ Once(mappings)
  /\ mapping \in [DOMAIN mapping -> Mapping]
  /\ Range(mappings) \subseteq DOMAIN mapping
  /\ \E n : DOMAIN mapping \subseteq Range(mappings) \cup {n}

\* The dialog's row is on the page as long as its mapping is in the list.
Attached ==
  /\ dialog \in [kind : {"closed", "source", "target"}, of : Nat, attached : BOOLEAN, live : BOOLEAN]
  /\ ~AtPage => /\ dialog.of \in DOMAIN mapping
                /\ dialog.attached <=> dialog.of \in Range(mappings)

RowsShow ==
  /\ rows = [i \in 1 .. Len(mappings) |-> rows[i]]
  /\ \A i \in 1 .. Len(mappings) : Shows(rows[i], mappings[i], mapping[mappings[i]], input_labels)

MappingsInv == Numbered /\ Attached /\ RowsShow

\* What settling does to a mapping.
LEMMA Forces ==
  ASSUME NEW m \in Mapping
  PROVE  /\ ForcedLayers(m) \in Mapping
         /\ ForcedLayers(m) = [m EXCEPT !.layers = ForcedLayers(m).layers]
         /\ ~IsTrigger(m) => ForcedLayers(m).layers = m.layers
         /\ IsTrigger(m) => ForcedLayers(m).layers \in
                              {m.layers \ {m.target[2]}, m.layers \cup {m.target[2]}}
         /\ ForcedFlags(m) \in Mapping
         /\ ForcedFlags(m) = [m EXCEPT !.flags = IF IsExpression(m) THEN {} ELSE m.flags]
         /\ Settled(m) \in Mapping
<1>1. ASSUME NEW k \in Mapping
      PROVE  /\ ForcedLayers(k) \in Mapping
             /\ ForcedLayers(k) = [k EXCEPT !.layers = ForcedLayers(k).layers]
             /\ ~IsTrigger(k) => ForcedLayers(k).layers = k.layers
             /\ IsTrigger(k) => ForcedLayers(k).layers \in
                                  {k.layers \ {k.target[2]}, k.layers \cup {k.target[2]}}
  <2>1. k = [k EXCEPT !.layers = k.layers]
    BY DEF Mapping
  <2>2. CASE ~IsTrigger(k)
    BY <2>1, <2>2 DEF ForcedLayers
  <2>3. CASE IsTrigger(k)
    <3>1. k.target[2] \in Layers
      BY <2>3, UsagesAssumption DEF IsTrigger, Mapping
    <3> DEFINE less == k.layers \ {k.target[2]}  more == k.layers \cup {k.target[2]}
    <3>2. ForcedLayers(k) = [k EXCEPT !.layers = less] \/ ForcedLayers(k) = [k EXCEPT !.layers = more]
      BY <2>3 DEF ForcedLayers
    <3>3. less \in SUBSET Layers /\ more \in SUBSET Layers
      BY <3>1 DEF Mapping
    <3> HIDE DEF less, more
    <3>4. ForcedLayers(k) \in Mapping /\ ForcedLayers(k) = [k EXCEPT !.layers = ForcedLayers(k).layers]
          /\ ForcedLayers(k).layers \in {less, more}
      BY <3>2, <3>3 DEF Mapping
    <3> QED
      BY <2>3, <3>4 DEF less, more
  <2> QED
    BY <2>2, <2>3
<1>2. ASSUME NEW k \in Mapping
      PROVE  /\ ForcedFlags(k) \in Mapping
             /\ ForcedFlags(k) = [k EXCEPT !.flags = IF IsExpression(k) THEN {} ELSE k.flags]
  BY DEF ForcedFlags, Mapping
<1> QED
  BY <1>1, <1>2 DEF Settled

LEMMA RowShows ==
  ASSUME NEW n, NEW m, NEW labels
  PROVE  Shows(Row(n, m, labels), n, m, labels)
BY DEF Shows, Row

\* Sequences by their elements.
LEMMA Listing ==
  ASSUME NEW n \in Nat, NEW s, s = [k \in 1 .. n |-> s[k]]
  PROVE  /\ Len(s) = n /\ DOMAIN s = 1 .. n
         /\ \A x : Append(s, x) = [k \in 1 .. n + 1 |-> IF k = n + 1 THEN x ELSE s[k]]
         /\ \A i \in 1 .. n :
              RemoveAt(s, i) = [k \in 1 .. n - 1 |-> IF k < i THEN s[k] ELSE s[k + 1]]
<1> DEFINE S == {s[k] : k \in 1 .. n}
<1>1. s \in Seq(S) /\ Len(s) = n /\ DOMAIN s = 1 .. n
  OBVIOUS
<1>2. ASSUME NEW x
      PROVE  Append(s, x) = [k \in 1 .. n + 1 |-> IF k = n + 1 THEN x ELSE s[k]]
  BY <1>1
<1>3. ASSUME NEW i \in 1 .. n
      PROVE  RemoveAt(s, i) = [k \in 1 .. n - 1 |-> IF k < i THEN s[k] ELSE s[k + 1]]
  <2> HIDE DEF S
  <2> DEFINE a == SubSeq(s, 1, i - 1)  b == SubSeq(s, i + 1, n)
  <2>1. a \in Seq(S) /\ Len(a) = i - 1 /\ \A k \in 1 .. i - 1 : a[k] = s[k]
    BY <1>1
  <2>2. b \in Seq(S) /\ Len(b) = n - i /\ \A k \in 1 .. n - i : b[k] = s[k + i]
    BY <1>1
  <2> HIDE DEF a, b
  <2> DEFINE c == a \o b
  <2>3. /\ c = [k \in 1 .. n - 1 |-> c[k]]
        /\ \A k \in 1 .. n - 1 : c[k] = IF k < i THEN a[k] ELSE b[k - (i - 1)]
    <3>1. c \in Seq(S) /\ Len(c) = Len(a) + Len(b)
          /\ \A k \in 1 .. Len(a) + Len(b) : c[k] = IF k <= Len(a) THEN a[k] ELSE b[k - Len(a)]
      BY <2>1, <2>2, ConcatProperties
    <3> HIDE DEF c
    <3>2. Len(a) = i - 1 /\ Len(a) + Len(b) = n - 1
      BY <2>1, <2>2
    <3> QED
      BY <2>1, <3>1, <3>2
  <2> HIDE DEF c
  <2>4. ASSUME NEW k \in 1 .. n - 1
        PROVE  c[k] = IF k < i THEN s[k] ELSE s[k + 1]
    <3>1. CASE k < i
      <4>1. k \in 1 .. i - 1
        BY <3>1
      <4> QED
        BY <2>1, <2>3, <3>1, <4>1
    <3>2. CASE ~(k < i)
      <4>1. k - (i - 1) \in 1 .. n - i /\ (k - (i - 1)) + i = k + 1
        BY <3>2
      <4> QED
        BY <2>2, <2>3, <3>2, <4>1
    <3> QED
      BY <3>1, <3>2
  <2>5. RemoveAt(s, i) = c
    BY <1>1 DEF RemoveAt, a, b, c
  <2> QED
    BY <2>3, <2>4, <2>5
<1> QED
  BY <1>1, <1>2, <1>3

\* Rows that are made again show the mappings they were made from.
LEMMA RowsMade ==
  ASSUME NEW order \in Seq(Nat), NEW known, NEW labels, NEW made,
         made = RowsOf(known, order, labels)
  PROVE  /\ made = [i \in 1 .. Len(order) |-> made[i]]
         /\ \A i \in 1 .. Len(order) : Shows(made[i], order[i], known[order[i]], labels)
<1>1. DOMAIN order = 1 .. Len(order)
  OBVIOUS
<1> QED
  BY <1>1, RowShows DEF RowsOf

LEMMA MappingsBegin ==
  ASSUME MappingsInit
  PROVE  MappingsInv
<1>1. PICK file \in MappingFiles :
        /\ mappings = [i \in DOMAIN file |-> i]
        /\ mapping = [i \in DOMAIN file |-> Settled(file[i])]
        /\ rows = RowsOf(mapping, mappings, input_labels)
        /\ dialog = Closed
  BY DEF MappingsInit
<1>2. file \in Seq(Mapping)
  BY MappingsAssumption
<1>3. /\ DOMAIN file = 1 .. Len(file) /\ Len(file) \in Nat
      /\ \A i \in 1 .. Len(file) : Settled(file[i]) \in Mapping
  BY <1>2, Forces
<1>4. mappings \in Seq(Nat) /\ Len(mappings) = Len(file) /\ Range(mappings) = 1 .. Len(file)
  BY <1>1, <1>3 DEF Range
<1>5. Numbered
  BY <1>1, <1>3, <1>4 DEF Numbered, Once
<1>6. Attached
  BY <1>1 DEF Attached, Closed, AtPage
<1>7. RowsShow
  <2>1. rows = RowsOf(mapping, mappings, input_labels) /\ mappings \in Seq(Nat)
    BY <1>1, <1>4
  <2> QED
    BY ONLY <2>1, RowsMade DEF RowsShow
<1> QED
  BY <1>5, <1>6, <1>7 DEF MappingsInv

\* The rows are made again in another order, or none.
LEMMA RemadeStays ==
  ASSUME MappingsInv, NEW order \in Seq(Nat), Once(order), Range(order) = Range(mappings),
         NEW labels, Remade(order, labels)
  PROVE  MappingsInv'
<1>1. /\ mappings' = order /\ input_labels' = labels /\ rows' = RowsOf(mapping', order, labels)
      /\ mapping' = [n \in DOMAIN mapping |-> IF n \in Range(order) THEN Settled(mapping[n])
                                             ELSE mapping[n]]
      /\ dialog' = [dialog EXCEPT !.attached = dialog.attached /\ dialog.of \in Range(order)]
  BY DEF Remade, Reattached
<1>2. mapping' \in [DOMAIN mapping -> Mapping]
  BY <1>1, Forces DEF MappingsInv, Numbered
<1>3. Numbered'
  BY <1>1, <1>2 DEF MappingsInv, Numbered
<1>4. Attached'
  BY <1>1 DEF MappingsInv, Attached, AtPage
<1>5. RowsShow'
  <2>1. /\ rows' = RowsOf(mapping', mappings', input_labels') /\ mappings' \in Seq(Nat)
    BY <1>1
  <2> QED
    BY ONLY <2>1, RowsMade DEF RowsShow
<1> QED
  BY <1>3, <1>4, <1>5 DEF MappingsInv

\* There is a number for a mapping that is added.
LEMMA FreshIsNew ==
  ASSUME Numbered, Len(mappings) < MaxMappings
  PROVE  FreshNumber \in Nat /\ FreshNumber \notin DOMAIN mapping
<1> DEFINE n == Len(mappings)
           Free == (1 .. MaxMappings + 1) \ DOMAIN mapping
<1>1. n \in Nat /\ MaxMappings \in Nat /\ DOMAIN mappings = 1 .. n
  BY MappingsAssumption DEF Numbered
<1>2. ASSUME Free = {} PROVE FALSE
  <2>1. PICK x : DOMAIN mapping \subseteq Range(mappings) \cup {x}
    BY DEF Numbered
  <2> DEFINE at == [k \in 1 .. MaxMappings + 1 |->
                      IF k \in Range(mappings) THEN CHOOSE i \in 1 .. n : mappings[i] = k ELSE 0]
  <2>2. ASSUME NEW k \in 1 .. MaxMappings + 1
        PROVE  /\ at[k] \in 0 .. n
               /\ at[k] # 0 => mappings[at[k]] = k
               /\ at[k] = 0 => k = x
    <3>1. k \in Range(mappings) \cup {x}
      BY <1>2, <2>1
    <3>2. CASE k \in Range(mappings)
      <4>1. \E i \in 1 .. n : mappings[i] = k
        BY <1>1, <3>2 DEF Range
      <4>2. at[k] \in 1 .. n /\ mappings[at[k]] = k
        BY <3>2, <4>1
      <4> QED
        BY <1>1, <4>2
    <3>3. CASE k \notin Range(mappings)
      BY <1>1, <3>1, <3>3
    <3> QED
      BY <3>2, <3>3
  <2>3. at \in [1 .. MaxMappings + 1 -> 0 .. n]
    BY <2>2
  <2>4. /\ IsFiniteSet(1 .. MaxMappings + 1) /\ Cardinality(1 .. MaxMappings + 1) = MaxMappings + 1
        /\ IsFiniteSet(0 .. n) /\ Cardinality(0 .. n) = n + 1
    BY <1>1, FS_Interval
  <2> HIDE DEF at
  <2>5. PICK j, k \in 1 .. MaxMappings + 1 : j # k /\ at[j] = at[k]
    BY <1>1, <2>3, <2>4, FS_PigeonHole
  <2> QED
    BY <2>2, <2>5
<1>3. PICK least \in Free : \A k \in Free : least <= k
  <2>1. Free \in SUBSET Nat
    BY <1>1
  <2> HIDE DEF Free
  <2> QED
    BY <1>2, <2>1, LeastNumber
<1>4. FreshNumber \in Free
  <2>1. FreshNumber = CHOOSE k \in Free : \A l \in Free : k <= l
    BY DEF FreshNumber, Min
  <2> HIDE DEF Free
  <2> QED
    BY <1>3, <2>1
<1> QED
  BY <1>1, <1>4

LEMMA AddStays ==
  ASSUME MappingsInv, NEW usage \in Sources, AddMapping(usage)
  PROVE  MappingsInv'
<1> DEFINE m == [source |-> usage, target |-> Nothing, source_port |-> 0, flags |-> {},
                 layers |-> {0}, source_name |-> Unnamed]
           n == Len(mappings)
           new == FreshNumber
<1>1. /\ Len(mappings) < MaxMappings
      /\ mapping' = [k \in DOMAIN mapping \cup {new} |-> IF k = new THEN Settled(m) ELSE mapping[k]]
      /\ mappings' = Append(mappings, new)
      /\ rows' = Append(rows, Row(new, Settled(m), input_labels))
      /\ UNCHANGED <<input_labels, dialog>> /\ AtPage
  BY DEF AddMapping
<1>2. new \in Nat /\ new \notin DOMAIN mapping
  BY <1>1, FreshIsNew DEF MappingsInv
<1>3. Settled(m) \in Mapping
  <2>1. m \in Mapping
    BY UsagesAssumption DEF Mapping
  <2> QED
    BY <2>1, Forces
<1> HIDE DEF m, new
<1>4. /\ mappings \in Seq(Nat) /\ n \in Nat /\ DOMAIN mappings = 1 .. n
      /\ mapping \in [DOMAIN mapping -> Mapping]
      /\ \A i \in 1 .. n : mappings[i] \in DOMAIN mapping
      /\ rows = [i \in 1 .. n |-> rows[i]]
  BY DEF MappingsInv, Numbered, RowsShow, Range
<1>5. /\ mappings' \in Seq(Nat) /\ Len(mappings') = n + 1
      /\ DOMAIN mappings' = 1 .. n + 1
      /\ mappings'[n + 1] = new /\ \A i \in 1 .. n : mappings'[i] = mappings[i]
  BY <1>1, <1>2, <1>4
<1>6. /\ rows' = [i \in 1 .. n + 1 |-> rows'[i]]
      /\ rows'[n + 1] = Row(new, Settled(m), input_labels) /\ \A i \in 1 .. n : rows'[i] = rows[i]
  BY <1>1, <1>4, Listing
<1>7. Range(mappings') = Range(mappings) \cup {new}
  BY <1>4, <1>5, SMTT(40) DEF Range
<1>8. Numbered'
  <2>1. Once(mappings')
    BY <1>2, <1>4, <1>5, SMTT(40) DEF Once, MappingsInv, Numbered
  <2>2. /\ DOMAIN mapping' = DOMAIN mapping \cup {new}
        /\ mapping' \in [DOMAIN mapping' -> Mapping]
    BY <1>1, <1>3, <1>4
  <2>3. /\ Range(mappings') \subseteq DOMAIN mapping'
        /\ \E k : DOMAIN mapping' \subseteq Range(mappings') \cup {k}
    BY <1>7, <2>2 DEF MappingsInv, Numbered
  <2> QED
    BY <1>5, <2>1, <2>2, <2>3 DEF Numbered
<1>9. Attached'
  BY <1>1 DEF MappingsInv, Attached, AtPage
<1>10. RowsShow'
  <2>1. ASSUME NEW i \in 1 .. n + 1
        PROVE  Shows(rows'[i], mappings'[i], mapping'[mappings'[i]], input_labels)
    <3>1. CASE i = n + 1
      BY <1>1, <1>5, <1>6, <3>1, RowShows
    <3>2. CASE i \in 1 .. n
      <4>1. mapping'[mappings[i]] = mapping[mappings[i]]
        BY <1>1, <1>2, <1>4, <3>2
      <4> QED
        BY <1>5, <1>6, <3>2, <4>1 DEF MappingsInv, RowsShow
    <3> QED
      BY <1>4, <3>1, <3>2
  <2> QED
    BY <1>1, <1>5, <1>6, <2>1 DEF RowsShow
<1> QED
  BY <1>8, <1>9, <1>10 DEF MappingsInv

\* A mapping that is removed is gone, and so is its row.
LEMMA RemovesOne ==
  ASSUME NEW s \in Seq(Nat), Once(s), NEW i \in 1 .. Len(s)
  PROVE  LET left == RemoveFirst(s, s[i]) IN
         /\ left \in Seq(Nat) /\ Len(left) = Len(s) - 1
         /\ \A k \in 1 .. Len(s) - 1 : left[k] = IF k < i THEN s[k] ELSE s[k + 1]
         /\ Once(left) /\ Range(left) = Range(s) \ {s[i]}
<1> DEFINE n == Len(s)
           Places == {k \in 1 .. n : s[k] = s[i]}
           left == RemoveFirst(s, s[i])
<1>1. /\ n \in Nat /\ DOMAIN s = 1 .. n /\ s = [k \in 1 .. n |-> s[k]]
      /\ \A k \in 1 .. n : s[k] \in Nat
  OBVIOUS
<1>2. Places = {i}
  BY <1>1 DEF Once
<1>3. Min(Places) = i
  BY <1>2 DEF Min
<1>4. left = RemoveAt(s, i)
  BY <1>2, <1>3 DEF RemoveFirst, SelectInSeq
<1>5. left = [k \in 1 .. n - 1 |-> IF k < i THEN s[k] ELSE s[k + 1]]
  BY <1>1, <1>4, Listing, SMTT(40)
<1> HIDE DEF left
<1>6. left \in Seq(Nat) /\ Len(left) = n - 1 /\ DOMAIN left = 1 .. n - 1
  BY <1>1, <1>5
<1>7. \A k \in 1 .. n - 1 : left[k] = IF k < i THEN s[k] ELSE s[k + 1]
  BY <1>5
<1>8. Once(left)
  <2> SUFFICES ASSUME NEW j \in 1 .. n - 1, NEW k \in 1 .. n - 1, left[j] = left[k]
               PROVE  j = k
    BY <1>6 DEF Once
  <2> DEFINE at(x) == IF x < i THEN x ELSE x + 1
  <2>1. at(j) \in 1 .. n /\ at(k) \in 1 .. n /\ s[at(j)] = s[at(k)]
    BY <1>1, <1>7, SMTT(40)
  <2>2. at(j) = at(k)
    BY <1>1, <2>1 DEF Once
  <2> QED
    BY <1>1, <2>2
<1>9. ASSUME NEW e
      PROVE  e \in Range(left) <=> e \in Range(s) /\ e # s[i]
  <2>1. ASSUME e \in Range(left) PROVE e \in Range(s) /\ e # s[i]
    <3>1. PICK k \in 1 .. n - 1 : left[k] = e
      BY <1>6, <2>1 DEF Range
    <3> DEFINE at == IF k < i THEN k ELSE k + 1
    <3>2. at \in 1 .. n /\ at # i /\ s[at] = e
      BY <1>1, <1>7, <3>1
    <3> QED
      BY <1>1, <3>2 DEF Range, Once
  <2>2. ASSUME e \in Range(s), e # s[i] PROVE e \in Range(left)
    <3>1. PICK k \in 1 .. n : s[k] = e
      BY <1>1, <2>2 DEF Range
    <3>2. k # i
      BY <2>2, <3>1
    <3> DEFINE at == IF k < i THEN k ELSE k - 1
    <3>3. at \in 1 .. n - 1 /\ left[at] = e
      BY <1>1, <1>7, <3>1, <3>2, SMTT(40)
    <3> QED
      BY <1>6, <3>3 DEF Range
  <2> QED
    BY <2>1, <2>2
<1> QED
  BY <1>6, <1>7, <1>8, <1>9 DEF left

\* The parts of the invariant, element by element.
LEMMA Listed ==
  ASSUME MappingsInv
  PROVE  /\ mappings \in Seq(Nat) /\ Len(mappings) \in Nat
         /\ DOMAIN mappings = 1 .. Len(mappings) /\ DOMAIN rows = 1 .. Len(mappings)
         /\ mapping \in [DOMAIN mapping -> Mapping]
         /\ \A n \in DOMAIN mapping : mapping[n] \in Mapping
         /\ \A i \in 1 .. Len(mappings) :
              /\ mappings[i] \in DOMAIN mapping
              /\ rows[i].of = mappings[i]
              /\ \A k \in 1 .. Len(mappings) : mappings[i] = mappings[k] => i = k
<1>1. Numbered /\ RowsShow
  BY DEF MappingsInv
<1>2. /\ mappings \in Seq(Nat) /\ Len(mappings) \in Nat /\ DOMAIN mappings = 1 .. Len(mappings)
      /\ mapping \in [DOMAIN mapping -> Mapping]
  BY <1>1 DEF Numbered
<1>3. DOMAIN rows = 1 .. Len(mappings)
  <2>1. rows = [i \in 1 .. Len(mappings) |-> rows[i]]
    BY <1>1 DEF RowsShow
  <2> QED
    BY ONLY <2>1
<1>4. ASSUME NEW i \in 1 .. Len(mappings)
      PROVE  /\ mappings[i] \in DOMAIN mapping /\ rows[i].of = mappings[i]
             /\ \A k \in 1 .. Len(mappings) : mappings[i] = mappings[k] => i = k
  <2>1. mappings[i] \in DOMAIN mapping
    BY <1>1, <1>2 DEF Numbered, Range
  <2>2. \A k \in 1 .. Len(mappings) : mappings[i] = mappings[k] => i = k
    BY <1>1, <1>2 DEF Numbered, Once
  <2>3. Shows(rows[i], mappings[i], mapping[mappings[i]], input_labels)
    BY <1>1 DEF RowsShow
  <2>4. rows[i].of = mappings[i]
    BY ONLY <2>3 DEF Shows
  <2> QED
    BY <2>1, <2>2, <2>4
<1> QED
  BY <1>2, <1>3, <1>4

LEMMA DeleteStays ==
  ASSUME MappingsInv, NEW i \in DOMAIN rows, DeleteMapping(i)
  PROVE  MappingsInv'
<1> DEFINE n == Len(mappings)
<1>1. /\ mappings' = RemoveFirst(mappings, rows[i].of)
      /\ mapping' = Reachable(mapping, mappings', dialog)
      /\ rows' = RemoveAt(rows, i)
      /\ UNCHANGED <<input_labels, dialog>> /\ AtPage
  BY DEF DeleteMapping
<1>2. /\ mappings \in Seq(Nat) /\ n \in Nat /\ i \in 1 .. n /\ rows[i].of = mappings[i]
      /\ mapping \in [DOMAIN mapping -> Mapping] /\ Once(mappings)
      /\ Range(mappings) \subseteq DOMAIN mapping
  BY Listed DEF MappingsInv, Numbered
<1>3. /\ mappings' \in Seq(Nat) /\ Len(mappings') = n - 1
      /\ \A k \in 1 .. n - 1 : mappings'[k] = IF k < i THEN mappings[k] ELSE mappings[k + 1]
      /\ Once(mappings') /\ Range(mappings') = Range(mappings) \ {mappings[i]}
  BY <1>1, <1>2, RemovesOne
<1>4. /\ DOMAIN mapping' = DOMAIN mapping \cap (Range(mappings') \cup {dialog.of})
      /\ \A k \in DOMAIN mapping' : mapping'[k] = mapping[k]
      /\ mapping' \in [DOMAIN mapping' -> Mapping]
  BY <1>1, <1>2 DEF Reachable
<1>5. Numbered'
  <2>1. Range(mappings') \subseteq DOMAIN mapping'
    BY <1>2, <1>3, <1>4
  <2>2. DOMAIN mapping' \subseteq Range(mappings') \cup {dialog.of}
    BY <1>4
  <2> QED
    BY <1>3, <1>4, <2>1, <2>2 DEF Numbered
<1>6. Attached'
  BY <1>1 DEF MappingsInv, Attached, AtPage
<1>7. /\ rows' = [k \in 1 .. n - 1 |-> rows'[k]]
      /\ \A k \in 1 .. n - 1 : rows'[k] = IF k < i THEN rows[k] ELSE rows[k + 1]
  <2>1. rows = [k \in 1 .. n |-> rows[k]]
    BY DEF MappingsInv, RowsShow
  <2>2. rows' = [k \in 1 .. n - 1 |-> IF k < i THEN rows[k] ELSE rows[k + 1]]
    BY <1>1, <1>2, <2>1, Listing
  <2> QED
    BY ONLY <2>2
<1>8. RowsShow'
  <2>1. ASSUME NEW k \in 1 .. n - 1
        PROVE  Shows(rows'[k], mappings'[k], mapping'[mappings'[k]], input_labels)
    <3> DEFINE at == IF k < i THEN k ELSE k + 1
    <3>1. at \in 1 .. n /\ rows'[k] = rows[at] /\ mappings'[k] = mappings[at]
      BY <1>2, <1>3, <1>7, SMTT(40)
    <3>2. mappings'[k] \in Range(mappings')
      BY <1>3 DEF Range
    <3>3. mapping'[mappings'[k]] = mapping[mappings'[k]]
      BY <1>2, <1>3, <1>4, <3>2
    <3> HIDE DEF at
    <3>4. Shows(rows[at], mappings[at], mapping[mappings[at]], input_labels)
      BY <3>1 DEF MappingsInv, RowsShow
    <3> QED
      BY <3>1, <3>3, <3>4
  <2> QED
    BY <1>1, <1>3, <1>7, <2>1 DEF RowsShow
<1> QED
  BY <1>5, <1>6, <1>8 DEF MappingsInv

\* One mapping changes, and its row, if it has one, with it.
LEMMA OneChanges ==
  ASSUME MappingsInv, NEW n \in DOMAIN mapping, NEW m \in Mapping,
         mapping' = [mapping EXCEPT ![n] = m], UNCHANGED <<mappings, input_labels>>,
         UNCHANGED dialog \/ dialog' = Closed,
         rows' = [i \in 1 .. Len(mappings) |-> rows'[i]],
         \A i \in 1 .. Len(mappings) :
           IF mappings[i] = n THEN Shows(rows'[i], n, m, input_labels) ELSE rows'[i] = rows[i]
  PROVE  MappingsInv'
<1>1. /\ DOMAIN mapping' = DOMAIN mapping /\ mapping' \in [DOMAIN mapping -> Mapping]
      /\ mapping'[n] = m /\ \A k \in DOMAIN mapping : k # n => mapping'[k] = mapping[k]
  BY Listed
<1>2. Numbered'
  BY <1>1 DEF MappingsInv, Numbered
<1>3. Attached'
  <2>1. CASE UNCHANGED dialog
    BY <1>1, <2>1 DEF MappingsInv, Attached, AtPage
  <2>2. CASE dialog' = Closed
    BY <2>2 DEF Attached, AtPage, Closed
  <2> QED
    BY <2>1, <2>2
<1>4. ASSUME NEW i \in 1 .. Len(mappings)
      PROVE  Shows(rows'[i], mappings[i], mapping'[mappings[i]], input_labels)
  <2>1. CASE mappings[i] = n
    BY <1>1, <2>1
  <2>2. CASE mappings[i] # n
    <3>1. mapping'[mappings[i]] = mapping[mappings[i]]
      BY <1>1, <2>2, Listed
    <3> QED
      BY <2>2, <3>1 DEF MappingsInv, RowsShow
  <2> QED
    BY <2>1, <2>2
<1>5. RowsShow'
  BY <1>4 DEF RowsShow
<1> QED
  BY <1>2, <1>3, <1>5 DEF MappingsInv

\* The checkboxes that set_forced_layers() settles show the layers it settles.
LEMMA TickedShows ==
  ASSUME NEW m \in Mapping, NEW n, NEW labels, NEW disabled,
         NEW source \in {Label(m, labels), ReadableName(m.source, labels)}, NEW row,
         row = [of |-> n, source |-> source, target |-> m.target, port |-> m.source_port,
                flags |-> m.flags, layers |-> m.layers, disabled |-> disabled,
                fixed |-> IsExpression(m)]
  PROVE  Shows(TickedForced(row, ForcedLayers(m)), n, ForcedLayers(m), labels)
<1> DEFINE f == ForcedLayers(m)
<1>1. f \in Mapping /\ f = [m EXCEPT !.layers = f.layers]
  BY Forces
<1>2. /\ f.source = m.source /\ f.target = m.target /\ f.source_port = m.source_port
      /\ f.flags = m.flags /\ f.source_name = m.source_name
  <2> HIDE DEF f
  <2> QED
    BY <1>1 DEF Mapping
<1> DEFINE forced == IF IsTrigger(m) THEN {m.target[2]} ELSE {}
           ticked == TickedForced(row, f)
<1>3. (row.layers \ forced) \cup (f.layers \cap forced) = f.layers
  <2>1. row.layers = m.layers
    OBVIOUS
  <2>2. CASE ~IsTrigger(m)
    BY <2>1, <2>2, Forces
  <2>3. CASE IsTrigger(m)
    <3>1. f.layers \in {m.layers \ {m.target[2]}, m.layers \cup {m.target[2]}}
      BY <2>3, Forces
    <3> HIDE DEF f
    <3> QED
      BY <2>1, <2>3, <3>1
  <2> QED
    BY <2>2, <2>3
<1>4. IsTrigger(f) = IsTrigger(m) /\ IsExpression(f) = IsExpression(m)
      /\ Label(f, labels) = Label(m, labels)
  BY <1>2 DEF IsTrigger, IsExpression, Label
<1>5. ticked = [row EXCEPT !.disabled = forced, !.layers = f.layers]
  <2>1. ticked = [row EXCEPT !.disabled = forced, !.layers = (row.layers \ forced) \cup (f.layers \cap forced)]
    <3> HIDE DEF f
    <3> QED
      BY <1>2 DEF TickedForced, IsTrigger
  <2> QED
    BY <1>3, <2>1
<1> HIDE DEF f, ticked, forced
<1>6. /\ ticked.source = source
      /\ ticked = [of |-> n, source |-> source, target |-> f.target, port |-> f.source_port,
                   flags |-> f.flags, layers |-> f.layers, disabled |-> forced,
                   fixed |-> IsExpression(f)]
  BY <1>2, <1>4, <1>5
<1>7. forced = IF IsTrigger(f) THEN {f.target[2]} ELSE {}
  BY <1>2, <1>4 DEF forced
<1>8. ticked.source \in {Label(f, labels), ReadableName(f.source, labels)}
  BY <1>2, <1>4, <1>6
<1>9. Shows(ticked, n, f, labels)
  BY <1>6, <1>7, <1>8 DEF Shows
<1> QED
  BY <1>9 DEF f, ticked

LEMMA FlagStays ==
  ASSUME MappingsInv, NEW i \in DOMAIN rows, NEW flag \in Flags, SetFlag(i, flag)
  PROVE  MappingsInv'
<1> DEFINE n == rows[i].of
           m == mapping[n]
           ticked == SymDiff(rows[i].flags, {flag})
           changed == [m EXCEPT !.flags = IF flag \in ticked THEN m.flags \cup {flag}
                                          ELSE m.flags \ {flag}]
           settled == IF flag = "sticky" THEN ForcedLayers(changed) ELSE changed
           row == [rows[i] EXCEPT !.flags = ticked]
<1>1. /\ AtPage /\ ~rows[i].fixed
      /\ mapping' = [mapping EXCEPT ![n] = settled]
      /\ rows' = [rows EXCEPT ![i] = IF flag = "sticky" THEN TickedForced(row, mapping'[n]) ELSE row]
      /\ UNCHANGED <<mappings, input_labels, dialog>>
  BY DEF SetFlag
<1>2. /\ i \in 1 .. Len(mappings) /\ n = mappings[i] /\ n \in DOMAIN mapping /\ m \in Mapping
      /\ \A k \in 1 .. Len(mappings) : mappings[k] = n => k = i
  BY Listed
<1>3. Shows(rows[i], n, m, input_labels)
  BY <1>2 DEF MappingsInv, RowsShow
<1> HIDE DEF n, m
<1>4. rows[i].flags = m.flags /\ m.flags \subseteq Flags /\ ~IsExpression(m)
  BY <1>1, <1>2, <1>3 DEF Shows, Mapping
<1>5. ticked \subseteq Flags /\ changed = [m EXCEPT !.flags = ticked]
  <2>1. ticked = SymDiff(m.flags, {flag})
    BY <1>4
  <2> HIDE DEF ticked
  <2>2. ticked \in SUBSET Flags /\ (IF flag \in ticked THEN m.flags \cup {flag} ELSE m.flags \ {flag}) = ticked
    BY <1>4, <2>1 DEF SymDiff
  <2> QED
    BY <2>2
<1>6. changed \in Mapping
  <2> HIDE DEF ticked, changed
  <2> QED
    BY <1>2, <1>5 DEF Mapping
<1>7. /\ changed.source = m.source /\ changed.target = m.target /\ changed.flags = ticked
      /\ changed.source_port = m.source_port /\ changed.layers = m.layers
      /\ changed.source_name = m.source_name
  <2> HIDE DEF ticked, changed
  <2> QED
    BY <1>2, <1>5 DEF Mapping
<1> HIDE DEF changed, ticked
<1>8. settled \in Mapping /\ mapping'[n] = settled
  BY <1>1, <1>2, <1>6, Forces, Listed
<1>9. /\ IsTrigger(changed) = IsTrigger(m) /\ IsExpression(changed) = IsExpression(m)
      /\ Label(changed, input_labels) = Label(m, input_labels)
  BY <1>7 DEF IsTrigger, IsExpression, Label
<1>10. /\ row.source \in {Label(changed, input_labels), ReadableName(changed.source, input_labels)}
       /\ row = [of |-> n, source |-> row.source, target |-> changed.target,
                 port |-> changed.source_port, flags |-> changed.flags, layers |-> changed.layers,
                 disabled |-> IF IsTrigger(changed) THEN {changed.target[2]} ELSE {},
                 fixed |-> IsExpression(changed)]
  BY <1>3, <1>7, <1>9 DEF Shows
<1>11. Shows(IF flag = "sticky" THEN TickedForced(row, settled) ELSE row, n, settled, input_labels)
  <2> HIDE DEF row
  <2>1. CASE flag = "sticky"
    <3>1. row = [of |-> n, source |-> row.source, target |-> changed.target,
                 port |-> changed.source_port, flags |-> changed.flags, layers |-> changed.layers,
                 disabled |-> row.disabled, fixed |-> IsExpression(changed)]
      BY <1>10
    <3> QED
      BY <1>6, <1>10, <2>1, <3>1, TickedShows
  <2>2. CASE flag # "sticky"
    BY <1>10, <2>2 DEF Shows
  <2> QED
    BY <2>1, <2>2
<1> HIDE DEF settled, row
<1>12. /\ rows' = [k \in 1 .. Len(mappings) |-> rows'[k]]
       /\ \A k \in 1 .. Len(mappings) :
            IF mappings[k] = n THEN Shows(rows'[k], n, settled, input_labels) ELSE rows'[k] = rows[k]
  <2>1. DOMAIN rows = 1 .. Len(mappings)
    BY Listed
  <2>2. rows' = [rows EXCEPT ![i] = rows'[i]]
        /\ rows'[i] = IF flag = "sticky" THEN TickedForced(row, settled) ELSE row
    BY <1>1, <1>2, <1>8, <2>1
  <2>3. \A k \in 1 .. Len(mappings) : mappings[k] # n => k # i
    BY <1>2
  <2> QED
    BY <1>2, <1>11, <2>1, <2>2, <2>3
<1> QED
  BY <1>1, <1>2, <1>8, <1>12, OneChanges

LEMMA LayerStays ==
  ASSUME MappingsInv, NEW i \in DOMAIN rows, NEW layer \in Layers, SetLayer(i, layer)
  PROVE  MappingsInv'
<1> DEFINE n == rows[i].of
           m == mapping[n]
           ticked == SymDiff(rows[i].layers, {layer})
           changed == [m EXCEPT !.layers = IF layer \in ticked THEN m.layers \cup {layer}
                                           ELSE m.layers \ {layer}]
<1>1. /\ mapping' = [mapping EXCEPT ![n] = changed]
      /\ rows' = [rows EXCEPT ![i] = [rows[i] EXCEPT !.layers = ticked]]
      /\ UNCHANGED <<mappings, input_labels, dialog>>
  BY Listed DEF SetLayer
<1>2. /\ i \in 1 .. Len(mappings) /\ n = mappings[i] /\ n \in DOMAIN mapping /\ m \in Mapping
      /\ \A k \in 1 .. Len(mappings) : mappings[k] = n => k = i
  BY Listed
<1>3. Shows(rows[i], n, m, input_labels)
  BY <1>2 DEF MappingsInv, RowsShow
<1> HIDE DEF n, m
<1>4. rows[i].layers = m.layers /\ m.layers \subseteq Layers
  BY <1>2, <1>3 DEF Shows, Mapping
<1>5. ticked \subseteq Layers /\ changed = [m EXCEPT !.layers = ticked]
  <2>1. ticked = SymDiff(m.layers, {layer})
    BY <1>4
  <2> HIDE DEF ticked
  <2>2. /\ ticked \in SUBSET Layers
        /\ (IF layer \in ticked THEN m.layers \cup {layer} ELSE m.layers \ {layer}) = ticked
    BY <1>4, <2>1 DEF SymDiff
  <2> QED
    BY <2>2
<1> HIDE DEF ticked, changed
<1>6. /\ changed \in Mapping
      /\ changed.source = m.source /\ changed.target = m.target /\ changed.flags = m.flags
      /\ changed.source_port = m.source_port /\ changed.layers = ticked
      /\ changed.source_name = m.source_name
  BY <1>2, <1>5 DEF Mapping
<1>7. Shows([rows[i] EXCEPT !.layers = ticked], n, changed, input_labels)
  BY <1>3, <1>6 DEF Shows, IsTrigger, IsExpression, Label
<1>8. /\ rows' = [k \in 1 .. Len(mappings) |-> rows'[k]]
      /\ \A k \in 1 .. Len(mappings) :
           IF mappings[k] = n THEN Shows(rows'[k], n, changed, input_labels) ELSE rows'[k] = rows[k]
  <2>1. DOMAIN rows = 1 .. Len(mappings)
    BY Listed
  <2>2. \A k \in 1 .. Len(mappings) : mappings[k] # n => k # i
    BY <1>2
  <2> QED
    BY <1>1, <1>2, <1>7, <2>1, <2>2
<1> QED
  BY <1>1, <1>2, <1>6, <1>8, OneChanges

LEMMA ShownAs ==
  ASSUME NEW n, NEW m, NEW labels, NEW row
  PROVE  Shows(row, n, m, labels) <=>
           \E source \in {Label(m, labels), ReadableName(m.source, labels)} :
             row = [of |-> n, source |-> source, target |-> m.target, port |-> m.source_port,
                   flags |-> m.flags, layers |-> m.layers,
                   disabled |-> IF IsTrigger(m) THEN {m.target[2]} ELSE {},
                   fixed |-> IsExpression(m)]
BY DEF Shows

\* The row that the dialog changes is the one of its mapping.
LEMMA ChosenRow ==
  ASSUME MappingsInv, ~AtPage
  PROVE  /\ dialog.of \in DOMAIN mapping /\ mapping[dialog.of] \in Mapping
         /\ \A k \in 1 .. Len(mappings) : k \in Chosen <=> mappings[k] = dialog.of
<1>1. dialog.of \in DOMAIN mapping /\ (dialog.attached <=> dialog.of \in Range(mappings))
  BY DEF MappingsInv, Attached
<1>2. DOMAIN rows = 1 .. Len(mappings) /\ DOMAIN mappings = 1 .. Len(mappings)
      /\ \A k \in 1 .. Len(mappings) : rows[k].of = mappings[k]
  BY Listed
<1>3. \A k \in 1 .. Len(mappings) : mappings[k] \in Range(mappings)
  BY <1>2 DEF Range
<1> QED
  BY <1>1, <1>2, <1>3, Listed DEF Chosen

LEMMA SourceStays ==
  ASSUME MappingsInv, NEW usage \in Sources, ChooseSource(usage)
  PROVE  MappingsInv'
<1> DEFINE n == dialog.of
           m == mapping[n]
           expr == Page(usage) = "expr"
           named == [m EXCEPT !.source = usage]
           changed == ForcedFlags(named)
           Made(k) == [rows[k] EXCEPT !.source = ReadableName(usage, input_labels), !.fixed = expr,
                                      !.flags = IF expr THEN {} ELSE rows[k].flags]
<1>1. /\ ~AtPage
      /\ mapping' = [mapping EXCEPT ![n] = changed]
      /\ rows' = [k \in DOMAIN rows |-> IF k \notin Chosen THEN rows[k] ELSE Made(k)]
      /\ dialog' = Closed /\ UNCHANGED <<mappings, input_labels>>
  BY DEF ChooseSource, AtPage
<1>2. /\ n \in DOMAIN mapping /\ m \in Mapping
      /\ \A k \in 1 .. Len(mappings) : k \in Chosen <=> mappings[k] = n
  BY <1>1, ChosenRow
<1> HIDE DEF n, m, expr
<1>3. /\ named \in Mapping /\ named.source = usage /\ named.target = m.target
      /\ named.flags = m.flags /\ named.layers = m.layers /\ named.source_port = m.source_port
      /\ named.source_name = m.source_name
  BY <1>2 DEF Mapping
<1> HIDE DEF named
<1>4. /\ changed \in Mapping
      /\ changed = [named EXCEPT !.flags = IF IsExpression(named) THEN {} ELSE named.flags]
  BY <1>3, Forces
<1> HIDE DEF changed
<1>5. IsExpression(named) = expr
  BY <1>3 DEF IsExpression, expr
<1>6. /\ changed.source = usage /\ changed.target = m.target
      /\ changed.flags = (IF expr THEN {} ELSE m.flags) /\ changed.layers = m.layers
      /\ changed.source_port = m.source_port /\ changed.source_name = m.source_name
  BY <1>3, <1>4, <1>5 DEF Mapping
<1>7. ASSUME NEW k \in 1 .. Len(mappings), mappings[k] = n
      PROVE  Shows(Made(k), n, changed, input_labels)
  <2>1. Shows(rows[k], n, m, input_labels)
    BY <1>7 DEF MappingsInv, RowsShow, n, m
  <2>2. PICK source :
          rows[k] = [of |-> n, source |-> source, target |-> m.target, port |-> m.source_port,
                          flags |-> m.flags, layers |-> m.layers,
                          disabled |-> IF IsTrigger(m) THEN {m.target[2]} ELSE {},
                          fixed |-> IsExpression(m)]
    BY <2>1, ShownAs
  <2> DEFINE forced == IF IsTrigger(m) THEN {m.target[2]} ELSE {}
  <2>3. Made(k) = [of |-> n, source |-> ReadableName(usage, input_labels), target |-> m.target,
                   port |-> m.source_port, flags |-> IF expr THEN {} ELSE m.flags,
                   layers |-> m.layers, disabled |-> forced, fixed |-> expr]
    <3> DEFINE ta == m.target  po == m.source_port  fl == m.flags  la == m.layers
               fi == IsExpression(m)  nf == IF expr THEN {} ELSE fl
               name == ReadableName(usage, input_labels)
               a == [rows[k] EXCEPT !.source = name]
               b == [a EXCEPT !.fixed = expr]
               c == [b EXCEPT !.flags = nf]
    <3>1. rows[k] = [of |-> n, source |-> source, target |-> ta, port |-> po, flags |-> fl,
                     layers |-> la, disabled |-> forced, fixed |-> fi]
      BY <2>2
    <3>2. Made(k) = c
      <4> HIDE DEF ta, po, fl, la, forced, fi, expr, name, nf
      <4>1. rows[k].flags = fl
        BY <3>1
      <4>2. nf = IF expr THEN {} ELSE rows[k].flags
        BY <4>1 DEF nf
      <4>3. Made(k) = [rows[k] EXCEPT !.source = name, !.fixed = expr, !.flags = nf]
        BY <4>2 DEF name
      <4> QED
        BY ONLY <4>3 DEF a, b, c
    <3> HIDE DEF ta, po, fl, la, forced, fi, nf, name
    <3>3. a = [of |-> n, source |-> name, target |-> ta, port |-> po, flags |-> fl,
               layers |-> la, disabled |-> forced, fixed |-> fi]
      BY <3>1
    <3> HIDE DEF a
    <3>4. b = [of |-> n, source |-> name, target |-> ta, port |-> po, flags |-> fl,
               layers |-> la, disabled |-> forced, fixed |-> expr]
      BY <3>3
    <3> HIDE DEF b
    <3>5. c = [of |-> n, source |-> name, target |-> ta, port |-> po, flags |-> nf,
               layers |-> la, disabled |-> forced, fixed |-> expr]
      BY <3>4
    <3> HIDE DEF c, Made
    <3> QED
      BY <3>2, <3>5 DEF ta, po, fl, la, nf, name
  <2>4. forced = (IF IsTrigger(changed) THEN {changed.target[2]} ELSE {})
        /\ expr = IsExpression(changed)
    BY <1>6 DEF IsTrigger, IsExpression, expr
  <2> HIDE DEF Made, forced
  <2> QED
    BY <1>6, <2>3, <2>4, ShownAs
<1>8. /\ rows' = [k \in 1 .. Len(mappings) |-> rows'[k]]
      /\ \A k \in 1 .. Len(mappings) :
           IF mappings[k] = n THEN Shows(rows'[k], n, changed, input_labels) ELSE rows'[k] = rows[k]
  <2>1. DOMAIN rows = 1 .. Len(mappings)
    BY Listed
  <2> HIDE DEF Made
  <2> QED
    BY <1>1, <1>2, <1>7, <2>1
<1> QED
  BY <1>1, <1>2, <1>4, <1>8, OneChanges, ZenonT(40)

LEMMA TargetStays ==
  ASSUME MappingsInv, NEW usage \in Targets, ChooseTarget(usage)
  PROVE  MappingsInv'
<1> DEFINE n == dialog.of
           m == mapping[n]
           aimed == [m EXCEPT !.target = usage]
           changed == ForcedLayers(aimed)
           Retarget(k) == [rows[k] EXCEPT !.target = usage]
           Made(k) == TickedForced(Retarget(k), changed)
<1>1. /\ ~AtPage
      /\ mapping' = [mapping EXCEPT ![n] = changed]
      /\ rows' = [k \in DOMAIN rows |-> IF k \notin Chosen THEN rows[k]
                                        ELSE TickedForced(Retarget(k), mapping'[n])]
      /\ dialog' = Closed /\ UNCHANGED <<mappings, input_labels>>
  BY DEF ChooseTarget, AtPage
<1>2. /\ n \in DOMAIN mapping /\ m \in Mapping
      /\ \A k \in 1 .. Len(mappings) : k \in Chosen <=> mappings[k] = n
  BY <1>1, ChosenRow
<1> HIDE DEF n, m
<1>3. /\ aimed \in Mapping /\ aimed.source = m.source /\ aimed.target = usage
      /\ aimed.flags = m.flags /\ aimed.layers = m.layers /\ aimed.source_port = m.source_port
      /\ aimed.source_name = m.source_name
  BY <1>2 DEF Mapping
<1> HIDE DEF aimed
<1>4. changed \in Mapping /\ mapping'[n] = changed
  BY <1>1, <1>2, <1>3, Forces, Listed
<1>5. ASSUME NEW k \in 1 .. Len(mappings), mappings[k] = n
      PROVE  Shows(Made(k), n, changed, input_labels)
  <2>1. Shows(rows[k], n, m, input_labels)
    BY <1>5 DEF MappingsInv, RowsShow, n, m
  <2>2. rows[k].source \in {Label(aimed, input_labels), ReadableName(aimed.source, input_labels)}
    BY <1>3, <2>1 DEF Shows, Label
  <2>3. Retarget(k) =
          [of |-> n, source |-> rows[k].source, target |-> aimed.target, port |-> aimed.source_port,
           flags |-> aimed.flags, layers |-> aimed.layers, disabled |-> rows[k].disabled,
           fixed |-> IsExpression(aimed)]
    BY <1>3, <2>1 DEF Shows, IsExpression
  <2> HIDE DEF Retarget
  <2> QED
    BY <1>3, <2>2, <2>3, TickedShows
<1> HIDE DEF changed
<1>6. /\ rows' = [k \in 1 .. Len(mappings) |-> rows'[k]]
      /\ \A k \in 1 .. Len(mappings) :
           IF mappings[k] = n THEN Shows(rows'[k], n, changed, input_labels) ELSE rows'[k] = rows[k]
  <2>1. DOMAIN rows = 1 .. Len(mappings)
    BY Listed
  <2>2. rows' = [k \in 1 .. Len(mappings) |-> IF k \notin Chosen THEN rows[k] ELSE Made(k)]
    BY <1>1, <1>4, <2>1
  <2> HIDE DEF Made
  <2> QED
    BY <1>2, <1>5, <2>2
<1> QED
  BY <1>1, <1>2, <1>4, <1>6, OneChanges

LEMMA PortStays ==
  ASSUME MappingsInv, NEW port \in Ports, ChoosePort(port)
  PROVE  MappingsInv'
<1> DEFINE n == dialog.of
           m == mapping[n]
           changed == [m EXCEPT !.source_port = port]
           Made(k) == [rows[k] EXCEPT !.port = port]
<1>1. ~AtPage
  BY DEF ChoosePort, AtPage
<1>2. /\ n \in DOMAIN mapping /\ m \in Mapping
      /\ \A k \in 1 .. Len(mappings) : k \in Chosen <=> mappings[k] = n
  BY <1>1, ChosenRow
<1>3. /\ mapping' = [mapping EXCEPT ![n] = changed]
      /\ rows' = [k \in DOMAIN rows |-> IF k \in Chosen THEN Made(k) ELSE rows[k]]
      /\ UNCHANGED <<mappings, input_labels, dialog>>
  BY <1>2 DEF ChoosePort
<1> HIDE DEF n, m
<1>4. /\ changed \in Mapping /\ changed.source = m.source /\ changed.target = m.target
      /\ changed.flags = m.flags /\ changed.layers = m.layers /\ changed.source_port = port
      /\ changed.source_name = m.source_name
  BY <1>2 DEF Mapping
<1> HIDE DEF changed
<1>5. ASSUME NEW k \in 1 .. Len(mappings), mappings[k] = n
      PROVE  Shows(Made(k), n, changed, input_labels)
  <2>1. Shows(rows[k], n, m, input_labels)
    BY <1>5 DEF MappingsInv, RowsShow, n, m
  <2>2. PICK source \in {Label(m, input_labels), ReadableName(m.source, input_labels)} :
          rows[k] = [of |-> n, source |-> source, target |-> m.target, port |-> m.source_port,
                          flags |-> m.flags, layers |-> m.layers,
                          disabled |-> IF IsTrigger(m) THEN {m.target[2]} ELSE {},
                          fixed |-> IsExpression(m)]
    BY <2>1, ShownAs
  <2> DEFINE forced == IF IsTrigger(m) THEN {m.target[2]} ELSE {}
  <2>3. Made(k) = [of |-> n, source |-> source, target |-> m.target, port |-> port,
                   flags |-> m.flags, layers |-> m.layers, disabled |-> forced,
                   fixed |-> IsExpression(m)]
    <3> DEFINE ta == m.target  po == m.source_port  fl == m.flags  la == m.layers
               fi == IsExpression(m)
    <3>1. rows[k] = [of |-> n, source |-> source, target |-> ta, port |-> po, flags |-> fl,
                     layers |-> la, disabled |-> forced, fixed |-> fi]
      BY <2>2
    <3> HIDE DEF ta, po, fl, la, forced, fi
    <3>2. Made(k) = [of |-> n, source |-> source, target |-> ta, port |-> port, flags |-> fl,
                     layers |-> la, disabled |-> forced, fixed |-> fi]
      BY <3>1
    <3> QED
      BY <3>2 DEF ta, po, fl, la, fi
  <2>4. /\ forced = (IF IsTrigger(changed) THEN {changed.target[2]} ELSE {})
        /\ IsExpression(m) = IsExpression(changed)
        /\ Label(m, input_labels) = Label(changed, input_labels)
    BY <1>4 DEF IsTrigger, IsExpression, Label
  <2> HIDE DEF Made, forced
  <2> QED
    BY <1>4, <2>2, <2>3, <2>4, ShownAs
<1>6. /\ rows' = [k \in 1 .. Len(mappings) |-> rows'[k]]
      /\ \A k \in 1 .. Len(mappings) :
           IF mappings[k] = n THEN Shows(rows'[k], n, changed, input_labels) ELSE rows'[k] = rows[k]
  <2>1. DOMAIN rows = 1 .. Len(mappings)
    BY Listed
  <2> HIDE DEF Made
  <2> QED
    BY <1>2, <1>3, <1>5, <2>1
<1> QED
  BY <1>2, <1>3, <1>4, <1>6, OneChanges

LEMMA DialogStays ==
  ASSUME MappingsInv,
         \/ \E i \in DOMAIN rows, kind \in {"source", "target"} : ShowUsageModal(kind, i)
         \/ Dismiss
         \/ DeviceOpened
  PROVE  MappingsInv'
<1>1. ASSUME NEW i \in DOMAIN rows, NEW kind \in {"source", "target"}, ShowUsageModal(kind, i)
      PROVE  MappingsInv'
  <2>1. /\ dialog' = [kind |-> kind, of |-> rows[i].of, attached |-> TRUE, live |-> TRUE]
        /\ UNCHANGED <<mapping, mappings, input_labels, rows>>
    BY <1>1 DEF ShowUsageModal
  <2>2. /\ rows[i].of \in Nat /\ rows[i].of \in DOMAIN mapping /\ rows[i].of \in Range(mappings)
    BY Listed DEF Range
  <2>3. Numbered' /\ RowsShow'
    BY <2>1 DEF MappingsInv, Numbered, RowsShow
  <2>4. Attached'
    BY <2>1, <2>2 DEF Attached, AtPage
  <2> QED
    BY <2>3, <2>4 DEF MappingsInv
<1>2. ASSUME Dismiss PROVE MappingsInv'
  <2>1. /\ dialog' = Closed /\ mapping' = Reachable(mapping, mappings, Closed)
        /\ UNCHANGED <<mappings, input_labels, rows>>
    BY <1>2 DEF Dismiss
  <2>2. /\ DOMAIN mapping' = DOMAIN mapping \cap (Range(mappings) \cup {0})
        /\ \A k \in DOMAIN mapping' : mapping'[k] = mapping[k]
        /\ mapping' \in [DOMAIN mapping' -> Mapping]
    BY <2>1, Listed DEF Reachable, Closed
  <2>3. Numbered'
    BY <2>1, <2>2 DEF MappingsInv, Numbered
  <2>4. Attached'
    BY <2>1 DEF Attached, AtPage, Closed
  <2>5. ASSUME NEW i \in 1 .. Len(mappings)
        PROVE  Shows(rows[i], mappings[i], mapping'[mappings[i]], input_labels)
    <3>1. mappings[i] \in Range(mappings) /\ mappings[i] \in DOMAIN mapping
      BY Listed DEF Range
    <3>2. mapping'[mappings[i]] = mapping[mappings[i]]
      BY <2>2, <3>1
    <3> QED
      BY <3>2 DEF MappingsInv, RowsShow
  <2>6. RowsShow'
    BY <2>1, <2>5 DEF MappingsInv, RowsShow
  <2> QED
    BY <2>3, <2>4, <2>6 DEF MappingsInv
<1>3. ASSUME DeviceOpened PROVE MappingsInv'
  <2>1. /\ dialog' = [dialog EXCEPT !.live = FALSE]
        /\ UNCHANGED <<mapping, mappings, input_labels, rows>>
    BY <1>3 DEF DeviceOpened
  <2>2. Attached'
    BY <2>1 DEF MappingsInv, Attached, AtPage
  <2> QED
    BY <2>1, <2>2 DEF MappingsInv, Numbered, RowsShow
<1> QED
  BY <1>1, <1>2, <1>3

\* Sorting changes the order and no more.
LEMMA SortedStays ==
  ASSUME MappingsInv, NEW order \in Bijection(DOMAIN mappings, DOMAIN mappings),
         Remade([i \in DOMAIN mappings |-> mappings[order[i]]], input_labels)
  PROVE  MappingsInv'
<1> DEFINE n == Len(mappings)
           sorted == [i \in DOMAIN mappings |-> mappings[order[i]]]
<1>1. n \in Nat /\ DOMAIN mappings = 1 .. n /\ \A i \in 1 .. n : mappings[i] \in Nat
  BY Listed
<1>2. /\ order \in [1 .. n -> 1 .. n]
      /\ \A i, j \in 1 .. n : order[i] = order[j] => i = j
      /\ \A j \in 1 .. n : \E i \in 1 .. n : order[i] = j
  BY <1>1 DEF Bijection, Injection, Surjection, IsInjective
<1>3. sorted \in Seq(Nat) /\ DOMAIN sorted = 1 .. n /\ \A i \in 1 .. n : sorted[i] = mappings[order[i]]
  BY <1>1, <1>2
<1> HIDE DEF sorted
<1>4. Once(sorted)
  BY <1>1, <1>2, <1>3, Listed, SMTT(40) DEF Once
<1>5. ASSUME NEW e
      PROVE  e \in Range(sorted) <=> e \in Range(mappings)
  <2>1. e \in Range(sorted) => e \in Range(mappings)
    BY <1>1, <1>2, <1>3, SMTT(40) DEF Range
  <2>2. ASSUME e \in Range(mappings) PROVE e \in Range(sorted)
    <3>1. PICK j \in 1 .. n : mappings[j] = e
      BY <1>1, <2>2 DEF Range
    <3>2. PICK i \in 1 .. n : order[i] = j
      BY <1>2
    <3> QED
      BY <1>3, <3>1, <3>2 DEF Range
  <2> QED
    BY <2>1, <2>2
<1>6. Range(sorted) = Range(mappings)
  BY <1>5
<1>7. Remade(sorted, input_labels)
  BY DEF sorted
<1> QED
  BY <1>3, <1>4, <1>6, <1>7, RemadeStays

LEMMA RebuildsStay ==
  ASSUME MappingsInv, Rebuilds
  PROVE  MappingsInv'
<1>1. mappings \in Seq(Nat) /\ Once(mappings)
  BY DEF MappingsInv, Numbered
<1>2. ASSUME NEW labels, Remade(mappings, labels) PROVE MappingsInv'
  BY <1>1, <1>2, RemadeStays
<1>3. ASSUME NEW kind, InputLabelsOnchange(kind) PROVE MappingsInv'
  BY <1>2, <1>3 DEF InputLabelsOnchange
<1>4. ASSUME DescriptorOnchange PROVE MappingsInv'
  BY <1>2, <1>4 DEF DescriptorOnchange
<1>5. ASSUME NEW column, SortBy(column) PROVE MappingsInv'
  <2>1. PICK order \in Bijection(DOMAIN mappings, DOMAIN mappings) :
          Remade([i \in DOMAIN mappings |-> mappings[order[i]]], input_labels)
    BY <1>5 DEF SortBy
  <2> QED
    BY <2>1, SortedStays
<1> QED
  BY <1>3, <1>4, <1>5 DEF Rebuilds

\* What has been loaded has numbers of its own.
LEMMA NewNumbers ==
  ASSUME MappingsInv, NEW file \in Seq(Mapping)
  PROVE  /\ Numbers(file) \in Seq(Nat) /\ Len(Numbers(file)) = Len(file)
         /\ Once(Numbers(file))
         /\ ~AtPage => dialog.of \notin Range(Numbers(file))
<1> DEFINE n == Len(file)
           numbers == Numbers(file)
<1>1. n \in Nat /\ DOMAIN file = 1 .. n /\ dialog.of \in Nat
  BY DEF MappingsInv, Attached
<1>2. numbers = [i \in 1 .. n |-> IF AtPage \/ i < dialog.of THEN i ELSE i + 1]
  BY <1>1 DEF Numbers
<1> HIDE DEF numbers
<1>3. numbers \in Seq(Nat) /\ Len(numbers) = n /\ DOMAIN numbers = 1 .. n
  BY <1>1, <1>2
<1>4. Once(numbers)
  BY <1>1, <1>2, <1>3 DEF Once
<1>5. ~AtPage => dialog.of \notin Range(numbers)
  BY <1>1, <1>2, <1>3 DEF Range
<1> QED
  BY <1>3, <1>4, <1>5 DEF numbers

LEMMA LoadsStay ==
  ASSUME MappingsInv, NEW file \in MappingFiles, NEW labels, SetUiState(file, labels)
  PROVE  MappingsInv' /\ (~AtPage => dialog.of \notin Range(mappings'))
<1> DEFINE kept == IF AtPage THEN {} ELSE {dialog.of}
           at(n) == CHOOSE i \in DOMAIN file : mappings'[i] = n
<1>1. /\ mappings' = Numbers(file)
      /\ mapping' = [n \in Range(mappings') \cup kept |->
                       IF n \in Range(mappings') THEN Settled(file[at(n)]) ELSE mapping[n]]
      /\ input_labels' = labels /\ rows' = RowsOf(mapping', mappings', labels)
      /\ dialog' = [[dialog EXCEPT !.attached = dialog.attached /\ dialog.of \in Range(mappings')]
                      EXCEPT !.live = FALSE]
  BY DEF SetUiState, Reattached
<1>2. file \in Seq(Mapping)
  BY MappingsAssumption
<1>3. /\ mappings' \in Seq(Nat) /\ Len(mappings') = Len(file) /\ Once(mappings')
      /\ ~AtPage => dialog.of \notin Range(mappings')
  BY <1>1, <1>2, NewNumbers
<1>4. ASSUME NEW n \in Range(mappings') PROVE Settled(file[at(n)]) \in Mapping
  <2>1. DOMAIN file = 1 .. Len(file) /\ DOMAIN mappings' = 1 .. Len(file)
    BY <1>2, <1>3
  <2>2. \E i \in DOMAIN file : mappings'[i] = n
    BY <1>4, <2>1 DEF Range
  <2>3. at(n) \in DOMAIN file
    BY <2>2
  <2> HIDE DEF at
  <2>4. file[at(n)] \in Mapping
    BY <1>2, <2>3
  <2> QED
    BY <2>4, Forces
<1>5. kept \subseteq DOMAIN mapping /\ \A n \in kept : mapping[n] \in Mapping
  BY Listed DEF MappingsInv, Attached
<1> HIDE DEF at
<1>6. /\ DOMAIN mapping' = Range(mappings') \cup kept
      /\ mapping' \in [Range(mappings') \cup kept -> Mapping]
  <2>1. \A n \in Range(mappings') \cup kept :
          (IF n \in Range(mappings') THEN Settled(file[at(n)]) ELSE mapping[n]) \in Mapping
    BY <1>4, <1>5
  <2> QED
    BY <1>1, <2>1
<1>7. Numbered'
  <2>1. \E n : DOMAIN mapping' \subseteq Range(mappings') \cup {n}
    BY <1>6
  <2> QED
    BY <1>3, <1>6, <2>1 DEF Numbered
<1>8. Attached'
  <2>1. /\ dialog'.kind = dialog.kind /\ dialog'.of = dialog.of
        /\ dialog'.attached = (dialog.attached /\ dialog.of \in Range(mappings'))
        /\ dialog' \in [kind : {"closed", "source", "target"}, of : Nat,
                        attached : BOOLEAN, live : BOOLEAN]
    BY <1>1 DEF MappingsInv, Attached
  <2>2. ~AtPage => dialog.of \in DOMAIN mapping'
    BY <1>6
  <2> QED
    BY <1>3, <2>1, <2>2 DEF Attached, AtPage
<1>9. RowsShow'
  <2>1. rows' = RowsOf(mapping', mappings', input_labels') /\ mappings' \in Seq(Nat)
    BY <1>1, <1>3
  <2> QED
    BY ONLY <2>1, RowsMade DEF RowsShow
<1> QED
  BY <1>3, <1>7, <1>8, <1>9 DEF MappingsInv

LEMMA MappingsStay ==
  ASSUME MappingsInv, [MappingsNext]_mappings_tab
  PROVE  MappingsInv'
<1>1. CASE UNCHANGED mappings_tab
  BY <1>1 DEF MappingsInv, Numbered, Attached, AtPage, RowsShow, mappings_tab
<1>2. CASE MappingsNext
  <2>1. ASSUME NEW usage \in Sources, AddMapping(usage) PROVE MappingsInv'
    BY <2>1, AddStays
  <2>2. ASSUME NEW i \in DOMAIN rows, DeleteMapping(i) PROVE MappingsInv'
    BY <2>2, DeleteStays
  <2>3. ASSUME NEW i \in DOMAIN rows, NEW flag \in Flags, SetFlag(i, flag) PROVE MappingsInv'
    BY <2>3, FlagStays
  <2>4. ASSUME NEW i \in DOMAIN rows, NEW layer \in Layers, SetLayer(i, layer) PROVE MappingsInv'
    BY <2>4, LayerStays
  <2>5. ASSUME NEW i \in DOMAIN rows, NEW kind \in {"source", "target"}, ShowUsageModal(kind, i)
        PROVE  MappingsInv'
    BY <2>5, DialogStays
  <2>6. ASSUME Rebuilds PROVE MappingsInv'
    BY <2>6, RebuildsStay
  <2>7. ASSUME NEW usage \in Sources, ChooseSource(usage) PROVE MappingsInv'
    BY <2>7, SourceStays
  <2>8. ASSUME NEW usage \in Targets, ChooseTarget(usage) PROVE MappingsInv'
    BY <2>8, TargetStays
  <2>9. ASSUME NEW port \in Ports, ChoosePort(port) PROVE MappingsInv'
    BY <2>9, PortStays
  <2>10. ASSUME Dismiss \/ DeviceOpened PROVE MappingsInv'
    BY <2>10, DialogStays
  <2>11. ASSUME Loads PROVE MappingsInv'
    BY <2>11, LoadsStay DEF Loads
  <2> QED
    BY <1>2, <2>1, <2>2, <2>3, <2>4, <2>5, <2>6, <2>7, <2>8, <2>9, <2>10, <2>11 DEF MappingsNext
<1> QED
  BY <1>1, <1>2

\* A choice that comes late, in a dialog whose mapping is no longer in the list.
LEMMA LateChoice ==
  ASSUME MappingsInv, ~AtPage, dialog.of \notin Range(mappings), MappingsNext, ~Rebuilds, ~Loads
  PROVE  /\ mappings' = mappings /\ rows' = rows
         /\ \A n \in Range(mappings) : mapping'[n] = mapping[n]
<1>1. Chosen = {}
  <2>1. ~dialog.attached
    BY DEF MappingsInv, Attached
  <2> QED
    BY <2>1 DEF Chosen
<1>2. rows = [i \in DOMAIN rows |-> rows[i]]
  <2>1. rows = [i \in 1 .. Len(mappings) |-> rows[i]]
    BY DEF MappingsInv, RowsShow
  <2> QED
    BY ONLY <2>1
<1>3. Range(mappings) \subseteq DOMAIN mapping
  BY DEF MappingsInv, Numbered
<1> DEFINE Unmoved == /\ mappings' = mappings /\ rows' = rows
                       /\ \A n \in Range(mappings) : mapping'[n] = mapping[n]
<1>4. ASSUME NEW usage \in Sources, ChooseSource(usage) PROVE Unmoved
  BY <1>1, <1>2, <1>3, <1>4 DEF ChooseSource
<1>5. ASSUME NEW usage \in Targets, ChooseTarget(usage) PROVE Unmoved
  BY <1>1, <1>2, <1>3, <1>5 DEF ChooseTarget
<1>6. ASSUME NEW port \in Ports, ChoosePort(port) PROVE Unmoved
  BY <1>1, <1>2, <1>3, <1>6 DEF ChoosePort
<1>7. ASSUME Dismiss PROVE Unmoved
  BY <1>3, <1>7 DEF Dismiss, Reachable
<1>8. ASSUME DeviceOpened PROVE Unmoved
  BY <1>8 DEF DeviceOpened
<1> HIDE DEF Unmoved
<1>9. Unmoved
  BY <1>4, <1>5, <1>6, <1>7, <1>8
  DEF MappingsNext, AddMapping, DeleteMapping, SetFlag, SetLayer, ShowUsageModal
<1> QED
  BY <1>9 DEF Unmoved

LEMMA PageShows ==
  ASSUME MappingsInv
  PROVE  PageShowsConfig
<1>1. /\ Len(mappings) \in Nat /\ DOMAIN mappings = 1 .. Len(mappings)
      /\ rows = [i \in 1 .. Len(mappings) |-> rows[i]]
  BY Listed DEF MappingsInv, RowsShow
<1>2. Len(rows) = Len(mappings) /\ DOMAIN rows = 1 .. Len(mappings)
  <2>1. DOMAIN rows = 1 .. Len(mappings)
    BY ONLY <1>1
  <2> QED
    BY <1>1, <2>1, Listing
<1>3. ASSUME NEW i \in 1 .. Len(mappings)
      PROVE  LET m == mapping[mappings[i]]
             IN /\ rows[i].source \in {Label(m, input_labels), ReadableName(m.source, input_labels)}
                /\ [rows[i] EXCEPT !.source = 0] = [Row(mappings[i], m, input_labels) EXCEPT !.source = 0]
  <2> DEFINE n == mappings[i]  m == mapping[n]
  <2>1. Shows(rows[i], n, m, input_labels)
    BY DEF MappingsInv, RowsShow
  <2> HIDE DEF n, m
  <2>2. PICK source \in {Label(m, input_labels), ReadableName(m.source, input_labels)} :
          rows[i] = [of |-> n, source |-> source, target |-> m.target, port |-> m.source_port,
                     flags |-> m.flags, layers |-> m.layers,
                     disabled |-> IF IsTrigger(m) THEN {m.target[2]} ELSE {},
                     fixed |-> IsExpression(m)]
    BY <2>1, ShownAs
  <2>3. rows[i].source = source
    BY <2>2
  <2>4. [rows[i] EXCEPT !.source = 0] = [Row(n, m, input_labels) EXCEPT !.source = 0]
    <3> DEFINE ta == m.target  po == m.source_port  fl == m.flags  la == m.layers
               di == IF IsTrigger(m) THEN {m.target[2]} ELSE {}
               fi == IsExpression(m)  label == Label(m, input_labels)
    <3>1. /\ rows[i] = [of |-> n, source |-> source, target |-> ta, port |-> po, flags |-> fl,
                        layers |-> la, disabled |-> di, fixed |-> fi]
          /\ Row(n, m, input_labels) =
               [of |-> n, source |-> label, target |-> ta, port |-> po, flags |-> fl,
                layers |-> la, disabled |-> di, fixed |-> fi]
      BY <2>2 DEF Row
    <3> HIDE DEF ta, po, fl, la, di, fi, label
    <3> QED
      BY ONLY <3>1
  <2> QED
    BY <2>3, <2>4 DEF n, m
<1> QED
  BY <1>2, <1>3 DEF PageShowsConfig
-----------------------------------------------------------------------------
(* The transfer: functions defined step by step.                           *)

\* What is made in steps, each from the one before, exists.
Stepwise(f, n, D, a, F) == /\ f \in [0 .. n -> D] /\ f[0] = a
                           /\ \A i \in 1 .. n : f[i] = F[<<i, f[i - 1]>>]

\* There is such a function for every number of steps.
LEMMA StepsExist ==
  ASSUME NEW N \in Nat, NEW D, NEW a \in D, NEW F \in [(1 .. N) \X D -> D]
  PROVE  \E f : Stepwise(f, N, D, a, F)
<1> DEFINE Made(f, n) == Stepwise(f, n, D, a, F)
           Bad == {n \in 0 .. N : ~\E f : Made(f, n)}
<1>1. SUFFICES ASSUME N \in Bad PROVE FALSE
  OBVIOUS
<1>2. PICK n \in Bad : \A k \in Bad : n <= k
  <2>1. Bad \in SUBSET Nat
    OBVIOUS
  <2> HIDE DEF Bad
  <2> QED
    BY <1>1, <2>1, LeastNumber
<1>3. n \in 0 .. N /\ ~\E f : Made(f, n)
  OBVIOUS
<1>4. n # 0
  <2>1. Made([i \in 0 .. 0 |-> a], 0)
    BY DEF Stepwise
  <2> QED
    BY <1>3, <2>1
<1>5. PICK f : Made(f, n - 1)
  <2>1. n - 1 \in 0 .. N /\ n - 1 \notin Bad
    <3> HIDE DEF Bad
    <3> QED
      BY <1>2, <1>3, <1>4
  <2> QED
    BY <2>1
<1> DEFINE g == [i \in 0 .. n |-> IF i = n THEN F[<<n, f[n - 1]>>] ELSE f[i]]
<1> HIDE DEF Bad
<1>6. /\ n \in Nat /\ n \in 1 .. N /\ f \in [0 .. n - 1 -> D] /\ f[0] = a
      /\ \A i \in 1 .. n - 1 : f[i] = F[<<i, f[i - 1]>>]
  BY <1>3, <1>4, <1>5 DEF Stepwise
<1>7. Made(g, n)
  <2>1. f[n - 1] \in D /\ F[<<n, f[n - 1]>>] \in D
    BY <1>6
  <2>2. g \in [0 .. n -> D] /\ g[0] = a
    BY <1>6, <2>1
  <2>3. g[n] = F[<<n, f[n - 1]>>] /\ \A i \in 0 .. n - 1 : g[i] = f[i]
    BY <1>6
  <2> HIDE DEF g
  <2>4. ASSUME NEW i \in 1 .. n PROVE g[i] = F[<<i, g[i - 1]>>]
    <3>1. CASE i = n
      BY <1>6, <2>3, <3>1
    <3>2. CASE i # n
      BY <1>6, <2>3, <3>2
    <3> QED
      BY <3>1, <3>2
  <2> QED
    BY <2>2, <2>4 DEF Stepwise
<1> HIDE DEF Made
<1> QED
  BY <1>3, <1>7

\* And what is made in such steps has the values they have.
LEMMA StepsStay ==
  ASSUME NEW N \in Nat, NEW D, NEW f, f = [k \in 0 .. N |-> f[k]], f[0] \in D,
         \A i \in 1 .. N : f[i - 1] \in D => f[i] \in D
  PROVE  f \in [0 .. N -> D]
<1> DEFINE Bad == {n \in 0 .. N : f[n] \notin D}
<1>1. SUFFICES ASSUME Bad # {} PROVE FALSE
  OBVIOUS
<1>2. PICK n \in Bad : \A k \in Bad : n <= k
  <2>1. Bad \in SUBSET Nat
    OBVIOUS
  <2> HIDE DEF Bad
  <2> QED
    BY <1>1, <2>1, LeastNumber
<1>3. n \in 0 .. N /\ f[n] \notin D
  OBVIOUS
<1>4. n # 0
  BY <1>3
<1>5. n - 1 \in 0 .. N /\ n - 1 \notin Bad
  <2> HIDE DEF Bad
  <2> QED
    BY <1>2, <1>3, <1>4
<1>6. f[n - 1] \in D /\ n \in 1 .. N
  BY <1>3, <1>4, <1>5
<1> QED
  BY <1>3, <1>6

(* Macros on the wire. *)

\* A usage that may be in a macro.
Usable == Nat \ {Separator}
\* What is on the wire of a macro.
WireItem == Nat \cup {Separator}

\* The items of a macro, entry by entry.
LEMMA ItemsGrow ==
  ASSUME NEW m \in Seq(Seq(Usable))
  PROVE  LET upto == Transfer!ItemsUpTo(m) IN
         /\ upto \in [0 .. Len(m) -> Seq(WireItem)]
         /\ upto[0] = << >>
         /\ \A k \in 1 .. Len(m) : upto[k] = upto[k - 1] \o m[k] \o <<Separator>>
<1> DEFINE D == Seq(WireItem)
           N == Len(m)
           With(s, k) == s \o m[k] \o <<Separator>>
           F == [x \in (1 .. N) \X D |-> With(x[2], x[1])]
           Step(f) == [k \in 0 .. N |-> IF k = 0 THEN << >> ELSE With(f[k - 1], k)]
           upto == CHOOSE f : f = Step(f)
<1>1. N \in Nat
  OBVIOUS
<1>2. Transfer!ItemsUpTo(m) = upto
  BY DEF Transfer!ItemsUpTo
<1>3. << >> \in D /\ <<Separator>> \in D
  BY DEF WireItem
<1>4. ASSUME NEW s \in D, NEW k \in 1 .. N PROVE With(s, k) \in D
  <2>1. m[k] \in Seq(Usable)
    OBVIOUS
  <2>2. m[k] \in D
    BY <2>1, SeqMonotonic DEF Usable, WireItem
  <2> HIDE DEF N, D
  <2>3. s \o m[k] \in D
    BY <2>2, ConcatProperties DEF D
  <2> QED
    BY <1>3, <2>3, ConcatProperties DEF D
<1>5. \A s, k : With(s, k) = s \o m[k] \o <<Separator>>
  OBVIOUS
<1> HIDE DEF N, D, With
<1>6. F \in [(1 .. N) \X D -> D] /\ \A k \in 1 .. N, s \in D : F[<<k, s>>] = With(s, k)
  BY <1>4
<1> HIDE DEF F
<1>7. PICK f : Stepwise(f, N, D, << >>, F)
  BY <1>1, <1>3, <1>6, StepsExist
<1>8. /\ f \in [0 .. N -> D] /\ f[0] = << >>
      /\ \A k \in 1 .. N : f[k] = With(f[k - 1], k)
  <2>1. /\ f \in [0 .. N -> D] /\ f[0] = << >>
        /\ \A k \in 1 .. N : f[k] = F[<<k, f[k - 1]>>]
    BY <1>7 DEF Stepwise
  <2>2. ASSUME NEW k \in 1 .. N PROVE f[k - 1] \in D
    BY <1>1, <2>1
  <2> QED
    BY <1>6, <2>1, <2>2
<1>9. f = Step(f)
  <2>1. f = [k \in 0 .. N |-> f[k]]
    BY <1>8
  <2>2. ASSUME NEW k \in 0 .. N
        PROVE  f[k] = IF k = 0 THEN << >> ELSE With(f[k - 1], k)
    BY <1>1, <1>8
  <2> QED
    BY <2>1, <2>2
<1>10. upto = Step(upto)
  <2> HIDE DEF Step
  <2> QED
    BY <1>9
<1> HIDE DEF upto
<1>11. /\ upto = [k \in 0 .. N |-> upto[k]] /\ upto[0] = << >>
       /\ \A k \in 1 .. N : upto[k] = With(upto[k - 1], k)
  BY <1>1, <1>10, SMTT(40)
<1>12. upto \in [0 .. N -> D]
  <2>1. upto[0] \in D /\ \A k \in 1 .. N : upto[k - 1] \in D => upto[k] \in D
    BY <1>3, <1>4, <1>11
  <2> QED
    BY <1>1, <1>11, <2>1, StepsStay
<1> QED
  BY <1>2, <1>5, <1>11, <1>12 DEF D, N

LEMMA AddsItem ==
  ASSUME NEW m \in Seq(Seq(Usable)) \ {<< >>}, NEW item \in WireItem
  PROVE  Transfer!AddItem(m, item) \in Seq(Seq(Usable)) \ {<< >>}
<1> DEFINE S == Seq(Usable)
<1>1. /\ m \in Seq(S) /\ m # << >> /\ Len(m) \in 1 .. Len(m) /\ DOMAIN m = 1 .. Len(m)
      /\ m[Len(m)] \in S
  <2> HIDE DEF S
  <2>1. m \in Seq(S) /\ m # << >>
    BY DEF S
  <2> QED
    BY <2>1, EmptySeq
<1>2. CASE item = Separator
  <2>1. << >> \in S
    OBVIOUS
  <2> HIDE DEF S
  <2>2. Append(m, << >>) \in Seq(S) /\ Append(m, << >>) # << >>
    BY <1>1, <2>1, AppendProperties
  <2> QED
    BY <1>2, <2>2 DEF Transfer!AddItem, S
<1>3. CASE item # Separator
  <2>1. item \in Usable
    BY <1>3 DEF Usable, WireItem
  <2>2. Append(m[Len(m)], item) \in S
    BY <1>1, <2>1, AppendProperties
  <2> HIDE DEF S
  <2>3. Transfer!AddItem(m, item) = [m EXCEPT ![Len(m)] = Append(m[Len(m)], item)]
    BY <1>3 DEF Transfer!AddItem
  <2> DEFINE last == Append(m[Len(m)], item)
             longer == [m EXCEPT ![Len(m)] = last]
  <2> HIDE DEF last
  <2>4. longer \in Seq(S) /\ Len(longer) = Len(m)
    BY <1>1, <2>2, ExceptSeq DEF last
  <2>5. longer # << >>
    BY <1>1, <2>4
  <2> QED
    BY <2>3, <2>4, <2>5 DEF S, last
<1> QED
  BY <1>2, <1>3

\* A chunk is added item by item.
LEMMA ChunkAdds ==
  ASSUME NEW m \in Seq(Seq(Usable)), NEW items \in Seq(WireItem)
  PROVE  \E added \in [0 .. Len(items) -> Seq(Seq(Usable)) \ {<< >>}] :
           /\ added[0] = IF m = << >> THEN << << >> >> ELSE m
           /\ \A k \in 1 .. Len(items) :
                added[k] = Transfer!AddItem(added[k - 1], items[k])
           /\ Transfer!AddChunk(m, items) = added[Len(items)]
<1> DEFINE D == Seq(Seq(Usable)) \ {<< >>}
           N == Len(items)
           start == IF m = << >> THEN << << >> >> ELSE m
           With(s, k) == Transfer!AddItem(s, items[k])
           F == [x \in (1 .. N) \X D |-> With(x[2], x[1])]
           Step(f) == [k \in 0 .. N |-> IF k = 0 THEN start ELSE With(f[k - 1], k)]
           added == CHOOSE f : f = Step(f)
<1>1. N \in Nat
  OBVIOUS
<1>2. Transfer!AddChunk(m, items) = added[N]
  BY DEF Transfer!AddChunk
<1>3. start \in D
  <2>1. << << >> >> \in Seq(Seq(Usable)) /\ << << >> >> # << >>
    OBVIOUS
  <2> QED
    BY <2>1
<1>4. ASSUME NEW s \in D, NEW k \in 1 .. N PROVE With(s, k) \in D
  <2>1. items[k] \in WireItem
    OBVIOUS
  <2> HIDE DEF D
  <2>2. With(s, k) = Transfer!AddItem(s, items[k])
    OBVIOUS
  <2> HIDE DEF With
  <2> QED
    BY <2>1, <2>2, AddsItem DEF D
<1>5. \A s, k : With(s, k) = Transfer!AddItem(s, items[k])
  OBVIOUS
<1> HIDE DEF N, D, With, start
<1>6. F \in [(1 .. N) \X D -> D] /\ \A k \in 1 .. N, s \in D : F[<<k, s>>] = With(s, k)
  BY <1>4
<1> HIDE DEF F
<1>7. PICK f : Stepwise(f, N, D, start, F)
  BY <1>1, <1>3, <1>6, StepsExist
<1>8. /\ f \in [0 .. N -> D] /\ f[0] = start
      /\ \A k \in 1 .. N : f[k] = With(f[k - 1], k)
  <2>1. /\ f \in [0 .. N -> D] /\ f[0] = start
        /\ \A k \in 1 .. N : f[k] = F[<<k, f[k - 1]>>]
    BY <1>7 DEF Stepwise
  <2>2. ASSUME NEW k \in 1 .. N PROVE f[k - 1] \in D
    BY <1>1, <2>1
  <2> QED
    BY <1>6, <2>1, <2>2
<1>9. f = Step(f)
  <2>1. f = [k \in 0 .. N |-> f[k]]
    BY <1>8
  <2>2. ASSUME NEW k \in 0 .. N
        PROVE  f[k] = IF k = 0 THEN start ELSE With(f[k - 1], k)
    BY <1>1, <1>8
  <2> QED
    BY <2>1, <2>2
<1>10. added = Step(added)
  <2> HIDE DEF Step
  <2> QED
    BY <1>9
<1> HIDE DEF added
<1>11. /\ added = [k \in 0 .. N |-> added[k]] /\ added[0] = start
       /\ \A k \in 1 .. N : added[k] = With(added[k - 1], k)
  BY <1>1, <1>10, SMTT(40)
<1>12. added \in [0 .. N -> D]
  <2>1. added[0] \in D /\ \A k \in 1 .. N : added[k - 1] \in D => added[k] \in D
    BY <1>3, <1>4, <1>11
  <2> QED
    BY <1>1, <1>11, <2>1, StepsStay
<1> QED
  BY <1>2, <1>5, <1>11, <1>12 DEF D, N, start
-----------------------------------------------------------------------------
\* An element of an expression.
WireElement == [wide : BOOLEAN, number : Nat]

LEMMA WidthIs ==
  ASSUME NEW e \in WireElement
  PROVE  Transfer!Width(e) \in Nat /\ 1 <= Transfer!Width(e) /\ Transfer!Width(e) <= Wide
BY TransferAssumption DEF Transfer!SizesAssumption, Transfer!Width, WireElement

\* The bytes of elements, one by one.
LEMMA BytesGrow ==
  ASSUME NEW x \in Seq(WireElement)
  PROVE  LET upto == Transfer!BytesUpTo(x) IN
         /\ upto \in [0 .. Len(x) -> Nat] /\ upto[0] = 0
         /\ \A k \in 1 .. Len(x) : upto[k] = upto[k - 1] + Transfer!Width(x[k])
<1> DEFINE N == Len(x)
           With(s, k) == s + Transfer!Width(x[k])
           F == [y \in (1 .. N) \X Nat |-> With(y[2], y[1])]
           Step(f) == [k \in 0 .. N |-> IF k = 0 THEN 0 ELSE With(f[k - 1], k)]
           upto == CHOOSE f : f = Step(f)
<1>1. N \in Nat
  OBVIOUS
<1>2. Transfer!BytesUpTo(x) = upto
  BY DEF Transfer!BytesUpTo
<1>4. ASSUME NEW s \in Nat, NEW k \in 1 .. N PROVE With(s, k) \in Nat
  BY WidthIs
<1>5. \A s, k : With(s, k) = s + Transfer!Width(x[k])
  OBVIOUS
<1> HIDE DEF N, With
<1>6. F \in [(1 .. N) \X Nat -> Nat] /\ \A k \in 1 .. N, s \in Nat : F[<<k, s>>] = With(s, k)
  BY <1>4
<1> HIDE DEF F
<1>7. PICK f : Stepwise(f, N, Nat, 0, F)
  BY <1>1, <1>6, StepsExist
<1>8. /\ f \in [0 .. N -> Nat] /\ f[0] = 0
      /\ \A k \in 1 .. N : f[k] = With(f[k - 1], k)
  <2>1. /\ f \in [0 .. N -> Nat] /\ f[0] = 0
        /\ \A k \in 1 .. N : f[k] = F[<<k, f[k - 1]>>]
    BY <1>7 DEF Stepwise
  <2>2. ASSUME NEW k \in 1 .. N PROVE f[k - 1] \in Nat
    BY <1>1, <2>1
  <2> QED
    BY <1>6, <2>1, <2>2
<1>9. f = Step(f)
  <2>1. f = [k \in 0 .. N |-> f[k]]
    BY <1>8
  <2>2. ASSUME NEW k \in 0 .. N
        PROVE  f[k] = IF k = 0 THEN 0 ELSE With(f[k - 1], k)
    BY <1>1, <1>8
  <2> QED
    BY <2>1, <2>2
<1>10. upto = Step(upto)
  <2> HIDE DEF Step
  <2> QED
    BY <1>9
<1> HIDE DEF upto
<1>11. /\ upto = [k \in 0 .. N |-> upto[k]] /\ upto[0] = 0
       /\ \A k \in 1 .. N : upto[k] = With(upto[k - 1], k)
  BY <1>1, <1>10
<1>12. upto \in [0 .. N -> Nat]
  <2>1. upto[0] \in Nat
    BY <1>11
  <2>2. \A k \in 1 .. N : upto[k - 1] \in Nat => upto[k] \in Nat
    BY <1>4, <1>11
  <2>3. upto = [k \in 0 .. N |-> upto[k]]
    BY <1>11
  <2> DEFINE D == Nat
  <2> HIDE DEF D
  <2>4. upto \in [0 .. N -> D]
    BY <1>1, <2>1, <2>2, <2>3, StepsStay DEF D
  <2> QED
    BY <2>4 DEF D
<1> QED
  BY <1>2, <1>5, <1>11, <1>12 DEF N
-----------------------------------------------------------------------------
\* How many items the first k entries of a macro take.
Before(m, k) == Len(Transfer!ItemsUpTo(m)[k])

\* One more entry leaves the items before it as they are.
LEMMA EntryAdds ==
  ASSUME NEW m \in Seq(Seq(Usable)), NEW k \in 1 .. Len(m)
  PROVE  LET upto == Transfer!ItemsUpTo(m) IN
         /\ Before(m, k) = Before(m, k - 1) + Len(m[k]) + 1
         /\ \A i \in 1 .. Before(m, k - 1) : upto[k][i] = upto[k - 1][i]
         /\ \A i \in 1 .. Len(m[k]) : upto[k][Before(m, k - 1) + i] = m[k][i]
         /\ upto[k][Before(m, k)] = Separator
<1> DEFINE upto == Transfer!ItemsUpTo(m)
           s == upto[k - 1]  e == m[k]  both == s \o e  end == <<Separator>>
           n == Len(s)  l == Len(e)
<1>1. /\ s \in Seq(WireItem) /\ e \in Seq(WireItem) /\ upto[k] = both \o end
  <2>1. e \in Seq(Usable)
    OBVIOUS
  <2>2. e \in Seq(WireItem)
    BY <2>1, SeqMonotonic DEF Usable, WireItem
  <2>3. k - 1 \in 0 .. Len(m)
    OBVIOUS
  <2> QED
    BY <2>2, <2>3, ItemsGrow
<1>2. end \in Seq(WireItem) /\ Len(end) = 1 /\ end[1] = Separator
  BY DEF WireItem
<1>3. n \in Nat /\ l \in Nat
  BY <1>1, LenProperties
<1> HIDE DEF upto, s, e, end
<1>4. /\ both \in Seq(WireItem) /\ Len(both) = n + l
      /\ \A i \in 1 .. n + l : both[i] = IF i <= n THEN s[i] ELSE e[i - n]
  BY <1>1, ConcatProperties
<1> HIDE DEF both
<1> DEFINE all == both \o end
<1>5. /\ Len(all) = n + l + 1
      /\ \A i \in 1 .. n + l + 1 : all[i] = IF i <= n + l THEN both[i] ELSE end[i - (n + l)]
  <2>1. /\ Len(all) = Len(both) + Len(end)
        /\ \A i \in 1 .. Len(both) + Len(end) :
             all[i] = IF i <= Len(both) THEN both[i] ELSE end[i - Len(both)]
    <3>1. all = both \o end /\ both \in Seq(WireItem) /\ end \in Seq(WireItem)
      BY <1>2, <1>4
    <3> HIDE DEF all
    <3> QED
      BY <3>1, ConcatProperties
  <2> HIDE DEF all
  <2> QED
    BY <1>2, <1>4, <2>1
<1> HIDE DEF all
<1>6. ASSUME NEW i \in 1 .. n PROVE all[i] = s[i]
  <2>1. i \in 1 .. n + l /\ i \in 1 .. n + l + 1 /\ i <= n + l /\ i <= n
    BY <1>3
  <2> QED
    BY <1>4, <1>5, <2>1
<1>7. ASSUME NEW i \in 1 .. l PROVE all[n + i] = e[i]
  <2>1. n + i \in 1 .. n + l /\ n + i \in 1 .. n + l + 1 /\ n + i <= n + l /\ ~(n + i <= n) /\ n + i - n = i
    BY <1>3
  <2> QED
    BY <1>4, <1>5, <2>1
<1>8. all[n + l + 1] = Separator
  <2>1. n + l + 1 \in 1 .. n + l + 1 /\ ~(n + l + 1 <= n + l) /\ n + l + 1 - (n + l) = 1
    BY <1>3
  <2> QED
    BY <1>2, <1>5, <2>1
<1>9. upto[k] = all
  BY <1>1 DEF all
<1> QED
  BY <1>5, <1>6, <1>7, <1>8, <1>9 DEF Before, upto, s, e

\* Nor do several.
LEMMA EntriesAdd ==
  ASSUME NEW m \in Seq(Seq(Usable)), NEW k \in 0 .. Len(m), NEW j \in k .. Len(m)
  PROVE  LET upto == Transfer!ItemsUpTo(m) IN
         /\ Before(m, k) \in Nat /\ Before(m, j) \in Nat
         /\ Before(m, k) + (j - k) <= Before(m, j)
         /\ \A i \in 1 .. Before(m, k) : upto[j][i] = upto[k][i]
<1> DEFINE upto == Transfer!ItemsUpTo(m)
           Holds(h) == /\ Before(m, k) + (h - k) <= Before(m, h)
                       /\ \A i \in 1 .. Before(m, k) : upto[h][i] = upto[k][i]
           Bad == {h \in k .. Len(m) : ~Holds(h)}
<1>0. Len(m) \in Nat /\ k \in Nat /\ j \in Nat
  OBVIOUS
<1>1. \A h \in 0 .. Len(m) : Before(m, h) \in Nat
  BY ItemsGrow, LenProperties DEF Before
<1>2. SUFFICES ASSUME ~Holds(j) PROVE FALSE
  <2>1. k \in 0 .. Len(m) /\ j \in 0 .. Len(m)
    BY <1>0
  <2> HIDE DEF Bad
  <2> QED
    BY <1>1, <2>1
<1>3. PICK h \in Bad : \A g \in Bad : h <= g
  <2>1. Bad \in SUBSET Nat
    BY <1>0
  <2>2. j \in Bad
    BY <1>2
  <2> HIDE DEF Bad
  <2> QED
    BY <2>1, <2>2, LeastNumber
<1>4. h \in k .. Len(m) /\ ~Holds(h)
  OBVIOUS
<1>5. h # k
  BY <1>0, <1>1, <1>4
<1>6. h - 1 \in k .. Len(m) /\ h - 1 \notin Bad
  <2> HIDE DEF Bad
  <2> QED
    BY <1>0, <1>3, <1>4, <1>5
<1>7. Holds(h - 1)
  BY <1>6
<1>8. h \in 1 .. Len(m) /\ h - 1 \in 0 .. Len(m) /\ h \in 0 .. Len(m)
  BY <1>0, <1>4, <1>5
<1>9. /\ Before(m, h) = Before(m, h - 1) + Len(m[h]) + 1 /\ Len(m[h]) \in Nat
      /\ \A i \in 1 .. Before(m, h - 1) : upto[h][i] = upto[h - 1][i]
  <2>1. m[h] \in Seq(Usable)
    BY <1>8
  <2> QED
    BY <1>8, <2>1, EntryAdds, LenProperties
<1> HIDE DEF Bad, upto
<1>10. Before(m, h) \in Nat /\ Before(m, h - 1) \in Nat /\ Before(m, k) \in Nat
  BY <1>0, <1>1, <1>8
<1>11. Before(m, k) + (h - k) <= Before(m, h)
  BY <1>0, <1>4, <1>7, <1>9, <1>10
<1>12. ASSUME NEW i \in 1 .. Before(m, k) PROVE upto[h][i] = upto[k][i]
  <2>1. i \in 1 .. Before(m, h - 1)
    BY <1>0, <1>6, <1>7, <1>10
  <2> QED
    BY <1>7, <1>9, <2>1
<1> QED
  BY <1>4, <1>11, <1>12

\* What stands where among the items of a macro.
LEMMA ItemsAre ==
  ASSUME NEW m \in Seq(Seq(Usable))
  PROVE  /\ Transfer!Items(m) \in Seq(WireItem)
         /\ Len(Transfer!Items(m)) = Before(m, Len(m)) /\ Before(m, 0) = 0
         /\ \A k \in 0 .. Len(m) : Before(m, k) \in Nat
         /\ \A k \in 1 .. Len(m) :
              /\ Len(m[k]) \in Nat /\ m[k] \in Seq(Usable)
              /\ Before(m, k) = Before(m, k - 1) + Len(m[k]) + 1
              /\ Before(m, k) + (Len(m) - k) <= Before(m, Len(m))
              /\ \A i \in 1 .. Len(m[k]) : Transfer!Items(m)[Before(m, k - 1) + i] = m[k][i]
              /\ Transfer!Items(m)[Before(m, k)] = Separator
<1> DEFINE upto == Transfer!ItemsUpTo(m)  all == upto[Len(m)]
<1>1. Transfer!Items(m) = all
  BY DEF Transfer!Items
<1>2. Len(m) \in Nat /\ Len(m) \in 0 .. Len(m) /\ 0 \in 0 .. Len(m)
  OBVIOUS
<1>3. all \in Seq(WireItem) /\ Len(all) = Before(m, Len(m)) /\ Before(m, 0) = 0
  BY <1>2, ItemsGrow, EmptySeq DEF Before
<1>4. \A k \in 0 .. Len(m) : Before(m, k) \in Nat
  BY ItemsGrow, LenProperties DEF Before
<1>5. ASSUME NEW k \in 1 .. Len(m)
      PROVE  /\ Len(m[k]) \in Nat /\ m[k] \in Seq(Usable)
             /\ Before(m, k) = Before(m, k - 1) + Len(m[k]) + 1
             /\ Before(m, k) + (Len(m) - k) <= Before(m, Len(m))
             /\ \A i \in 1 .. Len(m[k]) : all[Before(m, k - 1) + i] = m[k][i]
             /\ all[Before(m, k)] = Separator
  <2>1. Len(m[k]) \in Nat /\ m[k] \in Seq(Usable)
    OBVIOUS
  <2>2. k \in 0 .. Len(m) /\ k - 1 \in 0 .. Len(m) /\ Len(m) \in k .. Len(m)
    BY <1>2
  <2>3. Before(m, k) \in Nat /\ Before(m, k - 1) \in Nat
    BY <1>4, <2>2
  <2>4. /\ Before(m, k) = Before(m, k - 1) + Len(m[k]) + 1
        /\ \A i \in 1 .. Len(m[k]) : upto[k][Before(m, k - 1) + i] = m[k][i]
        /\ upto[k][Before(m, k)] = Separator
    BY EntryAdds
  <2>5. /\ Before(m, k) + (Len(m) - k) <= Before(m, Len(m))
        /\ \A i \in 1 .. Before(m, k) : all[i] = upto[k][i]
    BY <2>2, EntriesAdd
  <2> HIDE DEF upto, all
  <2>6. ASSUME NEW i \in 1 .. Len(m[k]) PROVE Before(m, k - 1) + i \in 1 .. Before(m, k)
    BY <2>1, <2>3, <2>4
  <2>7. Before(m, k) \in 1 .. Before(m, k)
    BY <2>1, <2>3, <2>4
  <2> QED
    BY <2>1, <2>4, <2>5, <2>6, <2>7
<1> QED
  BY <1>1, <1>3, <1>4, <1>5
-----------------------------------------------------------------------------
\* What has been gathered of macro m is what its first p items say.
Gathers(m, p, got) ==
  /\ got \in Seq(Seq(Usable))
  /\ \E k \in 1 .. Len(m) :
       /\ Len(got) = k /\ \A i \in 1 .. k - 1 : got[i] = m[i]
       /\ p = Before(m, k - 1) + Len(got[k]) /\ Len(got[k]) <= Len(m[k])
       /\ \A i \in 1 .. Len(got[k]) : got[k][i] = m[k][i]

\* One item more has come: it goes on with an entry, or it begins one.
LEMMA ItemGathers ==
  ASSUME NEW m \in Seq(Seq(Usable)), NEW p \in Nat, NEW got, Gathers(m, p, got),
         p + 1 < Len(Transfer!Items(m))
  PROVE  Gathers(m, p + 1, Transfer!AddItem(got, Transfer!Items(m)[p + 1]))
<1> DEFINE item == Transfer!Items(m)[p + 1]
           more == Transfer!AddItem(got, item)
<1>1. PICK k \in 1 .. Len(m) :
        /\ Len(got) = k /\ \A i \in 1 .. k - 1 : got[i] = m[i]
        /\ p = Before(m, k - 1) + Len(got[k]) /\ Len(got[k]) <= Len(m[k])
        /\ \A i \in 1 .. Len(got[k]) : got[k][i] = m[k][i]
  BY DEF Gathers
<1> DEFINE l == Len(got[k])  b == Before(m, k - 1)
<1>2. /\ k \in Nat /\ k >= 1 /\ Len(m) \in Nat /\ got \in Seq(Seq(Usable)) /\ DOMAIN got = 1 .. k
      /\ got[k] \in Seq(Usable) /\ l \in Nat
  <2>1. got \in Seq(Seq(Usable)) /\ Len(got) = k /\ k \in Nat /\ k >= 1 /\ Len(m) \in Nat
    BY <1>1 DEF Gathers
  <2>2. DOMAIN got = 1 .. k /\ got[k] \in Seq(Usable)
    BY <2>1
  <2> QED
    BY <2>1, <2>2, LenProperties
<1>3. /\ b \in Nat /\ Before(m, k) = b + Len(m[k]) + 1 /\ Len(m[k]) \in Nat
      /\ m[k] \in Seq(Usable) /\ Before(m, k) + (Len(m) - k) <= Before(m, Len(m))
      /\ \A i \in 1 .. Len(m[k]) : Transfer!Items(m)[b + i] = m[k][i]
      /\ Transfer!Items(m)[Before(m, k)] = Separator
      /\ Len(Transfer!Items(m)) = Before(m, Len(m))
  <2>1. k - 1 \in 0 .. Len(m)
    BY <1>2
  <2> QED
    BY <2>1, ItemsAre
<1>4. got # << >>
  BY <1>1, <1>2, EmptySeq
<1>5. CASE l < Len(m[k])
  <2>1. item = m[k][l + 1] /\ item \in Usable
    <3>1. l + 1 \in 1 .. Len(m[k]) /\ p + 1 = b + (l + 1)
      BY <1>1, <1>2, <1>3, <1>5, SMTT(40)
    <3>2. m[k][l + 1] \in Usable
      BY <1>3, <3>1, ElementOfSeq
    <3>3. Transfer!Items(m)[b + (l + 1)] = m[k][l + 1]
      <4> HIDE DEF b, l
      <4> QED
        BY <1>3, <3>1, SMTT(40)
    <3>4. item = Transfer!Items(m)[b + (l + 1)]
      BY ONLY <3>1
    <3> QED
      BY <3>2, <3>3, <3>4
  <2> HIDE DEF item
  <2> DEFINE last == Append(got[k], item)
  <2>2. more = [got EXCEPT ![k] = last]
    BY <1>1, <2>1 DEF Transfer!AddItem, Usable
  <2>3. /\ last \in Seq(Usable) /\ Len(last) = l + 1 /\ last[l + 1] = item
        /\ \A i \in 1 .. l : last[i] = got[k][i]
    BY <1>2, <2>1, AppendProperties
  <2> HIDE DEF last, more
  <2>4. /\ more \in Seq(Seq(Usable)) /\ Len(more) = k /\ more[k] = last
        /\ \A i \in 1 .. k - 1 : more[i] = got[i]
    <3> DEFINE S == Seq(Usable)
    <3>1. got \in Seq(S) /\ last \in S /\ k \in 1 .. Len(got)
      BY <1>1, <1>2, <2>3
    <3> HIDE DEF S
    <3>2. more \in Seq(S) /\ Len(more) = Len(got)
      BY <2>2, <3>1, ExceptSeq
    <3> QED
      BY <1>1, <1>2, <2>2, <3>2 DEF S
  <2>5. ASSUME NEW i \in 1 .. l + 1 PROVE last[i] = m[k][i]
    <3>1. CASE i = l + 1
      BY <2>1, <2>3, <3>1
    <3>2. CASE i # l + 1
      <4>1. i \in 1 .. l
        <5> HIDE DEF l
        <5> QED
          BY <1>2, <3>2
      <4> QED
        BY <1>1, <2>3, <4>1
    <3> QED
      BY <3>1, <3>2
  <2>6. /\ p + 1 = b + Len(more[k]) /\ Len(more[k]) <= Len(m[k])
        /\ \A i \in 1 .. Len(more[k]) : more[k][i] = m[k][i]
    <3>1. Len(more[k]) = l + 1
      BY <2>3, <2>4
    <3>2. p + 1 = b + (l + 1) /\ l + 1 <= Len(m[k])
      BY <1>1, <1>2, <1>3, <1>5, SMTT(40)
    <3> QED
      BY <2>4, <2>5, <3>1, <3>2
  <2>7. \A i \in 1 .. k - 1 : more[i] = m[i]
    BY <1>1, <2>4
  <2>8. Gathers(m, p + 1, more)
    BY <1>2, <2>4, <2>6, <2>7 DEF Gathers
  <2> QED
    BY <2>8 DEF more, item
<1>6. CASE l = Len(m[k])
  <2>1. item = Separator /\ k < Len(m) /\ p + 1 = Before(m, k)
    BY <1>1, <1>2, <1>3, <1>6
  <2>2. got[k] = m[k]
    BY <1>1, <1>2, <1>3, <1>6, SeqEqual
  <2> HIDE DEF item
  <2>3. more = Append(got, << >>)
    BY <2>1 DEF Transfer!AddItem
  <2> HIDE DEF more
  <2>4. /\ more \in Seq(Seq(Usable)) /\ Len(more) = k + 1 /\ more[k + 1] = << >>
        /\ \A i \in 1 .. k : more[i] = got[i]
    <3> DEFINE S == Seq(Usable)  none == << >>
    <3>1. got \in Seq(S) /\ none \in S
      BY <1>2
    <3> HIDE DEF S, none
    <3>2. /\ Append(got, none) \in Seq(S) /\ Len(Append(got, none)) = Len(got) + 1
          /\ \A i \in 1 .. Len(got) : Append(got, none)[i] = got[i]
          /\ Append(got, none)[Len(got) + 1] = none
      BY <3>1, AppendProperties
    <3> QED
      BY <1>1, <2>3, <3>2 DEF S, none
  <2>5. \A i \in 1 .. k : more[i] = m[i]
    <3> SUFFICES ASSUME NEW i \in 1 .. k PROVE more[i] = m[i]
      OBVIOUS
    <3>1. CASE i = k
      BY <2>2, <2>4, <3>1
    <3>2. CASE i # k
      BY <1>1, <1>2, <2>4, <3>2
    <3> QED
      BY <3>1, <3>2
  <2>6. Len(more[k + 1]) = 0
    BY <2>4, EmptySeq
  <2>7. k + 1 \in 1 .. Len(m) /\ k + 1 - 1 = k /\ Len(m[k + 1]) \in Nat
    <3>1. k + 1 \in 1 .. Len(m)
      BY <1>2, <2>1
    <3> QED
      BY <1>2, <3>1, ItemsAre
  <2>8. p + 1 = Before(m, k + 1 - 1) + Len(more[k + 1])
    BY <1>3, <2>1, <2>6, <2>7
  <2>9. Len(more[k + 1]) <= Len(m[k + 1]) /\ \A i \in 1 .. Len(more[k + 1]) : more[k + 1][i] = m[k + 1][i]
    BY <2>6, <2>7
  <2> DEFINE n == k + 1
  <2>10. /\ n \in 1 .. Len(m) /\ Len(more) = n /\ \A i \in 1 .. n - 1 : more[i] = m[i]
         /\ p + 1 = Before(m, n - 1) + Len(more[n]) /\ Len(more[n]) <= Len(m[n])
         /\ \A i \in 1 .. Len(more[n]) : more[n][i] = m[n][i]
    BY <2>4, <2>5, <2>7, <2>8, <2>9
  <2> HIDE DEF n
  <2>11. Gathers(m, p + 1, more)
    BY <2>4, <2>10 DEF Gathers
  <2> QED
    BY <2>11 DEF more, item
<1> QED
  BY <1>1, <1>2, <1>3, <1>5, <1>6

\* Nothing but a first entry without usages is gathered before the first item.
LEMMA FirstGathers ==
  ASSUME NEW m \in Seq(Seq(Usable)), m # << >>
  PROVE  Gathers(m, 0, << << >> >>)
<1> DEFINE got == << << >> >>
<1>1. got \in Seq(Seq(Usable)) /\ Len(got) = 1 /\ Len(got[1]) = 0
  OBVIOUS
<1>2. 1 \in 1 .. Len(m) /\ Len(m[1]) \in Nat /\ Before(m, 0) = 0
  <2>1. 1 \in 1 .. Len(m)
    BY EmptySeq
  <2> QED
    BY <2>1, ItemsAre
<1> HIDE DEF got
<1>3. /\ 0 = Before(m, 1 - 1) + Len(got[1]) /\ Len(got[1]) <= Len(m[1])
      /\ \A i \in 1 .. Len(got[1]) : got[1][i] = m[1][i]
      /\ \A i \in 1 .. 1 - 1 : got[i] = m[i]
  BY <1>1, <1>2
<1> QED
  BY <1>1, <1>2, <1>3 DEF Gathers, got

\* When all items have come but the last separator, the macro has.
LEMMA AllGathered ==
  ASSUME NEW m \in Seq(Seq(Usable)), NEW got,
         Gathers(m, Len(Transfer!Items(m)) - 1, got)
  PROVE  got = m
<1>1. PICK k \in 1 .. Len(m) :
        /\ Len(got) = k /\ \A i \in 1 .. k - 1 : got[i] = m[i]
        /\ Len(Transfer!Items(m)) - 1 = Before(m, k - 1) + Len(got[k]) /\ Len(got[k]) <= Len(m[k])
        /\ \A i \in 1 .. Len(got[k]) : got[k][i] = m[k][i]
  BY DEF Gathers
<1>2. got \in Seq(Seq(Usable)) /\ got[k] \in Seq(Usable) /\ Len(got[k]) \in Nat /\ k \in Nat /\ Len(m) \in Nat
  BY <1>1 DEF Gathers
<1>3. /\ Before(m, k) = Before(m, k - 1) + Len(m[k]) + 1 /\ Len(m[k]) \in Nat
      /\ m[k] \in Seq(Usable) /\ Before(m, k) + (Len(m) - k) <= Before(m, Len(m))
      /\ Len(Transfer!Items(m)) = Before(m, Len(m))
      /\ Before(m, k - 1) \in Nat /\ Before(m, Len(m)) \in Nat
  <2>1. k - 1 \in 0 .. Len(m) /\ Len(m) \in 0 .. Len(m)
    BY <1>2
  <2> QED
    BY <2>1, ItemsAre
<1>4. k = Len(m) /\ Len(got[k]) = Len(m[k])
  BY <1>1, <1>2, <1>3
<1>5. got[k] = m[k]
  BY <1>1, <1>2, <1>3, <1>4, SeqEqual
<1>6. Len(got) = Len(m) /\ \A i \in 1 .. Len(got) : got[i] = m[i]
  BY <1>1, <1>2, <1>4, <1>5
<1> DEFINE S == Seq(Usable)
<1>7. got \in Seq(S) /\ m \in Seq(S)
  BY <1>2
<1> HIDE DEF S
<1> QED
  BY <1>6, <1>7, SeqEqual
-----------------------------------------------------------------------------
\* Two sequences with the same elements from a to b.
LEMMA SamePart ==
  ASSUME NEW S, NEW s \in Seq(S), NEW t \in Seq(S), NEW a \in Nat \ {0}, NEW b \in Nat,
         b <= Len(s), b <= Len(t), \A i \in a .. b : s[i] = t[i]
  PROVE  /\ SubSeq(s, a, b) = SubSeq(t, a, b)
         /\ SubSeq(s, a, b) \in Seq(S) /\ Len(SubSeq(s, a, b)) = IF a <= b THEN b - a + 1 ELSE 0
         /\ \A i \in 1 .. b - a + 1 : SubSeq(s, a, b)[i] = s[a + i - 1]
<1>1. a \in Int /\ b \in Int /\ \A i \in a .. b : s[i] \in S /\ t[i] \in S
  <2> SUFFICES ASSUME NEW i \in a .. b PROVE s[i] \in S /\ t[i] \in S
    OBVIOUS
  <2>1. i \in 1 .. Len(s) /\ i \in 1 .. Len(t)
    BY LenProperties
  <2> QED
    BY <2>1, ElementOfSeq
<1> DEFINE x == SubSeq(s, a, b)  y == SubSeq(t, a, b)
<1>2. /\ x \in Seq(S) /\ Len(x) = IF a <= b THEN b - a + 1 ELSE 0
      /\ \A i \in 1 .. b - a + 1 : x[i] = s[a + i - 1]
  BY <1>1, SubSeqProperties
<1>3. /\ y \in Seq(S) /\ Len(y) = IF a <= b THEN b - a + 1 ELSE 0
      /\ \A i \in 1 .. b - a + 1 : y[i] = t[a + i - 1]
  BY <1>1, SubSeqProperties
<1> HIDE DEF x, y
<1>4. ASSUME NEW i \in 1 .. Len(x) PROVE x[i] = y[i]
  <2>1. a <= b
    BY <1>2
  <2>2. i \in 1 .. b - a + 1 /\ a + i - 1 \in a .. b
    BY <1>2, <2>1
  <2> QED
    BY <1>2, <1>3, <2>2
<1>5. x = y
  BY <1>2, <1>3, <1>4, SeqEqual
<1> QED
  BY <1>2, <1>5 DEF x, y

\* What is sent is all items but the last separator.
LEMMA SeparatedIs ==
  ASSUME NEW m \in Seq(Seq(Usable))
  PROVE  /\ Transfer!Separated(m) \in Seq(WireItem) /\ Transfer!Items(m) \in Seq(WireItem)
         /\ Len(Transfer!Separated(m)) \in Nat /\ Len(Transfer!Items(m)) \in Nat
         /\ m = << >> => Len(Transfer!Separated(m)) = 0 /\ Len(Transfer!Items(m)) = 0
         /\ m # << >> => Len(Transfer!Separated(m)) + 1 = Len(Transfer!Items(m))
         /\ \A i \in 1 .. Len(Transfer!Separated(m)) : Transfer!Separated(m)[i] = Transfer!Items(m)[i]
<1> DEFINE all == Transfer!Items(m)  L == Len(all)
<1>1. all \in Seq(WireItem) /\ L \in Nat /\ L = Before(m, Len(m)) /\ Len(m) \in Nat /\ Before(m, 0) = 0
  BY ItemsAre
<1>2. m = << >> => L = 0
  BY <1>1, EmptySeq
<1>3. m # << >> => L >= 1
  <2> SUFFICES ASSUME m # << >> PROVE L >= 1
    OBVIOUS
  <2> DEFINE k == Len(m)
  <2>1. k \in 1 .. k /\ k - 1 \in 0 .. k
    BY <1>1, EmptySeq
  <2> HIDE DEF L
  <2> QED
    BY <1>1, <2>1, ItemsAre
<1>4. Transfer!Separated(m) = SubSeq(all, 1, L - 1)
  BY DEF Transfer!Separated
<1> HIDE DEF all
<1> DEFINE front == SubSeq(all, 1, L - 1)
<1>5. /\ front \in Seq(WireItem) /\ Len(front) = IF 1 <= L - 1 THEN L - 1 ELSE 0
      /\ \A i \in 1 .. L - 1 : front[i] = all[i]
  <2>1. \A i \in 1 .. L - 1 : all[i] \in WireItem
    BY <1>1, ElementOfSeq
  <2>2. 1 \in Int /\ L - 1 \in Int
    BY <1>1
  <2>3. /\ front \in Seq(WireItem) /\ Len(front) = IF 1 <= L - 1 THEN L - 1 - 1 + 1 ELSE 0
        /\ \A i \in 1 .. L - 1 - 1 + 1 : front[i] = all[1 + i - 1]
    BY <2>1, <2>2, SubSeqProperties, SMTT(40)
  <2> HIDE DEF front, L
  <2>4. L - 1 - 1 + 1 = L - 1 /\ \A i \in 1 .. L - 1 : 1 + i - 1 = i
    BY <1>1
  <2> QED
    BY <2>3, <2>4
<1> HIDE DEF front, L
<1>6. /\ m = << >> => Len(front) = 0
      /\ m # << >> => Len(front) + 1 = L
      /\ \A i \in 1 .. Len(front) : front[i] = all[i]
  BY <1>1, <1>2, <1>3, <1>5
<1> QED
  BY <1>1, <1>2, <1>4, <1>5, <1>6, LenProperties DEF front, L, all

\* So much of a macro has been gathered when p items have come.
Came(m, p, got) ==
  /\ p \in 0 .. Len(Transfer!Separated(m))
  /\ IF p = 0 THEN got = << >> ELSE Gathers(m, p, got)

\* A chunk more has come.
LEMMA ChunkComes ==
  ASSUME NEW m \in Seq(Seq(Usable)), NEW p \in Nat, NEW q \in Nat, NEW got,
         Came(m, p, got), p < q, q <= Len(Transfer!Separated(m))
  PROVE  Came(m, q, Transfer!AddChunk(got, SubSeq(Transfer!Separated(m), p + 1, q)))
<1> DEFINE sep == Transfer!Separated(m)
           items == SubSeq(sep, p + 1, q)
           start == IF got = << >> THEN << << >> >> ELSE got
<1>1. /\ sep \in Seq(WireItem) /\ Len(sep) \in Nat /\ m # << >>
      /\ Len(Transfer!Items(m)) = Len(sep) + 1
      /\ \A i \in 1 .. Len(sep) : sep[i] = Transfer!Items(m)[i]
  BY SeparatedIs
<1> HIDE DEF sep
<1>2. /\ items \in Seq(WireItem) /\ Len(items) = q - p
      /\ \A i \in 1 .. q - p : items[i] = sep[p + i]
  <2>1. /\ p + 1 \in Nat \ {0} /\ q <= Len(sep) /\ p + 1 <= q
        /\ q - (p + 1) + 1 = q - p /\ \A i \in 1 .. q - p : p + 1 + i - 1 = p + i
    BY DEF sep
  <2>2. /\ items \in Seq(WireItem) /\ Len(items) = IF p + 1 <= q THEN q - (p + 1) + 1 ELSE 0
        /\ \A i \in 1 .. q - (p + 1) + 1 : items[i] = sep[p + 1 + i - 1]
    BY <1>1, <2>1, SamePart
  <2> HIDE DEF items
  <2> QED
    BY <2>1, <2>2
<1>3. got \in Seq(Seq(Usable)) /\ Gathers(m, p, start)
  <2>1. CASE p = 0
    <3>1. got = << >>
      BY <2>1 DEF Came
    <3> QED
      BY <1>1, <2>1, <3>1, FirstGathers
  <2>2. CASE p # 0
    <3>1. Gathers(m, p, got)
      BY <2>2 DEF Came
    <3>2. got \in Seq(Seq(Usable)) /\ Len(got) \in Nat \ {0}
      BY <3>1 DEF Gathers
    <3>3. got # << >>
      BY <3>2, EmptySeq
    <3> QED
      BY <3>1, <3>2, <3>3
  <2> QED
    BY <2>1, <2>2
<1> HIDE DEF items, start
<1>4. PICK added \in [0 .. Len(items) -> Seq(Seq(Usable)) \ {<< >>}] :
           /\ added[0] = start
           /\ \A k \in 1 .. Len(items) :
                added[k] = Transfer!AddItem(added[k - 1], items[k])
           /\ Transfer!AddChunk(got, items) = added[Len(items)]
  BY <1>2, <1>3, ChunkAdds DEF start
<1> DEFINE Bad == {n \in 0 .. q - p : ~Gathers(m, p + n, added[n])}
<1>5. ASSUME q - p \in Bad PROVE FALSE
  <2>1. PICK n \in Bad : \A j \in Bad : n <= j
    <3>1. Bad \in SUBSET Nat
      OBVIOUS
    <3> HIDE DEF Bad
    <3> QED
      BY <1>5, <3>1, LeastNumber
  <2>2. n \in 0 .. q - p /\ ~Gathers(m, p + n, added[n])
    OBVIOUS
  <2>3. n # 0
    BY <1>3, <1>4, <2>2
  <2>4. n - 1 \in 0 .. q - p /\ n - 1 \notin Bad
    <3> HIDE DEF Bad
    <3> QED
      BY <2>1, <2>2, <2>3
  <2>5. Gathers(m, p + (n - 1), added[n - 1])
    BY <2>4
  <2> HIDE DEF Bad
  <2>6. added[n] = Transfer!AddItem(added[n - 1], items[n])
    BY <1>2, <1>4, <2>2, <2>3
  <2> DEFINE at == p + (n - 1)
  <2>7. at \in Nat /\ at + 1 = p + n /\ at + 1 < Len(Transfer!Items(m))
    BY <1>1, <2>2, <2>3 DEF sep
  <2>8. items[n] = Transfer!Items(m)[at + 1]
    <3>1. n \in 1 .. q - p /\ p + n \in 1 .. Len(sep)
      BY <1>1, <2>2, <2>3 DEF sep
    <3> QED
      BY <1>1, <1>2, <2>7, <3>1
  <2> HIDE DEF at
  <2>9. Gathers(m, at, added[n - 1])
    BY <2>5 DEF at
  <2> QED
    BY <2>2, <2>6, <2>7, <2>8, <2>9, ItemGathers
<1>6. Gathers(m, q, Transfer!AddChunk(got, items))
  <2>1. q - p \in 0 .. q - p /\ p + (q - p) = q
    OBVIOUS
  <2> QED
    BY <1>2, <1>4, <1>5, <2>1
<1> QED
  BY <1>1, <1>6 DEF Came, items, sep

\* When all that is sent has come, the macro has, if it was not one of one empty entry.
LEMMA AllCame ==
  ASSUME NEW m \in Seq(Seq(Usable)), NEW got, Came(m, Len(Transfer!Separated(m)), got)
  PROVE  got = Transfer!Same(m)
<1> DEFINE n == Len(Transfer!Separated(m))
<1>1. CASE m = << >>
  BY <1>1, SeparatedIs DEF Came, Transfer!Same
<1>2. CASE m # << >> /\ n = 0
  <2>1. got = << >>
    BY <1>2 DEF Came
  <2>2. Len(m) = 1 /\ Len(m[1]) = 0 /\ m[1] \in Seq(Usable)
    <3>1. Before(m, Len(m)) = 1 /\ Before(m, 0) = 0
      BY <1>2, SeparatedIs, ItemsAre
    <3>2. Len(m) \in Nat /\ 1 \in 1 .. Len(m)
      BY <1>2, EmptySeq
    <3>3. /\ Len(m[1]) \in Nat /\ m[1] \in Seq(Usable)
          /\ Before(m, 1) = Before(m, 1 - 1) + Len(m[1]) + 1
          /\ Before(m, 1) + (Len(m) - 1) <= Before(m, Len(m))
      BY <3>2, ItemsAre
    <3>4. 1 - 1 = 0
      OBVIOUS
    <3>5. Before(m, 1) = Len(m[1]) + 1
      BY <3>1, <3>3, <3>4
    <3>6. Len(m[1]) + 1 + (Len(m) - 1) <= 1 /\ Len(m) >= 1
      BY <3>1, <3>2, <3>3, <3>5
    <3>7. \A a, b \in Nat : a + 1 + (b - 1) <= 1 /\ b >= 1 => a = 0 /\ b = 1
      OBVIOUS
    <3> QED
      BY <3>2, <3>3, <3>6, <3>7
  <2>3. m = << << >> >>
    <3>1. m[1] = << >>
      BY <2>2, EmptySeq
    <3> QED
      BY <2>2, <3>1
  <2> QED
    BY <2>1, <2>3 DEF Transfer!Same
<1>3. CASE m # << >> /\ n # 0
  <2>1. Gathers(m, n, got) /\ n = Len(Transfer!Items(m)) - 1
    BY <1>3, SeparatedIs DEF Came
  <2>2. got = m
    BY <2>1, AllGathered
  <2>3. m # << << >> >>
    <3> SUFFICES ASSUME m = << << >> >> PROVE FALSE
      OBVIOUS
    <3>1. Len(m) = 1 /\ Len(m[1]) = 0 /\ 1 \in 1 .. Len(m)
      OBVIOUS
    <3>2. Before(m, 1) = Before(m, 1 - 1) + Len(m[1]) + 1 /\ Before(m, 0) = 0
          /\ Len(Transfer!Items(m)) = Before(m, Len(m))
      BY <3>1, ItemsAre
    <3> QED
      BY <1>3, <2>1, <3>1, <3>2
  <2> QED
    BY <2>2, <2>3 DEF Transfer!Same
<1> QED
  BY <1>1, <1>2, <1>3
\* What the device gives out is the next of what was sent, as much as fits.
LEMMA ItemsGiven ==
  ASSUME NEW m \in Seq(Seq(Usable)), NEW first \in Nat, first <= Len(Transfer!Separated(m))
  PROVE  LET n == Len(Transfer!Separated(m))
             last == IF first + MACRO_ITEMS_IN_PACKET < n THEN first + MACRO_ITEMS_IN_PACKET ELSE n
         IN Transfer!GiveItems(m, first) = SubSeq(Transfer!Separated(m), first + 1, last)
<1> DEFINE N == MACRO_ITEMS_IN_PACKET
           sep == Transfer!Separated(m)  n == Len(sep)
           all == Transfer!Items(m)  L == Len(all)
           until == IF first + N < L THEN first + N ELSE L
           last == IF first + N < n THEN first + N ELSE n
           given == SubSeq(all, first + 1, until)
           beforeLastEntry == L - Len(m[Len(m)]) - 1
           exhausted == beforeLastEntry - first < N
           drop == given # << >> /\ exhausted /\ given[Len(given)] = Separator
<1>0. N \in Nat /\ N >= 1
  BY TransferAssumption DEF Transfer!SizesAssumption
<1>1. /\ sep \in Seq(WireItem) /\ all \in Seq(WireItem) /\ n \in Nat /\ L \in Nat
      /\ m = << >> => n = 0 /\ L = 0
      /\ m # << >> => n + 1 = L
      /\ \A i \in 1 .. n : sep[i] = all[i]
  BY SeparatedIs
<1>2. Transfer!GiveItems(m, first) = IF drop THEN SubSeq(given, 1, Len(given) - 1) ELSE given
  BY DEF Transfer!GiveItems
<1> HIDE DEF N, sep, all
<1>3. until \in Nat /\ until <= L /\ last \in Nat /\ last <= n /\ n <= L /\ first + 1 \in Nat \ {0}
  BY <1>0, <1>1
<1>4. /\ given \in Seq(WireItem) /\ Len(given) = IF first + 1 <= until THEN until - (first + 1) + 1 ELSE 0
      /\ \A i \in 1 .. until - (first + 1) + 1 : given[i] = all[first + 1 + i - 1]
  <2> HIDE DEF until
  <2> QED
    BY <1>1, <1>3, SamePart
<1>5. SubSeq(sep, first + 1, last) = SubSeq(all, first + 1, last)
  <2>1. \A i \in first + 1 .. last : sep[i] = all[i]
    BY <1>1, <1>3
  <2>2. last <= Len(sep) /\ last <= Len(all)
    BY <1>1, <1>3
  <2> HIDE DEF last
  <2> QED
    BY <1>1, <1>3, <2>1, <2>2, SamePart
<1>6. CASE m = << >>
  <2>1. until = 0 /\ last = 0 /\ first = 0
    BY <1>0, <1>1, <1>6 DEF sep
  <2>2. given = << >>
    BY <2>1, <1>4, EmptySeq
  <2> HIDE DEF until, given, last, exhausted
  <2>3. Transfer!GiveItems(m, first) = given
    BY <1>2, <2>2
  <2>4. given = SubSeq(all, first + 1, last)
    BY <2>1 DEF given
  <2> QED
    BY <1>5, <2>3, <2>4 DEF last, n, sep, N
<1>7. CASE m # << >> /\ first + N < L
  <2>1. until = first + N /\ last = first + N /\ first + N >= 1 /\ first + N <= L - 1
    <3> HIDE DEF L, n
    <3>1. n = L - 1 /\ n \in Nat /\ L \in Nat
      BY <1>1, <1>7
    <3>2. first + N <= n
      BY <1>0, <1>7, <3>1
    <3> QED
      BY <1>0, <1>7, <3>1, <3>2
  <2>2. Len(given) = N /\ given[N] = all[first + N]
    <3>1. Len(given) = N /\ N \in 1 .. until - (first + 1) + 1
      BY <1>0, <1>4, <2>1
    <3>2. first + 1 + N - 1 = first + N
      BY <1>0
    <3> HIDE DEF given, until
    <3> QED
      BY <1>4, <3>1, <3>2
  <2> HIDE DEF until, given, last
  <2>3. ASSUME drop PROVE FALSE
    <3> DEFINE k == Len(m)
    <3>1. k \in 1 .. k /\ k \in Nat /\ k - 1 \in 0 .. k
      BY <1>7, EmptySeq, LenProperties
    <3>2. /\ Before(m, k) = Before(m, k - 1) + Len(m[k]) + 1 /\ Len(m[k]) \in Nat
          /\ Before(m, k - 1) \in Nat /\ L = Before(m, k) /\ m[k] \in Seq(Usable)
          /\ \A i \in 1 .. Len(m[k]) : all[Before(m, k - 1) + i] = m[k][i]
      BY <3>1, ItemsAre DEF all
    <3> HIDE DEF k, L
    <3>3. L - Len(m[k]) - 1 - first < N
      BY <2>3 DEF k
    <3> DEFINE i == first + N - Before(m, k - 1)
    <3>4. i \in 1 .. Len(m[k]) /\ Before(m, k - 1) + i = first + N
      <4> DEFINE l == Len(m[k])  b == Before(m, k - 1)
      <4>1. l \in Nat /\ b \in Nat /\ L = b + l + 1
        BY <3>2
      <4> HIDE DEF l, b
      <4>2. L - l - 1 - first < N
        BY <3>3 DEF l
      <4>3. first + N - b \in 1 .. l /\ b + (first + N - b) = first + N
        BY <1>0, <2>1, <4>1, <4>2
      <4> QED
        BY <4>3 DEF l, b
    <3>5. all[first + N] = m[k][i]
      BY <3>2, <3>4
    <3>6. m[k][i] \in Usable
      BY <3>2, <3>4, ElementOfSeq
    <3> QED
      BY <2>2, <2>3, <3>5, <3>6 DEF Usable
  <2>4. Transfer!GiveItems(m, first) = given
    BY <1>2, <2>3
  <2>5. given = SubSeq(all, first + 1, last)
    BY <2>1 DEF given
  <2> QED
    BY <1>5, <2>4, <2>5 DEF last, n, sep, N
<1>8. CASE m # << >> /\ ~(first + N < L)
  <2>1. until = L /\ last = L - 1 /\ first <= L - 1
    <3>1. until = L /\ n = L - 1
      BY <1>1, <1>8
    <3>2. first <= n
      BY DEF sep
    <3> HIDE DEF L, n, until
    <3> QED
      BY <1>0, <1>1, <1>8, <3>1, <3>2
  <2>2. Len(given) = L - first /\ given[L - first] = all[L] /\ given # << >>
    <3>1. Len(given) = L - first /\ L - first \in 1 .. until - (first + 1) + 1
      BY <1>1, <1>4, <2>1
    <3>2. first + 1 + (L - first) - 1 = L
      BY <1>1
    <3> HIDE DEF given, until
    <3>3. given[L - first] = all[L]
      BY <1>4, <3>1, <3>2
    <3>4. L - first # 0
      BY <1>1, <2>1
    <3> QED
      BY <3>1, <3>3, <3>4, EmptySeq
  <2> HIDE DEF until, given, last
  <2>3. drop
    <3> DEFINE k == Len(m)
    <3>1. k \in 1 .. k /\ k \in Nat /\ k - 1 \in 0 .. k
      BY <1>8, EmptySeq, LenProperties
    <3>2. /\ Len(m[k]) \in Nat /\ L = Before(m, k) /\ all[Before(m, k)] = Separator
      BY <3>1, ItemsAre DEF all
    <3> HIDE DEF k, L
    <3>3. L - Len(m[k]) - 1 - first < N
      BY <1>0, <1>1, <1>8, <3>2
    <3>4. given[Len(given)] = Separator
      BY <2>2, <3>2
    <3> QED
      BY <2>2, <3>3, <3>4 DEF k
  <2>4. Transfer!GiveItems(m, first) = SubSeq(given, 1, L - first - 1)
    BY <1>2, <2>2, <2>3
  <2> DEFINE s == SubSeq(given, 1, L - first - 1)  t == SubSeq(all, first + 1, last)
  <2>5. /\ s \in Seq(WireItem) /\ Len(s) = L - first - 1
        /\ \A i \in 1 .. L - first - 1 : s[i] = given[i]
    <3>1. 1 \in Nat \ {0} /\ L - first - 1 \in Nat /\ L - first - 1 <= Len(given)
      BY <1>1, <2>1, <2>2
    <3> DEFINE b == L - first - 1
    <3>2. /\ s \in Seq(WireItem) /\ Len(s) = IF 1 <= b THEN b - 1 + 1 ELSE 0
          /\ \A i \in 1 .. b - 1 + 1 : s[i] = given[1 + i - 1]
      <4> HIDE DEF b, L
      <4>1. s = SubSeq(given, 1, b)
        BY DEF b
      <4> HIDE DEF s
      <4> QED
        BY <1>4, <3>1, <4>1, SamePart DEF b
    <3>3. b \in Nat /\ b - 1 + 1 = b /\ \A i \in 1 .. b : 1 + i - 1 = i
      BY <3>1
    <3> HIDE DEF b, s
    <3>4. Len(s) = b /\ \A i \in 1 .. b : s[i] = given[i]
      BY <3>2, <3>3
    <3> QED
      BY <3>2, <3>4 DEF b
  <2>6. /\ t \in Seq(WireItem) /\ Len(t) = L - first - 1
        /\ \A i \in 1 .. L - first - 1 : t[i] = all[first + i]
    <3>1. /\ t \in Seq(WireItem)
          /\ Len(t) = IF first + 1 <= last THEN last - (first + 1) + 1 ELSE 0
          /\ \A i \in 1 .. last - (first + 1) + 1 : t[i] = all[first + 1 + i - 1]
      BY <1>1, <1>3, SamePart
    <3>2. last - (first + 1) + 1 = L - first - 1 /\ \A i \in 1 .. L - first - 1 : first + 1 + i - 1 = first + i
      BY <1>1, <2>1
    <3> HIDE DEF t
    <3>3. Len(t) = L - first - 1
      BY <1>1, <2>1, <3>1
    <3> QED
      BY <3>1, <3>2, <3>3
  <2>7. ASSUME NEW i \in 1 .. L - first - 1 PROVE given[i] = all[first + i]
    <3>1. i \in 1 .. until - (first + 1) + 1 /\ first + 1 + i - 1 = first + i
      BY <1>1, <2>1
    <3> QED
      BY <1>4, <3>1
  <2> HIDE DEF s, t
  <2>8. s = t
    BY <2>5, <2>6, <2>7, SeqEqual
  <2> QED
    BY <1>5, <2>4, <2>8 DEF last, n, sep, N, s, t
<1> QED
  BY <1>6, <1>7, <1>8
-----------------------------------------------------------------------------
\* Elements that are counted in a part of a sequence take as much as in the whole.
LEMMA BytesAgree ==
  ASSUME NEW x \in Seq(WireElement), NEW y \in Seq(WireElement), Len(y) <= Len(x),
         \A i \in 1 .. Len(y) : y[i] = x[i], NEW k \in 0 .. Len(y)
  PROVE  Transfer!BytesUpTo(y)[k] = Transfer!BytesUpTo(x)[k]
<1> DEFINE f == Transfer!BytesUpTo(x)  g == Transfer!BytesUpTo(y)
           Bad == {h \in 0 .. Len(y) : g[h] # f[h]}
<1>1. /\ Len(x) \in Nat /\ Len(y) \in Nat /\ f[0] = 0 /\ g[0] = 0
      /\ \A h \in 1 .. Len(x) : f[h] = f[h - 1] + Transfer!Width(x[h])
      /\ \A h \in 1 .. Len(y) : g[h] = g[h - 1] + Transfer!Width(y[h])
  BY BytesGrow, LenProperties
<1> HIDE DEF f, g
<1>2. SUFFICES ASSUME k \in Bad PROVE FALSE
  BY DEF f, g
<1>3. PICK h \in Bad : \A j \in Bad : h <= j
  <2>1. Bad \in SUBSET Nat
    BY <1>1
  <2> HIDE DEF Bad
  <2> QED
    BY <1>2, <2>1, LeastNumber
<1>4. h \in 0 .. Len(y) /\ g[h] # f[h]
  OBVIOUS
<1>5. h # 0
  BY <1>1, <1>4
<1>6. h - 1 \in 0 .. Len(y) /\ h - 1 \notin Bad
  <2> HIDE DEF Bad
  <2> QED
    BY <1>1, <1>3, <1>4, <1>5
<1>7. g[h - 1] = f[h - 1]
  BY <1>6
<1>8. h \in 1 .. Len(y) /\ h \in 1 .. Len(x) /\ y[h] = x[h]
  BY <1>1, <1>4, <1>5
<1> QED
  BY <1>1, <1>4, <1>7, <1>8

\* Every element takes some.
LEMMA BytesIncrease ==
  ASSUME NEW x \in Seq(WireElement), NEW k \in 0 .. Len(x), NEW j \in k .. Len(x)
  PROVE  Transfer!BytesUpTo(x)[k] <= Transfer!BytesUpTo(x)[j]
<1> DEFINE f == Transfer!BytesUpTo(x)
           Bad == {h \in k .. Len(x) : ~(f[k] <= f[h])}
<1>1. /\ Len(x) \in Nat /\ \A h \in 0 .. Len(x) : f[h] \in Nat
      /\ \A h \in 1 .. Len(x) : f[h] = f[h - 1] + Transfer!Width(x[h])
  BY BytesGrow, LenProperties
<1> HIDE DEF f
<1>2. SUFFICES ASSUME j \in Bad PROVE FALSE
  BY DEF f
<1>3. PICK h \in Bad : \A i \in Bad : h <= i
  <2>1. Bad \in SUBSET Nat
    BY <1>1
  <2> HIDE DEF Bad
  <2> QED
    BY <1>2, <2>1, LeastNumber
<1>4. h \in k .. Len(x) /\ ~(f[k] <= f[h]) /\ k \in Nat
  OBVIOUS
<1>5. h # k
  BY <1>1, <1>4
<1>6. h - 1 \in k .. Len(x) /\ h - 1 \notin Bad
  <2> HIDE DEF Bad
  <2> QED
    BY <1>1, <1>3, <1>4, <1>5
<1>7. f[k] <= f[h - 1]
  BY <1>6
<1>8. h \in 1 .. Len(x) /\ h - 1 \in 0 .. Len(x) /\ Transfer!Width(x[h]) \in Nat
  <2>1. h \in 1 .. Len(x) /\ h - 1 \in 0 .. Len(x)
    BY <1>1, <1>4, <1>5
  <2> QED
    BY <2>1, WidthIs, ElementOfSeq
<1>9. f[h] = f[h - 1] + Transfer!Width(x[h]) /\ f[h - 1] \in Nat /\ f[k] \in Nat
  BY <1>1, <1>8
<1> QED
  BY <1>4, <1>7, <1>8, <1>9

\* As many elements as fit: at least one, and no more when they are all there is.
LEMMA FittingIs ==
  ASSUME NEW x \in Seq(WireElement), NEW bytes \in Nat, bytes >= Wide
  PROVE  LET n == Transfer!Fitting(x, bytes) IN
         /\ n \in 0 .. Len(x) /\ Transfer!BytesUpTo(x)[n] <= bytes
         /\ n < Len(x) => Transfer!BytesUpTo(x)[n + 1] > bytes
         /\ Len(x) # 0 => n # 0
         /\ Transfer!Fitting(SubSeq(x, 1, n), bytes) = n
<1> DEFINE f == Transfer!BytesUpTo(x)
           Fits(n) == f[n] <= bytes /\ (n < Len(x) => f[n + 1] > bytes)
           n == Transfer!Fitting(x, bytes)
<1>1. /\ Len(x) \in Nat /\ f[0] = 0 /\ \A h \in 0 .. Len(x) : f[h] \in Nat
      /\ \A h \in 1 .. Len(x) : f[h] = f[h - 1] + Transfer!Width(x[h])
  BY BytesGrow, LenProperties
<1>2. n = CHOOSE k \in 0 .. Len(x) : Fits(k)
  BY DEF Transfer!Fitting
<1> HIDE DEF f, n
<1>3. \E k \in 0 .. Len(x) : Fits(k)
  <2> DEFINE Full == {k \in 0 .. Len(x) : k < Len(x) => f[k + 1] > bytes}
  <2>1. Full \in SUBSET Nat /\ Len(x) \in Full
    BY <1>1
  <2> HIDE DEF Full
  <2>2. PICK k \in Full : \A j \in Full : k <= j
    BY <2>1, LeastNumber
  <2>3. k \in 0 .. Len(x) /\ (k < Len(x) => f[k + 1] > bytes)
    BY DEF Full
  <2>4. f[k] <= bytes
    <3>1. CASE k = 0
      BY <1>1, <3>1
    <3>2. CASE k # 0
      <4>1. k - 1 \notin Full /\ k - 1 \in 0 .. Len(x)
        BY <1>1, <2>2, <2>3, <3>2
      <4>2. ~(f[k - 1 + 1] > bytes) /\ k - 1 + 1 = k
        BY <2>3, <4>1 DEF Full
      <4>3. f[k] \in Nat
        BY <1>1, <2>3
      <4> QED
        BY <4>2, <4>3
    <3> QED
      BY <3>1, <3>2
  <2> QED
    BY <2>3, <2>4
<1>4. n \in 0 .. Len(x) /\ Fits(n)
  <2> HIDE DEF Fits
  <2> QED
    BY <1>2, <1>3
<1>5. Len(x) # 0 => n # 0
  <2> SUFFICES ASSUME Len(x) # 0, n = 0 PROVE FALSE
    OBVIOUS
  <2>1. 1 \in 1 .. Len(x) /\ 1 - 1 = 0 /\ 0 + 1 = 1
    BY <1>1
  <2>2. x[1] \in WireElement
    BY <2>1, ElementOfSeq
  <2>3. Transfer!Width(x[1]) \in Nat /\ Transfer!Width(x[1]) <= Wide
    BY <2>2, WidthIs
  <2>4. f[1] = f[0] + Transfer!Width(x[1])
    BY <1>1, <2>1
  <2>5. f[1] > bytes
    BY <1>1, <1>4, <2>1
  <2>6. Wide \in Nat
    BY TransferAssumption DEF Transfer!SizesAssumption
  <2> QED
    BY <1>1, <2>3, <2>4, <2>5, <2>6
<1> DEFINE y == SubSeq(x, 1, n)  g == Transfer!BytesUpTo(y)
<1>6. y \in Seq(WireElement) /\ Len(y) = n /\ \A i \in 1 .. n : y[i] = x[i]
  <2>1. n \in Nat /\ n <= Len(x) /\ 1 \in Nat \ {0}
    BY <1>1, <1>4
  <2>2. /\ y \in Seq(WireElement) /\ Len(y) = IF 1 <= n THEN n - 1 + 1 ELSE 0
        /\ \A i \in 1 .. n - 1 + 1 : y[i] = x[1 + i - 1]
    BY <2>1, SamePart
  <2> HIDE DEF y
  <2>3. n - 1 + 1 = n /\ \A i \in 1 .. n : 1 + i - 1 = i
    BY <2>1
  <2> QED
    BY <2>1, <2>2, <2>3
<1> HIDE DEF y
<1>7. \A k \in 0 .. n : g[k] = f[k]
  <2>1. Len(y) <= Len(x) /\ \A i \in 1 .. Len(y) : y[i] = x[i]
    BY <1>1, <1>4, <1>6
  <2> QED
    BY <1>6, <2>1, BytesAgree DEF f
<1>8. Transfer!Fitting(y, bytes) = CHOOSE k \in 0 .. Len(y) : g[k] <= bytes /\ (k < Len(y) => g[k + 1] > bytes)
  BY DEF Transfer!Fitting
<1> HIDE DEF g
<1>9. n \in 0 .. Len(y) /\ g[n] <= bytes /\ ~(n < Len(y))
  BY <1>1, <1>4, <1>6, <1>7
<1>10. ASSUME NEW k \in 0 .. Len(y), g[k] <= bytes, k < Len(y) => g[k + 1] > bytes
       PROVE  k = n
  <2> SUFFICES ASSUME k # n PROVE FALSE
    OBVIOUS
  <2>1. k < n /\ k + 1 \in 0 .. n /\ k + 1 \in 0 .. Len(x) /\ n \in k + 1 .. Len(x)
    BY <1>1, <1>4, <1>6
  <2>2. g[k + 1] > bytes /\ g[k + 1] = f[k + 1]
    BY <1>6, <1>7, <1>10, <2>1
  <2>3. f[k + 1] <= f[n]
    BY <2>1, BytesIncrease DEF f
  <2>4. f[k + 1] \in Nat /\ f[n] \in Nat
    BY <1>1, <1>4, <2>1
  <2> QED
    BY <1>4, <2>2, <2>3, <2>4
<1>11. Transfer!Fitting(y, bytes) = n
  BY <1>8, <1>9, <1>10
<1> QED
  BY <1>4, <1>5, <1>11 DEF f, n, y
-----------------------------------------------------------------------------
LEMMA PartIs ==
  ASSUME NEW S, NEW s \in Seq(S), NEW a \in Nat \ {0}, NEW b \in Nat, b <= Len(s)
  PROVE  /\ SubSeq(s, a, b) \in Seq(S) /\ Len(SubSeq(s, a, b)) = IF a <= b THEN b - a + 1 ELSE 0
         /\ \A i \in 1 .. b - a + 1 : SubSeq(s, a, b)[i] = s[a + i - 1]
BY SamePart

\* What is left of a sequence when its first p elements have gone, and n more do.
LEMMA RestOf ==
  ASSUME NEW S, NEW s \in Seq(S), NEW p \in Nat, NEW n \in Nat, p + n <= Len(s),
         NEW rested, rested = SubSeq(s, p + 1, Len(s))
  PROVE  /\ rested \in Seq(S) /\ Len(rested) = Len(s) - p
         /\ SubSeq(rested, 1, n) = SubSeq(s, p + 1, p + n)
         /\ SubSeq(rested, n + 1, Len(rested)) = SubSeq(s, p + n + 1, Len(s))
         /\ SubSeq(s, p + 1, p + n) \in Seq(S) /\ Len(SubSeq(s, p + 1, p + n)) = n
         /\ SubSeq(SubSeq(rested, 1, n), 1, n) = SubSeq(rested, 1, n)
<1> DEFINE L == Len(s)
           r == SubSeq(s, p + 1, L)
           a == SubSeq(r, 1, n)  a1 == SubSeq(s, p + 1, p + n)  aa == SubSeq(a, 1, n)
           b == SubSeq(r, n + 1, Len(r))  b1 == SubSeq(s, p + n + 1, L)
<1>1. /\ L \in Nat /\ p + 1 \in Nat \ {0} /\ p + n \in Nat /\ p + n <= L /\ p + n + 1 \in Nat \ {0}
      /\ 1 \in Nat \ {0} /\ n + 1 \in Nat \ {0} /\ p <= L
      /\ L - (p + 1) + 1 = L - p /\ p + n - (p + 1) + 1 = n /\ L - (p + n + 1) + 1 = L - (p + n)
      /\ n - 1 + 1 = n /\ L - p - (n + 1) + 1 = L - (p + n)
      /\ L - p \in Nat /\ n <= L - p /\ L - (p + n) \in Nat
  <2>1. L \in Nat
    BY LenProperties
  <2> HIDE DEF L
  <2>2. p + n <= L
    BY DEF L
  <2> QED
    BY <2>1, <2>2
<1> HIDE DEF L
<1>2. /\ r \in Seq(S) /\ Len(r) = L - p /\ \A i \in 1 .. L - p : r[i] = s[p + i]
  <2>1. /\ r \in Seq(S) /\ Len(r) = IF p + 1 <= L THEN L - (p + 1) + 1 ELSE 0
        /\ \A i \in 1 .. L - (p + 1) + 1 : r[i] = s[p + 1 + i - 1]
    BY <1>1, PartIs DEF L
  <2> HIDE DEF r
  <2>2. \A i \in 1 .. L - p : p + 1 + i - 1 = p + i
    BY <1>1
  <2>3. Len(r) = L - p
    BY <1>1, <2>1
  <2> QED
    BY <1>1, <2>1, <2>2, <2>3
<1> HIDE DEF r
<1>3. /\ a \in Seq(S) /\ Len(a) = n /\ \A i \in 1 .. n : a[i] = r[i]
  <2>1. /\ a \in Seq(S) /\ Len(a) = IF 1 <= n THEN n - 1 + 1 ELSE 0
        /\ \A i \in 1 .. n - 1 + 1 : a[i] = r[1 + i - 1]
    BY <1>1, <1>2, PartIs
  <2> HIDE DEF a
  <2>2. \A i \in 1 .. n : 1 + i - 1 = i
    BY <1>1
  <2>3. Len(a) = n
    BY <1>1, <2>1
  <2> QED
    BY <1>1, <2>1, <2>2, <2>3
<1>4. /\ a1 \in Seq(S) /\ Len(a1) = n /\ \A i \in 1 .. n : a1[i] = s[p + i]
  <2>1. /\ a1 \in Seq(S) /\ Len(a1) = IF p + 1 <= p + n THEN p + n - (p + 1) + 1 ELSE 0
        /\ \A i \in 1 .. p + n - (p + 1) + 1 : a1[i] = s[p + 1 + i - 1]
    BY <1>1, PartIs DEF L
  <2> HIDE DEF a1
  <2>2. \A i \in 1 .. n : p + 1 + i - 1 = p + i
    BY <1>1
  <2>3. Len(a1) = n
    BY <1>1, <2>1
  <2> QED
    BY <1>1, <2>1, <2>2, <2>3
<1>5. /\ b \in Seq(S) /\ Len(b) = L - (p + n) /\ \A i \in 1 .. L - (p + n) : b[i] = r[n + i]
  <2>1. /\ b \in Seq(S) /\ Len(b) = IF n + 1 <= L - p THEN L - p - (n + 1) + 1 ELSE 0
        /\ \A i \in 1 .. L - p - (n + 1) + 1 : b[i] = r[n + 1 + i - 1]
    BY <1>1, <1>2, PartIs
  <2> HIDE DEF b
  <2>2. \A i \in 1 .. L - (p + n) : n + 1 + i - 1 = n + i
    BY <1>1
  <2>3. Len(b) = L - (p + n)
    BY <1>1, <2>1
  <2> QED
    BY <1>1, <2>1, <2>2, <2>3
<1>6. /\ b1 \in Seq(S) /\ Len(b1) = L - (p + n) /\ \A i \in 1 .. L - (p + n) : b1[i] = s[p + n + i]
  <2>1. /\ b1 \in Seq(S) /\ Len(b1) = IF p + n + 1 <= L THEN L - (p + n + 1) + 1 ELSE 0
        /\ \A i \in 1 .. L - (p + n + 1) + 1 : b1[i] = s[p + n + 1 + i - 1]
    <3> DEFINE c == p + n + 1
    <3>1. c \in Nat \ {0} /\ L \in Nat /\ L <= Len(s)
      BY <1>1 DEF L
    <3> HIDE DEF c, L
    <3>2. /\ SubSeq(s, c, L) \in Seq(S) /\ Len(SubSeq(s, c, L)) = IF c <= L THEN L - c + 1 ELSE 0
          /\ \A i \in 1 .. L - c + 1 : SubSeq(s, c, L)[i] = s[c + i - 1]
      BY ONLY <3>1, s \in Seq(S), PartIs
    <3> QED
      BY <3>2 DEF c
  <2> HIDE DEF b1
  <2>2. \A i \in 1 .. L - (p + n) : p + n + 1 + i - 1 = p + n + i
    BY <1>1
  <2>3. Len(b1) = L - (p + n)
    BY <1>1, <2>1
  <2> QED
    BY <1>1, <2>1, <2>2, <2>3
<1> HIDE DEF a, a1, b, b1
<1>7. a = a1
  <2>1. \A i \in 1 .. n : i \in 1 .. L - p
    BY <1>1
  <2> QED
    BY <1>2, <1>3, <1>4, <2>1, SeqEqual
<1>8. b = b1
  <2>1. ASSUME NEW i \in 1 .. L - (p + n) PROVE b[i] = b1[i]
    <3>1. n + i \in 1 .. L - p /\ p + (n + i) = p + n + i
      BY <1>1
    <3> QED
      BY <1>2, <1>5, <1>6, <3>1
  <2> QED
    BY <1>5, <1>6, <2>1, SeqEqual
<1>9. aa = a
  <2>1. /\ aa \in Seq(S) /\ Len(aa) = IF 1 <= n THEN n - 1 + 1 ELSE 0
        /\ \A i \in 1 .. n - 1 + 1 : aa[i] = a[1 + i - 1]
    BY <1>1, <1>3, PartIs
  <2> HIDE DEF aa
  <2>2. \A i \in 1 .. n : 1 + i - 1 = i
    BY <1>1
  <2>3. Len(aa) = n
    BY <1>1, <2>1
  <2>4. \A i \in 1 .. n : aa[i] = a[i]
    BY <1>1, <2>1, <2>2
  <2> QED
    BY <1>3, <2>1, <2>3, <2>4, SeqEqual
<1> QED
  BY <1>1, <1>2, <1>4, <1>7, <1>8, <1>9 DEF r, a, a1, b, b1, L

\* What is left to send when the first p have gone.
Left(left, s, p) == left = SubSeq(s, p + 1, Len(s))

\* A request takes a macro further and leaves the rest of it to send.
LEMMA SendsItems ==
  ASSUME NEW m \in Seq(Seq(Usable)), NEW p \in Nat, NEW got, Came(m, p, got), NEW left,
         Left(left, Transfer!Separated(m), p), NEW n \in Nat \ {0}, n <= Len(left)
  PROVE  /\ p + n \in Nat /\ Came(m, p + n, Transfer!AddChunk(got, SubSeq(left, 1, n)))
         /\ Left(SubSeq(left, n + 1, Len(left)), Transfer!Separated(m), p + n)
<1> DEFINE sep == Transfer!Separated(m)
<1>1. sep \in Seq(WireItem) /\ Len(sep) \in Nat /\ p \in Nat /\ p + 0 <= Len(sep) /\ 0 \in Nat
  BY SeparatedIs DEF Came
<1> HIDE DEF sep
<1>2. left = SubSeq(sep, p + 1, Len(sep))
  BY DEF sep, Left
<1>3. left \in Seq(WireItem) /\ Len(left) = Len(sep) - p
  BY ONLY <1>1, <1>2, RestOf
<1>5. n \in Nat /\ p + n \in Nat /\ p + n <= Len(sep) /\ p < p + n
  BY <1>1, <1>3
<1>6. /\ SubSeq(left, 1, n) = SubSeq(sep, p + 1, p + n)
      /\ SubSeq(left, n + 1, Len(left)) = SubSeq(sep, p + n + 1, Len(sep))
  BY ONLY <1>1, <1>2, <1>5, RestOf
<1>7. Came(m, p + n, Transfer!AddChunk(got, SubSeq(sep, p + 1, p + n)))
  BY <1>1, <1>5, ChunkComes DEF sep
<1> QED
  BY <1>5, <1>6, <1>7 DEF sep, Left

\* How much goes into a request: something, and no more than there is.
LEMMA SomeGoes ==
  ASSUME NEW S, NEW left \in Seq(S), left # << >>
  PROVE  LET n == IF Len(left) < MACRO_ITEMS_IN_PACKET THEN Len(left) ELSE MACRO_ITEMS_IN_PACKET
         IN n \in Nat \ {0} /\ n <= Len(left)
<1>1. Len(left) \in Nat \ {0}
  BY EmptySeq
<1>2. MACRO_ITEMS_IN_PACKET \in Nat \ {0}
  BY TransferAssumption DEF Transfer!SizesAssumption
<1> QED
  BY <1>1, <1>2

\* A full chunk takes the macro that is read further, a chunk that is not full completes it.
LEMMA ReadsItems ==
  ASSUME NEW m \in Seq(Seq(Usable)), NEW p \in Nat, NEW got, Came(m, p, got), NEW items, NEW read,
         items = Transfer!GiveItems(m, p),
         read = IF got = << >> /\ items = << >> THEN got ELSE Transfer!AddChunk(got, items)
  PROVE  /\ Len(items) = MACRO_ITEMS_IN_PACKET => Came(m, p + MACRO_ITEMS_IN_PACKET, read)
         /\ Len(items) # MACRO_ITEMS_IN_PACKET => read = Transfer!Same(m)
<1> DEFINE sep == Transfer!Separated(m)  N == MACRO_ITEMS_IN_PACKET
           last == IF p + N < Len(sep) THEN p + N ELSE Len(sep)
<1>0. N \in Nat /\ N >= 1
  BY TransferAssumption DEF Transfer!SizesAssumption
<1>1. sep \in Seq(WireItem) /\ Len(sep) \in Nat /\ p \in Nat /\ p <= Len(sep)
  BY SeparatedIs DEF Came
<1>2. items = SubSeq(sep, p + 1, last)
  BY <1>1, ItemsGiven
<1> HIDE DEF sep, N
<1>3. last \in Nat /\ last <= Len(sep) /\ p <= last
  BY <1>0, <1>1
<1>4. items \in Seq(WireItem) /\ Len(items) = last - p
  <2> DEFINE k == last - p
  <2>1. k \in Nat /\ p + k = last
    BY <1>1, <1>3
  <2> HIDE DEF last, k
  <2>2. items = SubSeq(sep, p + 1, p + k) /\ p + k <= Len(sep)
    BY <1>2, <1>3, <2>1
  <2>3. items \in Seq(WireItem) /\ Len(items) = k
    BY <1>1, <2>1, <2>2, RestOf
  <2> QED
    BY <2>3 DEF k
<1>5. Came(m, last, read)
  <2>1. CASE p = last
    <3>1. items = << >>
      BY <1>1, <1>4, <2>1, EmptySeq
    <3>2. read = got
      <4>1. CASE got = << >>
        BY <3>1, <4>1
      <4>2. CASE got # << >>
        <5>1. Gathers(m, p, got)
          BY <4>2 DEF Came
        <5>2. got \in Seq(Seq(Usable))
          BY <5>1 DEF Gathers
        <5>3. Len(items) = 0 /\ items \in Seq(WireItem)
          BY <1>4, <3>1, EmptySeq
        <5>4. PICK added \in [0 .. Len(items) -> Seq(Seq(Usable)) \ {<< >>}] :
                /\ added[0] = IF got = << >> THEN << << >> >> ELSE got
                /\ \A k \in 1 .. Len(items) :
                     added[k] = Transfer!AddItem(added[k - 1], items[k])
                /\ Transfer!AddChunk(got, items) = added[Len(items)]
          BY ONLY <5>2, <5>3, ChunkAdds
        <5>5. Transfer!AddChunk(got, items) = got
          BY <4>2, <5>3, <5>4
        <5> QED
          BY <4>2, <5>5
      <4> QED
        BY <4>1, <4>2
    <3> QED
      BY <2>1, <3>2
  <2>2. CASE p # last
    <3>1. p < last /\ items # << >>
      BY <1>1, <1>3, <1>4, <2>2, EmptySeq
    <3> HIDE DEF last
    <3>2. Came(m, last, Transfer!AddChunk(got, SubSeq(sep, p + 1, last)))
      BY <1>1, <1>3, <3>1, ChunkComes DEF sep
    <3> QED
      BY <1>2, <3>1, <3>2
  <2> QED
    BY <2>1, <2>2
<1>6. CASE Len(items) = N
  <2>1. last = p + N
    <3> HIDE DEF last
    <3> QED
      BY <1>0, <1>1, <1>3, <1>4, <1>6
  <2> QED
    BY <1>5, <1>6, <2>1 DEF N
<1>7. CASE Len(items) # N
  <2>1. last = Len(sep)
    BY <1>0, <1>1, <1>4, <1>7
  <2>2. read = Transfer!Same(m)
    BY <1>5, <2>1, AllCame DEF sep
  <2> QED
    BY <1>7, <2>2 DEF N
<1> QED
  BY <1>6, <1>7
LEMMA Joined ==
  ASSUME NEW S, NEW s \in Seq(S), NEW p \in Nat, NEW n \in Nat, p + n <= Len(s)
  PROVE  SubSeq(s, 1, p) \o SubSeq(s, p + 1, p + n) = SubSeq(s, 1, p + n)
<1>1. p + 1 \in Nat /\ p + n \in Nat /\ 1 \in Nat \ {0}
  OBVIOUS
<1> QED
  BY <1>1, ConcatAdjacentSubSeq

\* A request takes an expression further: the packet holds whole elements, and all of them are read.
LEMMA SendsElements ==
  ASSUME NEW x \in Seq(WireElement), NEW p \in 0 .. Len(x), NEW left,
         Left(left, x, p), NEW n, n = Transfer!Fitting(left, SendBytes)
  PROVE  /\ p + n \in 0 .. Len(x)
         /\ Transfer!TakeElements(SubSeq(x, 1, p), SubSeq(left, 1, n)) = SubSeq(x, 1, p + n)
         /\ Left(SubSeq(left, n + 1, Len(left)), x, p + n)
<1>0. left = SubSeq(x, p + 1, Len(x))
  BY DEF Left
<1>1. Len(x) \in Nat /\ p \in Nat /\ p + 0 <= Len(x) /\ 0 \in Nat
  BY LenProperties
<1>2. left \in Seq(WireElement) /\ Len(left) = Len(x) - p
  BY ONLY <1>1, x \in Seq(WireElement), <1>0, RestOf
<1>3. SendBytes \in Nat /\ SendBytes >= Wide
  BY TransferAssumption DEF Transfer!SizesAssumption
<1>4. n \in 0 .. Len(left) /\ Transfer!Fitting(SubSeq(left, 1, n), SendBytes) = n
  BY <1>2, <1>3, FittingIs
<1>5. n \in Nat /\ p + n <= Len(x) /\ p + n \in 0 .. Len(x)
  BY <1>1, <1>2, <1>4
<1>6. /\ SubSeq(left, 1, n) = SubSeq(x, p + 1, p + n)
      /\ SubSeq(left, n + 1, Len(left)) = SubSeq(x, p + n + 1, Len(x))
      /\ SubSeq(SubSeq(left, 1, n), 1, n) = SubSeq(left, 1, n)
  BY ONLY <1>1, <1>5, x \in Seq(WireElement), <1>0, RestOf
<1>7. Transfer!TakeElements(SubSeq(x, 1, p), SubSeq(left, 1, n))
        = SubSeq(x, 1, p) \o SubSeq(x, p + 1, p + n)
  BY <1>4, <1>6 DEF Transfer!TakeElements
<1>8. SubSeq(x, 1, p) \o SubSeq(x, p + 1, p + n) = SubSeq(x, 1, p + n)
  BY <1>1, <1>5, Joined
<1> QED
  BY <1>5, <1>6, <1>7, <1>8 DEF Left

\* A chunk takes the expression that is read further, and an empty one comes at its end only.
LEMMA ReadsElements ==
  ASSUME NEW x \in Seq(WireElement), NEW p \in 0 .. Len(x), NEW elems,
         elems = Transfer!GiveElements(x, p)
  PROVE  /\ elems # << >> => /\ p + Len(elems) \in 0 .. Len(x)
                             /\ SubSeq(x, 1, p) \o elems = SubSeq(x, 1, p + Len(elems))
         /\ elems = << >> => p = Len(x) /\ SubSeq(x, 1, p) = x
<1> DEFINE wanted == SubSeq(x, p + 1, Len(x))
           n == Transfer!Fitting(wanted, ReplyBytes)
<1>1. Len(x) \in Nat /\ p \in Nat /\ p + 0 <= Len(x) /\ 0 \in Nat
  BY LenProperties
<1>2. wanted \in Seq(WireElement) /\ Len(wanted) = Len(x) - p
  BY ONLY <1>1, x \in Seq(WireElement), RestOf
<1>3. ReplyBytes \in Nat /\ ReplyBytes >= Wide
  BY TransferAssumption DEF Transfer!SizesAssumption
<1>4. elems = SubSeq(wanted, 1, n)
  BY DEF Transfer!GiveElements
<1> HIDE DEF wanted
<1>5. n \in 0 .. Len(wanted) /\ (Len(wanted) # 0 => n # 0)
  BY <1>2, <1>3, FittingIs
<1> HIDE DEF n
<1>6. n \in Nat /\ p + n <= Len(x) /\ p + n \in 0 .. Len(x)
  BY <1>1, <1>2, <1>5
<1>7. wanted = SubSeq(x, p + 1, Len(x))
  BY DEF wanted
<1>8. /\ elems = SubSeq(x, p + 1, p + n) /\ elems \in Seq(WireElement) /\ Len(elems) = n
  BY ONLY <1>1, <1>4, <1>6, <1>7, x \in Seq(WireElement), RestOf
<1>9. SubSeq(x, 1, p) \o elems = SubSeq(x, 1, p + n)
  BY <1>1, <1>6, <1>8, Joined
<1>10. ASSUME elems = << >> PROVE p = Len(x)
  <2>1. n = 0
    BY <1>8, <1>10, EmptySeq
  <2> QED
    BY <1>1, <1>2, <1>5, <2>1
<1>11. SubSeq(x, 1, Len(x)) = x
  BY SubSeqFull
<1> QED
  BY <1>6, <1>8, <1>9, <1>10, <1>11
-----------------------------------------------------------------------------
(* The transfer: what has been sent and read at each of its stages.        *)

Contents == [macros : [Transfer!MacroIds -> Seq(Seq(Usable))],
             expressions : [Transfer!ExpressionIds -> Seq(WireElement)]]

\* What the wire brings of the macros.
SentMacros == [m \in Transfer!MacroIds |-> Transfer!Same(sent.macros[m])]

\* Of n, the ones before the i-th are done and nothing has come of the ones behind it.
Partway(n, whole, got, i) ==
  /\ i \in 1 .. n
  /\ \A j \in 1 .. i - 1 : got[j] = whole[j]
  /\ \A j \in i + 1 .. n : got[j] = << >>

SendingMacros ==
  /\ Partway(NMACROS, SentMacros, stored.macros, index)
  /\ LET separated == Transfer!Separated(sent.macros[index]) IN
       \E p \in Nat : /\ Came(sent.macros[index], p, stored.macros[index])
                      /\ Left(rest, separated, p)

SendingExpressions ==
  /\ Partway(NEXPRESSIONS, sent.expressions, stored.expressions, index)
  /\ LET x == sent.expressions[index] IN
       \E p \in 0 .. Len(x) : /\ stored.expressions[index] = SubSeq(x, 1, p)
                              /\ Left(rest, x, p)

ReadingMacros ==
  /\ Partway(NMACROS, SentMacros, result.macros, index)
  /\ Came(stored.macros[index], offset, result.macros[index])

ReadingExpressions ==
  /\ Partway(NEXPRESSIONS, sent.expressions, result.expressions, index)
  /\ offset \in 0 .. Len(stored.expressions[index])
  /\ result.expressions[index] = SubSeq(stored.expressions[index], 1, offset)

\* What has been sent and read at each stage of the transfer.
TransferInv ==
  /\ sent \in Contents /\ stored \in Contents /\ result \in Contents
  /\ \/ stage = "clear macros" /\ result = Transfer!Nothing
     \/ stage = "send macros" /\ SendingMacros /\ result = Transfer!Nothing
     \/ /\ stage = "clear expressions" /\ index = 1
        /\ stored.macros = SentMacros /\ result = Transfer!Nothing
     \/ /\ stage = "send expressions" /\ SendingExpressions
        /\ stored.macros = SentMacros /\ result = Transfer!Nothing
     \/ /\ stage = "get macros" /\ ReadingMacros
        /\ stored = [macros |-> SentMacros, expressions |-> sent.expressions]
        /\ result.expressions = Transfer!Nothing.expressions
     \/ /\ stage = "get expressions" /\ ReadingExpressions
        /\ stored = [macros |-> SentMacros, expressions |-> sent.expressions]
        /\ result.macros = SentMacros
     \/ stage = "done" /\ result = [macros |-> SentMacros, expressions |-> sent.expressions]

LEMMA PartwayBegins ==
  ASSUME NEW n \in Nat \ {0}, NEW whole, NEW got, \A j \in 1 .. n : got[j] = << >>
  PROVE  Partway(n, whole, got, 1)
BY DEF Partway

\* More of the one under way has come; it is complete and the next begins; the last is complete.
LEMMA PartwayGrows ==
  ASSUME NEW n, NEW whole, NEW got, NEW now, NEW i, Partway(n, whole, got, i), n \in Nat,
         \A j \in 1 .. n : j # i => now[j] = got[j]
  PROVE  Partway(n, whole, now, i)
BY DEF Partway

LEMMA PartwayNext ==
  ASSUME NEW n \in Nat, NEW whole, NEW got, NEW i \in Nat,
         Partway(n, whole, got, i), got[i] = whole[i], i < n
  PROVE  i + 1 \in 1 .. n /\ Partway(n, whole, got, i + 1) /\ got[i + 1] = << >>
BY DEF Partway

LEMMA PartwayEnds ==
  ASSUME NEW n \in Nat, NEW S, NEW whole \in [1 .. n -> S], NEW got \in [1 .. n -> S],
         Partway(n, whole, got, n), got[n] = whole[n]
  PROVE  got = whole
<1>1. \A j \in 1 .. n : got[j] = whole[j]
  BY DEF Partway
<1> QED
  BY <1>1

LEMMA SizesAre ==
  /\ NMACROS \in Nat \ {0} /\ NEXPRESSIONS \in Nat \ {0}
  /\ 1 \in Transfer!MacroIds /\ 1 \in Transfer!ExpressionIds
  /\ Transfer!MacroIds = 1 .. NMACROS /\ Transfer!ExpressionIds = 1 .. NEXPRESSIONS
  /\ << >> \in Seq(Seq(Usable)) /\ << >> \in Seq(WireElement)
  /\ Transfer!Nothing \in Contents
BY TransferAssumption DEF Transfer!SizesAssumption, Transfer!MacroIds, Transfer!ExpressionIds,
     Transfer!Nothing, Contents

LEMMA SameOnce ==
  ASSUME NEW m \in Seq(Seq(Usable))
  PROVE  /\ Transfer!Same(m) \in Seq(Seq(Usable))
         /\ Transfer!Same(Transfer!Same(m)) = Transfer!Same(m)
BY SizesAre DEF Transfer!Same

LEMMA SentMacrosAre ==
  ASSUME sent \in Contents
  PROVE  SentMacros \in [1 .. NMACROS -> Seq(Seq(Usable))]
<1>1. \A m \in Transfer!MacroIds : sent.macros[m] \in Seq(Seq(Usable))
  BY DEF Contents
<1>2. \A m \in Transfer!MacroIds : Transfer!Same(sent.macros[m]) \in Seq(Seq(Usable))
  BY <1>1, SameOnce
<1> QED
  BY <1>2, SizesAre DEF SentMacros

\* Nothing of a macro has come, and all of it is to go.
LEMMA CameBegins ==
  ASSUME NEW m \in Seq(Seq(Usable))
  PROVE  Came(m, 0, << >>) /\ Left(Transfer!Separated(m), Transfer!Separated(m), 0)
BY SeparatedIs, SubSeqFull DEF Came, Left

LEMMA CameIs ==
  ASSUME NEW m \in Seq(Seq(Usable)), NEW p, NEW got, Came(m, p, got)
  PROVE  p \in Nat /\ p <= Len(Transfer!Separated(m)) /\ got \in Seq(Seq(Usable))
<1>1. Len(Transfer!Separated(m)) \in Nat
  BY SeparatedIs
<1>2. p \in 0 .. Len(Transfer!Separated(m)) /\ (got = << >> \/ Gathers(m, p, got))
  BY DEF Came
<1>3. got \in Seq(Seq(Usable))
  BY <1>2, SizesAre DEF Gathers
<1> QED
  BY <1>1, <1>2, <1>3
\* Nothing of an expression has come, and all of it is to go.
LEMMA ElementsBegin ==
  ASSUME NEW x \in Seq(WireElement)
  PROVE  0 \in 0 .. Len(x) /\ << >> = SubSeq(x, 1, 0) /\ Left(x, x, 0)
<1>1. Len(x) \in Nat
  BY LenProperties
<1>2. x = SubSeq(x, 1, Len(x))
  BY SubSeqFull
<1>3. << >> = SubSeq(x, 1, 0)
  BY SubSeqEmpty
<1> QED
  BY <1>1, <1>2, <1>3 DEF Left

\* The first elements of an expression are an expression.
LEMMA PrefixIs ==
  ASSUME NEW x \in Seq(WireElement), NEW p \in 0 .. Len(x)
  PROVE  SubSeq(x, 1, p) \in Seq(WireElement)
<1>1. 1 \in Nat \ {0} /\ p \in Nat /\ p <= Len(x)
  BY LenProperties
<1> QED
  BY <1>1, PartIs

LEMMA TransferBegins ==
  ASSUME PagesInit
  PROVE  TransferInv
<1>1. Transfer!Init
  BY DEF PagesInit
<1>2. /\ sent \in [macros : [Transfer!MacroIds -> SomeMacros],
                   expressions : [Transfer!ExpressionIds -> SomeExpressions]]
      /\ stored = [macros |-> [m \in Transfer!MacroIds |-> OldMacro],
                   expressions |-> [e \in Transfer!ExpressionIds |-> OldExpression]]
      /\ result = Transfer!Nothing /\ stage = "clear macros"
  BY <1>1 DEF Transfer!Init
<1>3. /\ \A m \in SomeMacros \cup {OldMacro} : m \in Seq(Seq(Usable))
      /\ \A x \in SomeExpressions \cup {OldExpression} : x \in Seq(WireElement)
  BY TransferAssumption DEF Transfer!ContentsAssumption, Usable, WireElement
<1>4. sent \in Contents /\ stored \in Contents
  BY <1>2, <1>3 DEF Contents
<1> QED
  BY <1>2, <1>4, SizesAre DEF TransferInv

LEMMA ClearMacrosKeeps ==
  ASSUME TransferInv, Transfer!ClearMacros
  PROVE  TransferInv'
<1>1. /\ sent \in Contents /\ stored \in Contents /\ result = Transfer!Nothing
      /\ result' = result /\ sent' = sent
      /\ stored' = [stored EXCEPT !.macros = [m \in Transfer!MacroIds |-> << >>]]
      /\ stage' = "send macros" /\ index' = 1 /\ rest' = Transfer!Separated(sent.macros[1])
  BY DEF TransferInv, Transfer!ClearMacros
<1>2. /\ stored' \in Contents /\ sent.macros[1] \in Seq(Seq(Usable))
      /\ \A m \in 1 .. NMACROS : stored'.macros[m] = << >>
  BY <1>1, SizesAre DEF Contents
<1>3. Partway(NMACROS, SentMacros, stored.macros, index)'
  BY <1>1, <1>2, SizesAre, PartwayBegins
<1>4. SendingMacros'
  <2>1. stored'.macros[1] = << >>
    BY <1>2, SizesAre
  <2>2. 0 \in Nat
    OBVIOUS
  <2> QED
    BY <1>1, <1>2, <1>3, <2>1, <2>2, CameBegins DEF SendingMacros
<1> QED
  BY <1>1, <1>2, <1>4 DEF TransferInv

LEMMA AppendToMacroKeeps ==
  ASSUME TransferInv, Transfer!AppendToMacro
  PROVE  TransferInv'
<1> DEFINE n == IF Len(rest) < MACRO_ITEMS_IN_PACKET THEN Len(rest) ELSE MACRO_ITEMS_IN_PACKET
           got == Transfer!AddChunk(stored.macros[index], SubSeq(rest, 1, n))
           m == sent.macros[index]
<1>1. /\ sent \in Contents /\ stored \in Contents /\ result \in Contents
      /\ result = Transfer!Nothing /\ SendingMacros
      /\ UNCHANGED <<sent, result, stage, index>>
      /\ stage = "send macros" /\ rest # << >>
      /\ stored' = [stored EXCEPT !.macros[index] = got]
      /\ rest' = SubSeq(rest, n + 1, Len(rest))
  BY DEF TransferInv, Transfer!AppendToMacro
<1>2. index \in Transfer!MacroIds /\ m \in Seq(Seq(Usable))
  BY <1>1, SizesAre DEF SendingMacros, Partway, Contents
<1> HIDE DEF m, n
<1>3. PICK p \in Nat : /\ Came(m, p, stored.macros[index])
                       /\ Left(rest, Transfer!Separated(m), p)
  BY <1>1 DEF SendingMacros, m
<1>4. p + n \in Nat /\ Came(m, p + n, got) /\ Left(rest', Transfer!Separated(m), p + n)
  <2> DEFINE sep == Transfer!Separated(m)
  <2>1. /\ sep \in Seq(WireItem) /\ p \in Nat /\ 0 \in Nat /\ p + 0 <= Len(sep)
        /\ rest = SubSeq(sep, p + 1, Len(sep))
    BY <1>2, <1>3, CameIs, SeparatedIs DEF Left
  <2> HIDE DEF sep
  <2>2. rest \in Seq(WireItem)
    BY ONLY <2>1, RestOf
  <2>3. n \in Nat \ {0} /\ n <= Len(rest)
    BY <1>1, <2>2, SomeGoes DEF n
  <2>4. /\ p + n \in Nat
        /\ Came(m, p + n, Transfer!AddChunk(stored.macros[index], SubSeq(rest, 1, n)))
        /\ Left(SubSeq(rest, n + 1, Len(rest)), Transfer!Separated(m), p + n)
    BY <1>2, <1>3, <2>3, SendsItems
  <2> QED
    BY <1>1, <2>4
<1> HIDE DEF got
<1>5. got \in Seq(Seq(Usable))
  BY <1>2, <1>4, CameIs
<1>6. /\ stored' \in Contents /\ stored'.macros[index] = got
      /\ \A j \in 1 .. NMACROS : j # index => stored'.macros[j] = stored.macros[j]
  BY <1>1, <1>2, <1>5, SizesAre DEF Contents
<1>7. Partway(NMACROS, SentMacros, stored'.macros, index)
  BY <1>1, <1>6, SizesAre, PartwayGrows DEF SendingMacros
<1>8. SentMacros' = SentMacros
  BY <1>1 DEF SentMacros, Transfer!Same
<1>9. SendingMacros'
  BY <1>1, <1>4, <1>6, <1>7, <1>8 DEF SendingMacros, m
<1> QED
  BY <1>1, <1>6, <1>9 DEF TransferInv

LEMMA NextMacroKeeps ==
  ASSUME TransferInv, Transfer!NextMacro
  PROVE  TransferInv'
<1>1. /\ sent \in Contents /\ stored \in Contents /\ result \in Contents
      /\ result = Transfer!Nothing /\ SendingMacros
      /\ UNCHANGED <<sent, stored, result>>
      /\ stage = "send macros" /\ rest = << >>
  BY DEF TransferInv, Transfer!NextMacro
<1>2. /\ index \in 1 .. NMACROS /\ sent.macros[index] \in Seq(Seq(Usable))
      /\ Partway(NMACROS, SentMacros, stored.macros, index)
      /\ stored.macros \in [1 .. NMACROS -> Seq(Seq(Usable))]
      /\ NMACROS \in Nat /\ SentMacros \in [1 .. NMACROS -> Seq(Seq(Usable))]
      /\ SentMacros[index] = Transfer!Same(sent.macros[index])
  BY <1>1, SizesAre, SentMacrosAre DEF SendingMacros, Partway, Contents, SentMacros
<1>3. stored.macros[index] = SentMacros[index]
  <2> DEFINE m == sent.macros[index]  sep == Transfer!Separated(m)
  <2>1. PICK p \in Nat : Came(m, p, stored.macros[index]) /\ Left(rest, sep, p)
    BY <1>1 DEF SendingMacros
  <2>2. m \in Seq(Seq(Usable)) /\ SentMacros[index] = Transfer!Same(m)
    BY <1>2
  <2> HIDE DEF m
  <2>3. sep \in Seq(WireItem) /\ Len(sep) \in Nat /\ p \in Nat /\ p + 0 <= Len(sep) /\ 0 \in Nat
    BY <2>1, <2>2, CameIs, SeparatedIs
  <2>4. p = Len(sep)
    <3> HIDE DEF sep
    <3>1. rest = SubSeq(sep, p + 1, Len(sep))
      BY <2>1 DEF Left
    <3>2. Len(rest) = Len(sep) - p
      BY ONLY <2>3, <3>1, RestOf
    <3>3. Len(rest) = 0
      BY <1>1, EmptySeq
    <3> QED
      BY <2>3, <3>2, <3>3
  <2> QED
    BY <2>1, <2>2, <2>4, AllCame
<1>4. SentMacros' = SentMacros
  BY <1>1 DEF SentMacros, Transfer!Same
<1>5. CASE index < NMACROS
  <2>1. stage' = stage /\ index' = index + 1 /\ rest' = Transfer!Separated(sent.macros[index + 1])
    BY <1>5 DEF Transfer!NextMacro
  <2>2. /\ index + 1 \in 1 .. NMACROS /\ Partway(NMACROS, SentMacros, stored.macros, index + 1)
        /\ stored.macros[index + 1] = << >>
    <3>1. index \in Nat
      BY <1>2
    <3> QED
      BY ONLY <1>2, <1>3, <1>5, <3>1, PartwayNext
  <2>3. sent.macros[index + 1] \in Seq(Seq(Usable))
    BY <1>1, <2>2, SizesAre DEF Contents
  <2>4. SendingMacros'
    <3>1. 0 \in Nat
      OBVIOUS
    <3> QED
      BY <1>1, <1>4, <2>1, <2>2, <2>3, <3>1, CameBegins DEF SendingMacros
  <2> QED
    BY <1>1, <2>1, <2>4 DEF TransferInv
<1>6. CASE ~(index < NMACROS)
  <2>1. stage' = "clear expressions" /\ index' = 1
    BY <1>6 DEF Transfer!NextMacro
  <2>2. stored.macros = SentMacros
    <3>1. index \in Nat
      BY <1>2
    <3>2. index = NMACROS
      BY <1>2, <1>6, <3>1
    <3> QED
      BY ONLY <1>2, <1>3, <3>2, PartwayEnds
  <2> QED
    BY <1>1, <1>4, <2>1, <2>2 DEF TransferInv
<1> QED
  BY <1>5, <1>6

LEMMA ClearExpressionsKeeps ==
  ASSUME TransferInv, Transfer!ClearExpressions
  PROVE  TransferInv'
<1>1. /\ sent \in Contents /\ stored \in Contents /\ result \in Contents
      /\ stored.macros = SentMacros /\ result = Transfer!Nothing
      /\ stored' = [stored EXCEPT !.expressions = [e \in Transfer!ExpressionIds |-> << >>]]
      /\ UNCHANGED <<sent, result>> /\ index' = 1
      /\ stage' = "send expressions" /\ rest' = sent.expressions[1]
  BY DEF TransferInv, Transfer!ClearExpressions
<1>2. /\ stored' \in Contents /\ stored'.macros = SentMacros
      /\ \A e \in 1 .. NEXPRESSIONS : stored'.expressions[e] = << >>
      /\ sent.expressions[1] \in Seq(WireElement)
  BY <1>1, SizesAre DEF Contents
<1>3. Partway(NEXPRESSIONS, sent.expressions, stored.expressions, index)'
  BY <1>1, <1>2, SizesAre, PartwayBegins
<1>4. SentMacros' = SentMacros
  BY <1>1 DEF SentMacros, Transfer!Same
<1>5. SendingExpressions'
  <2>1. stored'.expressions[1] = << >>
    BY <1>2, SizesAre
  <2> QED
    BY <1>1, <1>2, <1>3, <2>1, ElementsBegin DEF SendingExpressions
<1> QED
  BY <1>1, <1>2, <1>4, <1>5 DEF TransferInv

LEMMA AppendToExpressionKeeps ==
  ASSUME TransferInv, Transfer!AppendToExpression
  PROVE  TransferInv'
<1> DEFINE n == Transfer!Fitting(rest, SendBytes)
           got == Transfer!TakeElements(stored.expressions[index], SubSeq(rest, 1, n))
           x == sent.expressions[index]
<1>1. /\ sent \in Contents /\ stored \in Contents /\ result \in Contents
      /\ stored.macros = SentMacros /\ result = Transfer!Nothing /\ SendingExpressions
      /\ UNCHANGED <<sent, result, stage, index>>
      /\ stage = "send expressions"
      /\ stored' = [stored EXCEPT !.expressions[index] = got]
      /\ rest' = SubSeq(rest, n + 1, Len(rest))
  BY DEF TransferInv, Transfer!AppendToExpression
<1>2. index \in Transfer!ExpressionIds /\ x \in Seq(WireElement)
  BY <1>1, SizesAre DEF SendingExpressions, Partway, Contents
<1>3. PICK p \in 0 .. Len(x) : stored.expressions[index] = SubSeq(x, 1, p) /\ Left(rest, x, p)
  BY <1>1 DEF SendingExpressions
<1> HIDE DEF x
<1>4. p + n \in 0 .. Len(x) /\ got = SubSeq(x, 1, p + n) /\ Left(rest', x, p + n)
  <2>1. /\ p + n \in 0 .. Len(x)
        /\ Transfer!TakeElements(SubSeq(x, 1, p), SubSeq(rest, 1, n)) = SubSeq(x, 1, p + n)
        /\ Left(SubSeq(rest, n + 1, Len(rest)), x, p + n)
    BY ONLY <1>2, <1>3, SendsElements
  <2> QED
    BY <1>1, <1>3, <2>1
<1> HIDE DEF got, n
<1>5. got \in Seq(WireElement)
  BY <1>2, <1>4, LenProperties, PrefixIs
<1>6. /\ stored' \in Contents /\ stored'.expressions[index] = got /\ stored'.macros = stored.macros
      /\ \A j \in 1 .. NEXPRESSIONS : j # index => stored'.expressions[j] = stored.expressions[j]
  BY <1>1, <1>2, <1>5, SizesAre DEF Contents
<1>7. Partway(NEXPRESSIONS, sent.expressions, stored'.expressions, index)
  BY <1>1, <1>6, SizesAre, PartwayGrows DEF SendingExpressions
<1>8. SentMacros' = SentMacros
  BY <1>1 DEF SentMacros, Transfer!Same
<1>9. SendingExpressions'
  BY <1>1, <1>4, <1>6, <1>7 DEF SendingExpressions, x
<1> QED
  BY <1>1, <1>6, <1>8, <1>9 DEF TransferInv

\* When nothing is left, all has gone.
LEMMA NothingLeft ==
  ASSUME NEW S, NEW s \in Seq(S), NEW p \in Nat, p <= Len(s), NEW left, left = << >>, Left(left, s, p)
  PROVE  p = Len(s)
<1>1. Len(s) \in Nat /\ p + 0 <= Len(s) /\ 0 \in Nat /\ left = SubSeq(s, p + 1, Len(s))
  BY LenProperties DEF Left
<1>2. Len(left) = Len(s) - p
  BY ONLY <1>1, s \in Seq(S), p \in Nat, RestOf
<1>3. Len(left) = 0
  BY EmptySeq
<1> QED
  BY <1>1, <1>2, <1>3

LEMMA NextExpressionKeeps ==
  ASSUME TransferInv, Transfer!NextExpression
  PROVE  TransferInv'
<1>1. /\ sent \in Contents /\ stored \in Contents /\ result \in Contents
      /\ stored.macros = SentMacros /\ result = Transfer!Nothing /\ SendingExpressions
      /\ UNCHANGED <<sent, stored, result>>
      /\ stage = "send expressions" /\ rest = << >>
  BY DEF TransferInv, Transfer!NextExpression
<1>2. /\ index \in 1 .. NEXPRESSIONS /\ index \in Nat /\ sent.expressions[index] \in Seq(WireElement)
      /\ Partway(NEXPRESSIONS, sent.expressions, stored.expressions, index)
      /\ stored.expressions \in [1 .. NEXPRESSIONS -> Seq(WireElement)]
      /\ sent.expressions \in [1 .. NEXPRESSIONS -> Seq(WireElement)]
      /\ NEXPRESSIONS \in Nat
  <2>1. index \in 1 .. NEXPRESSIONS /\ Partway(NEXPRESSIONS, sent.expressions, stored.expressions, index)
    BY <1>1 DEF SendingExpressions, Partway
  <2>2. index \in Nat
    BY <2>1
  <2> QED
    BY <1>1, <2>1, <2>2, SizesAre DEF Contents
<1>3. stored.expressions[index] = sent.expressions[index]
  <2> DEFINE x == sent.expressions[index]
  <2>1. PICK p \in 0 .. Len(x) : stored.expressions[index] = SubSeq(x, 1, p) /\ Left(rest, x, p)
    BY <1>1 DEF SendingExpressions
  <2>2. x \in Seq(WireElement)
    BY <1>2
  <2> HIDE DEF x
  <2>3. p \in Nat /\ p <= Len(x)
    BY <2>1, <2>2, LenProperties
  <2>4. p = Len(x)
    BY <1>1, <2>1, <2>2, <2>3, NothingLeft
  <2>5. SubSeq(x, 1, Len(x)) = x
    BY <2>2, SubSeqFull
  <2> QED
    BY <2>1, <2>4, <2>5 DEF x
<1>4. SentMacros' = SentMacros
  BY <1>1 DEF SentMacros, Transfer!Same
<1>5. CASE index < NEXPRESSIONS
  <2>1. stage' = stage /\ index' = index + 1 /\ rest' = sent.expressions[index + 1]
    BY <1>5 DEF Transfer!NextExpression
  <2>2. /\ index + 1 \in 1 .. NEXPRESSIONS
        /\ Partway(NEXPRESSIONS, sent.expressions, stored.expressions, index + 1)
        /\ stored.expressions[index + 1] = << >>
    BY ONLY <1>2, <1>3, <1>5, PartwayNext
  <2>3. sent.expressions[index + 1] \in Seq(WireElement)
    BY <1>2, <2>2
  <2>4. SendingExpressions'
    BY <1>1, <2>1, <2>2, <2>3, ElementsBegin DEF SendingExpressions
  <2> QED
    BY <1>1, <1>4, <2>1, <2>4 DEF TransferInv
<1>6. CASE ~(index < NEXPRESSIONS)
  <2>1. stage' = "get macros" /\ index' = 1 /\ offset' = 0
    BY <1>6 DEF Transfer!NextExpression
  <2>2. index = NEXPRESSIONS
    BY <1>2, <1>6
  <2>3. stored.expressions = sent.expressions
    BY ONLY <1>2, <1>3, <2>2, PartwayEnds
  <2>4. stored = [macros |-> SentMacros, expressions |-> sent.expressions]
    BY <1>1, <2>3 DEF Contents
  <2>5. /\ \A m \in 1 .. NMACROS : result.macros[m] = << >>
        /\ result.expressions = Transfer!Nothing.expressions
    BY <1>1, SizesAre DEF Transfer!Nothing
  <2>6. Partway(NMACROS, SentMacros, result.macros, 1)
    BY <2>5, SizesAre, PartwayBegins
  <2>7. stored.macros[1] \in Seq(Seq(Usable)) /\ result.macros[1] = << >>
    BY <1>1, <2>5, SizesAre DEF Contents
  <2>8. ReadingMacros'
    BY <1>1, <1>4, <2>1, <2>6, <2>7, CameBegins DEF ReadingMacros
  <2>9. Transfer!Nothing' = Transfer!Nothing
    BY DEF Transfer!Nothing, Transfer!MacroIds, Transfer!ExpressionIds
  <2> QED
    BY <1>1, <1>4, <2>1, <2>4, <2>5, <2>8, <2>9 DEF TransferInv
<1> QED
  BY <1>5, <1>6

LEMMA GetMacroKeeps ==
  ASSUME TransferInv, Transfer!GetMacro
  PROVE  TransferInv'
<1> DEFINE m == stored.macros[index]
           got == result.macros[index]
           items == Transfer!GiveItems(m, offset)
           read == IF got = << >> /\ items = << >> THEN got ELSE Transfer!AddChunk(got, items)
<1>1. /\ sent \in Contents /\ stored \in Contents /\ result \in Contents
      /\ ReadingMacros /\ stored = [macros |-> SentMacros, expressions |-> sent.expressions]
      /\ result.expressions = Transfer!Nothing.expressions
      /\ UNCHANGED <<sent, stored>>
      /\ stage = "get macros"
      /\ result' = [result EXCEPT !.macros[index] = read]
  BY DEF TransferInv, Transfer!GetMacro
<1>2. /\ index \in 1 .. NMACROS /\ index \in Nat /\ NMACROS \in Nat
      /\ m \in Seq(Seq(Usable)) /\ got \in Seq(Seq(Usable))
      /\ Partway(NMACROS, SentMacros, result.macros, index) /\ Came(m, offset, got)
      /\ SentMacros \in [1 .. NMACROS -> Seq(Seq(Usable))]
      /\ SentMacros[index] = Transfer!Same(sent.macros[index]) /\ m = SentMacros[index]
      /\ sent.macros[index] \in Seq(Seq(Usable))
  <2>1. /\ index \in 1 .. NMACROS /\ Partway(NMACROS, SentMacros, result.macros, index)
        /\ Came(m, offset, got)
    BY <1>1 DEF ReadingMacros, Partway
  <2>2. index \in Nat
    BY <2>1
  <2>3. m = SentMacros[index]
    BY <1>1
  <2>4. m \in Seq(Seq(Usable)) /\ got \in Seq(Seq(Usable)) /\ sent.macros[index] \in Seq(Seq(Usable))
    BY <1>1, <2>1, SizesAre DEF Contents
  <2>5. SentMacros[index] = Transfer!Same(sent.macros[index])
    BY <2>1, SizesAre DEF SentMacros
  <2> QED
    BY <1>1, <2>1, <2>2, <2>3, <2>4, <2>5, SizesAre, SentMacrosAre
<1>3. offset \in Nat
  BY <1>2, CameIs
<1>4. Transfer!Same(m) = SentMacros[index]
  BY <1>2, SameOnce
<1> HIDE DEF m, got
<1>5. /\ Len(items) = MACRO_ITEMS_IN_PACKET => Came(m, offset + MACRO_ITEMS_IN_PACKET, read)
      /\ Len(items) # MACRO_ITEMS_IN_PACKET => read = SentMacros[index]
  <2>1. /\ items = Transfer!GiveItems(m, offset)
        /\ read = IF got = << >> /\ items = << >> THEN got ELSE Transfer!AddChunk(got, items)
    OBVIOUS
  <2>2. Came(m, offset, got) /\ m \in Seq(Seq(Usable))
    BY <1>2
  <2> HIDE DEF items, read
  <2> QED
    BY ONLY <1>3, <1>4, <2>1, <2>2, ReadsItems
<1>6. /\ Len(items) = MACRO_ITEMS_IN_PACKET =>
           offset' = offset + MACRO_ITEMS_IN_PACKET /\ UNCHANGED <<stage, index>>
      /\ Len(items) # MACRO_ITEMS_IN_PACKET =>
           /\ offset' = 0
           /\ IF index < NMACROS THEN index' = index + 1 /\ stage' = stage
                                 ELSE stage' = "get expressions" /\ index' = 1
  BY DEF Transfer!GetMacro, m
<1> HIDE DEF items, read
<1>7. read \in Seq(Seq(Usable))
  <2>1. CASE Len(items) = MACRO_ITEMS_IN_PACKET
    BY <1>2, <1>5, <2>1, CameIs
  <2>2. CASE Len(items) # MACRO_ITEMS_IN_PACKET
    BY <1>2, <1>5, <2>2
  <2> QED
    BY <2>1, <2>2
<1>8. /\ result' \in Contents /\ result'.macros[index] = read
      /\ result'.expressions = result.expressions
      /\ \A j \in 1 .. NMACROS : j # index => result'.macros[j] = result.macros[j]
  BY <1>1, <1>2, <1>7, SizesAre DEF Contents
<1>9. Partway(NMACROS, SentMacros, result'.macros, index)
  BY <1>2, <1>8, PartwayGrows
<1>10. SentMacros' = SentMacros /\ Transfer!Nothing' = Transfer!Nothing
  BY <1>1 DEF SentMacros, Transfer!Same, Transfer!Nothing, Transfer!MacroIds, Transfer!ExpressionIds
<1>11. CASE Len(items) = MACRO_ITEMS_IN_PACKET
  <2>1. ReadingMacros'
    BY <1>1, <1>5, <1>6, <1>8, <1>9, <1>10, <1>11 DEF ReadingMacros, m
  <2> QED
    BY <1>1, <1>6, <1>8, <1>10, <1>11, <2>1 DEF TransferInv
<1>12. CASE Len(items) # MACRO_ITEMS_IN_PACKET /\ index < NMACROS
  <2>1. stage' = stage /\ index' = index + 1 /\ offset' = 0
    BY <1>6, <1>12
  <2>2. result'.macros[index] = SentMacros[index]
    BY <1>5, <1>8, <1>12
  <2>3. /\ index + 1 \in 1 .. NMACROS /\ Partway(NMACROS, SentMacros, result'.macros, index + 1)
        /\ result'.macros[index + 1] = << >>
    BY ONLY <1>2, <1>9, <1>12, <2>2, PartwayNext
  <2>4. stored.macros[index + 1] \in Seq(Seq(Usable))
    BY <1>1, <2>3, SizesAre DEF Contents
  <2>5. ReadingMacros'
    BY <1>1, <1>10, <2>1, <2>3, <2>4, CameBegins DEF ReadingMacros
  <2> QED
    BY <1>1, <1>8, <1>10, <2>1, <2>5 DEF TransferInv
<1>13. CASE Len(items) # MACRO_ITEMS_IN_PACKET /\ ~(index < NMACROS)
  <2>1. stage' = "get expressions" /\ index' = 1 /\ offset' = 0
    BY <1>6, <1>13
  <2>2. result'.macros[NMACROS] = SentMacros[NMACROS] /\ index = NMACROS
    BY <1>2, <1>5, <1>8, <1>13
  <2>3. result'.macros \in [1 .. NMACROS -> Seq(Seq(Usable))]
    BY <1>8, SizesAre DEF Contents
  <2>4. result'.macros = SentMacros
    BY ONLY <1>2, <1>9, <2>2, <2>3, PartwayEnds
  <2>5. \A e \in 1 .. NEXPRESSIONS : result'.expressions[e] = << >>
    <3>1. result'.expressions = Transfer!Nothing.expressions
      BY <1>1, <1>8
    <3>2. \A e \in 1 .. NEXPRESSIONS : Transfer!Nothing.expressions[e] = << >>
      BY SizesAre DEF Transfer!Nothing
    <3> QED
      BY ONLY <3>1, <3>2
  <2>6. Partway(NEXPRESSIONS, sent.expressions, result'.expressions, 1)
    BY <2>5, SizesAre, PartwayBegins
  <2>7. stored.expressions[1] \in Seq(WireElement) /\ result'.expressions[1] = << >>
    BY <1>1, <2>5, SizesAre DEF Contents
  <2>8. ReadingExpressions'
    BY <1>1, <2>1, <2>6, <2>7, ElementsBegin DEF ReadingExpressions
  <2> QED
    BY <1>1, <1>8, <1>10, <2>1, <2>4, <2>8 DEF TransferInv
<1> QED
  BY <1>11, <1>12, <1>13

LEMMA GetExpressionKeeps ==
  ASSUME TransferInv, Transfer!GetExpression
  PROVE  TransferInv'
<1> DEFINE x == stored.expressions[index]
           got == result.expressions[index]
           elems == Transfer!GiveElements(x, offset)
<1>1. /\ sent \in Contents /\ stored \in Contents /\ result \in Contents
      /\ ReadingExpressions /\ stored = [macros |-> SentMacros, expressions |-> sent.expressions]
      /\ result.macros = SentMacros
      /\ UNCHANGED <<sent, stored>>
      /\ stage = "get expressions"
  BY DEF TransferInv, Transfer!GetExpression
<1>2. /\ index \in 1 .. NEXPRESSIONS /\ index \in Nat /\ NEXPRESSIONS \in Nat
      /\ x \in Seq(WireElement) /\ x = sent.expressions[index]
      /\ Partway(NEXPRESSIONS, sent.expressions, result.expressions, index)
      /\ offset \in 0 .. Len(x) /\ got = SubSeq(x, 1, offset)
      /\ sent.expressions \in [1 .. NEXPRESSIONS -> Seq(WireElement)]
      /\ result.expressions \in [1 .. NEXPRESSIONS -> Seq(WireElement)]
  <2>1. /\ index \in 1 .. NEXPRESSIONS
        /\ Partway(NEXPRESSIONS, sent.expressions, result.expressions, index)
        /\ offset \in 0 .. Len(x) /\ got = SubSeq(x, 1, offset)
    BY <1>1 DEF ReadingExpressions, Partway
  <2>2. index \in Nat
    BY <2>1
  <2>3. x \in Seq(WireElement) /\ x = sent.expressions[index]
    BY <1>1, <2>1, SizesAre DEF Contents
  <2> QED
    BY <1>1, <2>1, <2>2, <2>3, SizesAre DEF Contents
<1>3. SentMacros' = SentMacros
  BY <1>1 DEF SentMacros, Transfer!Same
<1>4. CASE elems # << >>
  <2>1. /\ result' = [result EXCEPT !.expressions[index] = got \o elems]
        /\ offset' = offset + Len(elems) /\ UNCHANGED <<stage, index>>
    BY <1>4 DEF Transfer!GetExpression
  <2> DEFINE n == Len(elems)
  <2>2. offset + n \in 0 .. Len(x) /\ got \o elems = SubSeq(x, 1, offset + n)
    <3>1. elems = Transfer!GiveElements(x, offset) /\ got = SubSeq(x, 1, offset)
          /\ x \in Seq(WireElement) /\ offset \in 0 .. Len(x)
      BY <1>2
    <3> HIDE DEF elems, x, got
    <3>2. /\ offset + Len(elems) \in 0 .. Len(x)
          /\ SubSeq(x, 1, offset) \o elems = SubSeq(x, 1, offset + Len(elems))
      BY ONLY <1>4, <3>1, ReadsElements
    <3> QED
      BY ONLY <3>2, <3>1 DEF n
  <2> HIDE DEF n
  <2>3. offset' = offset + n
    BY <2>1 DEF n
  <2>4. got \o elems \in Seq(WireElement)
    <3> HIDE DEF elems, x, got
    <3> QED
      BY <1>2, <2>2, PrefixIs
  <2>5. /\ result' \in Contents /\ result'.expressions[index] = got \o elems
        /\ result'.macros = result.macros
        /\ \A j \in 1 .. NEXPRESSIONS : j # index => result'.expressions[j] = result.expressions[j]
    <3> DEFINE all == got \o elems
    <3>1. result' = [result EXCEPT !.expressions[index] = all] /\ all \in Seq(WireElement)
      BY <2>1, <2>4
    <3> HIDE DEF all
    <3>2. /\ result' \in Contents /\ result'.expressions[index] = all
          /\ result'.macros = result.macros
          /\ \A j \in 1 .. NEXPRESSIONS : j # index => result'.expressions[j] = result.expressions[j]
      BY <1>1, <1>2, <3>1, SizesAre DEF Contents
    <3> QED
      BY <3>2 DEF all
  <2>6. Partway(NEXPRESSIONS, sent.expressions, result'.expressions, index)
    BY <1>2, <2>5, PartwayGrows
  <2>7. ReadingExpressions'
    BY <1>1, <2>1, <2>2, <2>3, <2>5, <2>6 DEF ReadingExpressions
  <2> QED
    BY <1>1, <1>3, <2>1, <2>5, <2>7 DEF TransferInv
<1>5. CASE elems = << >>
  <2>1. /\ result' = result /\ offset' = 0
        /\ IF index < NEXPRESSIONS THEN index' = index + 1 /\ stage' = stage
                                   ELSE stage' = "done"
    BY <1>5 DEF Transfer!GetExpression
  <2>2. result.expressions[index] = sent.expressions[index]
    <3>1. elems = Transfer!GiveElements(x, offset)
      OBVIOUS
    <3> HIDE DEF elems, x
    <3>2. SubSeq(x, 1, offset) = x
      BY <1>2, <1>5, <3>1, ReadsElements
    <3> QED
      BY <1>2, <3>2
  <2>3. CASE index < NEXPRESSIONS
    <3>1. /\ index + 1 \in 1 .. NEXPRESSIONS
          /\ Partway(NEXPRESSIONS, sent.expressions, result.expressions, index + 1)
          /\ result.expressions[index + 1] = << >>
      BY ONLY <1>2, <2>2, <2>3, PartwayNext
    <3>2. stored.expressions[index + 1] \in Seq(WireElement)
      BY <1>1, <3>1, SizesAre DEF Contents
    <3>3. ReadingExpressions'
      BY <1>1, <2>1, <2>3, <3>1, <3>2, ElementsBegin DEF ReadingExpressions
    <3> QED
      BY <1>1, <1>3, <2>1, <2>3, <3>3 DEF TransferInv
  <2>4. CASE ~(index < NEXPRESSIONS)
    <3>1. index = NEXPRESSIONS
      BY <1>2, <2>4
    <3>2. result.expressions = sent.expressions
      BY ONLY <1>2, <2>2, <3>1, PartwayEnds
    <3>3. result = [macros |-> SentMacros, expressions |-> sent.expressions]
      BY <1>1, <3>2 DEF Contents
    <3> QED
      BY <1>1, <1>3, <2>1, <2>4, <3>3 DEF TransferInv
  <2> QED
    BY <2>3, <2>4
<1> QED
  BY <1>4, <1>5

LEMMA TransferStays ==
  ASSUME TransferInv, Transfer!Next \/ UNCHANGED transfer
  PROVE  TransferInv'
<1>1. CASE UNCHANGED transfer
  <2>1. SentMacros' = SentMacros
    BY <1>1 DEF transfer, SentMacros, Transfer!Same
  <2>2. /\ sent' = sent /\ stored' = stored /\ result' = result /\ stage' = stage
        /\ index' = index /\ rest' = rest /\ offset' = offset
    BY <1>1 DEF transfer
  <2>3. SendingMacros => SendingMacros'
    BY <2>1, <2>2 DEF SendingMacros
  <2>4. SendingExpressions => SendingExpressions'
    BY <2>2 DEF SendingExpressions
  <2>5. ReadingMacros => ReadingMacros'
    BY <2>1, <2>2 DEF ReadingMacros
  <2>6. ReadingExpressions => ReadingExpressions'
    BY <2>2 DEF ReadingExpressions
  <2>7. Transfer!Nothing' = Transfer!Nothing
    BY DEF Transfer!Nothing, Transfer!MacroIds, Transfer!ExpressionIds
  <2> QED
    BY <2>1, <2>2, <2>3, <2>4, <2>5, <2>6, <2>7 DEF TransferInv
<1> QED
  BY <1>1, ClearMacrosKeeps, AppendToMacroKeeps, NextMacroKeeps, ClearExpressionsKeeps,
     AppendToExpressionKeeps, NextExpressionKeeps, GetMacroKeeps, GetExpressionKeeps
     DEF Transfer!Next
-----------------------------------------------------------------------------
(* The whole page.                                                         *)

PagesInv == MappingsInv /\ MacrosInv /\ ExpressionsInv

LEMMA PagesBegin == PagesInit => PagesInv
BY MappingsBegin, MacrosBegin, ExpressionsBegin DEF PagesInit, PagesInv

LEMMA PagesStay ==
  ASSUME PagesInv, [PagesNext]_pages
  PROVE  PagesInv'
<1>1. MappingsNext \/ UNCHANGED mappings_tab
  BY DEF PagesNext, pages
<1>2. MacrosTab!Next \/ UNCHANGED macros_tab
  BY DEF PagesNext, pages
<1>3. ExpressionsTab!Next \/ UNCHANGED expressions_tab
  BY DEF PagesNext, pages
<1>4. MappingsInv'
  BY <1>1, MappingsStay DEF PagesInv
<1>5. MacrosInv'
  <2>1. CASE UNCHANGED macros_tab
    BY <2>1 DEF PagesInv, MacrosInv, macros_tab, MacrosTab!MacrosAgree, MacrosTab!FromPage
  <2> QED
    BY <1>2, <2>1, MacrosStay DEF PagesInv
<1>6. ExpressionsInv'
  <2>1. CASE UNCHANGED expressions_tab
    BY <2>1 DEF PagesInv, ExpressionsInv, expressions_tab, ExpressionsTab!ExpressionsAgree
  <2> QED
    BY <1>3, <2>1, ExpressionsStay DEF PagesInv
<1> QED
  BY <1>4, <1>5, <1>6 DEF PagesInv

LEMMA PagesInvariance == PagesSpec => []PagesInv
BY PagesBegin, PagesStay, PTL DEF PagesSpec

\* Whatever is edited, sorted, made again or loaded, and whenever a dialog is open, every
\* tab of the page shows the configuration that a save would send.
THEOREM TabsAgree == PagesSpec => []TabsShowConfig
<1>1. PagesInv => TabsShowConfig
  BY PageShows DEF PagesInv, MacrosInv, ExpressionsInv, TabsShowConfig
<1> QED
  BY <1>1, PagesInvariance, PTL

\* What is chosen in a dialog whose mapping has gone, because a configuration came in
\* while it was open, changes neither the list of mappings nor what the page shows.
THEOREM LateChoices == PagesSpec => LateChoicesAreHarmless
<1> DEFINE Late ==
      dialog.kind # "closed" =>
        /\ Loads => dialog.of \notin Range(mappings')
        /\ dialog.of \notin Range(mappings) /\ ~Rebuilds /\ ~Loads =>
             /\ mappings' = mappings /\ rows' = rows
             /\ \A n \in Range(mappings) : mapping'[n] = mapping[n]
<1>1. ASSUME PagesInv, [PagesNext]_pages PROVE [Late]_mappings_tab
  <2> SUFFICES ASSUME mappings_tab' # mappings_tab, ~AtPage PROVE Late
    BY DEF AtPage
  <2>1. MappingsNext
    BY <1>1 DEF PagesNext, pages
  <2>2. Loads => dialog.of \notin Range(mappings')
    BY <1>1, LoadsStay DEF Loads, PagesInv
  <2>3. dialog.of \notin Range(mappings) /\ ~Rebuilds /\ ~Loads =>
          /\ mappings' = mappings /\ rows' = rows
          /\ \A n \in Range(mappings) : mapping'[n] = mapping[n]
    BY <1>1, <2>1, LateChoice DEF PagesInv
  <2> QED
    BY <2>2, <2>3
<1> QED
  BY <1>1, PagesInvariance, PTL DEF PagesSpec, LateChoicesAreHarmless

LEMMA TransferInvariance == PagesSpec => []TransferInv
<1>1. ASSUME TransferInv, [PagesNext]_pages PROVE TransferInv'
  <2>1. Transfer!Next \/ UNCHANGED transfer
    BY <1>1 DEF PagesNext, pages
  <2> QED
    BY <1>1, <2>1, TransferStays
<1> QED
  BY <1>1, TransferBegins, PTL DEF PagesSpec

\* Wherever the ends of the packets of either direction fall among the ends of entries
\* and elements, the macros and expressions that are read back are the ones sent.
THEOREM ReadsBack == PagesSpec => []ReadsBackWhatWasSent
<1>1. TransferInv => ReadsBackWhatWasSent
  BY SizesAre DEF TransferInv, ReadsBackWhatWasSent, Transfer!ReadsBackWhatWasSent, SentMacros
<1> QED
  BY <1>1, TransferInvariance, PTL
=============================================================================
