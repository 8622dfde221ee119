----------------------------- MODULE ShellProofs -----------------------------
(***************************************************************************)
(* Proofs about the parts of the desktop itself. Each part runs alone      *)
(* (MCShell), so a part's steps are those of its module or stutter.        *)
(***************************************************************************)
EXTENDS MCShell, FiniteSets, FiniteSetTheorems, SequenceTheorems, NaturalsInduction, TLAPS

\* Of a behaviour of the desktop, the access token is a behaviour of TokenRotation.
LEMMA TokenRuns == Spec => Token!Init /\ [][Token!Next]_tokenVars
<1>1. Init => Token!Init
  BY DEF Init
<1>2. [Next]_vars => [Token!Next]_tokenVars
  BY DEF Next, vars, SessionSteps, FrameSteps, DialogSteps, CatalogueSteps, TokenSteps, SizeSteps,
     RelaySteps, ClipSteps, Only
<1> QED BY <1>1, <1>2, PTL DEF Spec

---------------------------------------------------------------------------
(* The access token *)

\* The values of the variables of TokenRotation: no token is of the future.
TokenTypes ==
  /\ token \in Nat /\ disk = token /\ 1 <= token
  /\ copy \in [Desktops -> Nat]
  /\ state \in [Desktops -> {"open", "reconnecting", "closed"}]
  /\ told \in [Desktops -> Seq(Nat)]
  /\ requests \subseteq [from : Desktops, kind : {"adopt", "probe"}, token : Nat,
                          answer : {"due", "ok", "refused"}]
  /\ \A d \in Desktops : copy[d] <= token
  /\ \A r \in requests : r.token <= token

\* What is on its way to a desktop ends with the token in force, or with the sign out.
ToldLast(d) ==
  \A i \in 1..Len(told[d]) :
    /\ told[d][i] <= token
    /\ i < Len(told[d]) => told[d][i] < token
    /\ i = Len(told[d]) => told[d][i] \in {Token!SignedOut, token}

\* A desktop that has news coming, or was signed out, knows older tokens only.
KnowsOlder(d) ==
  told[d] # <<>> \/ state[d] = "closed" =>
    copy[d] < token /\ \A r \in requests : r.from = d => r.token < token

\* A desktop that is connected and has no news coming has the token in force, or is
\* adopting it.
KnowsLatest(d) ==
  state[d] = "open" /\ told[d] = <<>> =>
    \/ copy[d] = token
    \/ \E r \in requests : r.from = d /\ r.kind = "adopt"

\* Who asks what: a token is adopted with nothing else under way, and never while the
\* connection is gone; a probe carries the token its page has.
RequestsInv ==
  /\ \A r \in requests :
       /\ r.from \notin Remotes
       /\ r.answer = "refused" => r.token < token
       /\ r.kind = "probe" => r.token = copy[r.from]
       /\ r.kind = "adopt" =>
            /\ \A s \in requests : s.from = r.from => s = r
            /\ state[r.from] # "reconnecting"
            /\ state[r.from] = "open" /\ told[r.from] = <<>> => r.token = token

\* The inductive invariant of the access token.
TokenInv ==
  /\ TokenTypes /\ RequestsInv
  /\ \A d \in Desktops :
       /\ state[d] # "open" => told[d] = <<>>
       /\ ToldLast(d) /\ KnowsOlder(d) /\ KnowsLatest(d)

\* Initially every desktop has the token.
LEMMA TokenInitInv == ASSUME Token!TokenAssumption, Token!Init PROVE TokenInv
<1>1. TokenTypes
  <2>1. <<>> \in Seq(Nat)
    OBVIOUS
  <2> QED BY <2>1 DEF Token!Init, TokenTypes
<1>2. RequestsInv
  BY DEF Token!Init, RequestsInv
<1>3. ASSUME NEW d \in Desktops
      PROVE  told[d] = <<>> /\ ToldLast(d) /\ KnowsOlder(d) /\ KnowsLatest(d)
  BY DEF Token!Init, ToldLast, KnowsOlder, KnowsLatest
<1> QED BY <1>1, <1>2, <1>3 DEF TokenInv

\* A token or a sign out put behind what is on its way is the last of it.
LEMMA ToldMore ==
  ASSUME NEW q \in Seq(Nat), NEW t \in Nat, NEW x \in {0, t + 1},
         \A i \in 1..Len(q) : q[i] <= t
  PROVE  /\ Append(q, x) \in Seq(Nat) /\ Append(q, x) # <<>>
         /\ \A i \in 1..Len(Append(q, x)) :
              /\ Append(q, x)[i] <= t + 1
              /\ i < Len(Append(q, x)) => Append(q, x)[i] < t + 1
              /\ i = Len(Append(q, x)) => Append(q, x)[i] \in {0, t + 1}
<1>1. x \in Nat
  OBVIOUS
<1>2. Append(q, x) \in Seq(Nat) /\ Len(Append(q, x)) = Len(q) + 1
      /\ Append(q, x)[Len(q) + 1] = x /\ \A i \in 1..Len(q) : Append(q, x)[i] = q[i]
  BY <1>1, AppendProperties
<1>3. Append(q, x) # <<>> /\ Len(q) \in Nat
  BY <1>2
<1>4. ASSUME NEW i \in 1..Len(Append(q, x))
      PROVE  /\ Append(q, x)[i] <= t + 1
             /\ i < Len(Append(q, x)) => Append(q, x)[i] < t + 1
             /\ i = Len(Append(q, x)) => Append(q, x)[i] \in {0, t + 1}
  <2>1. CASE i \in 1..Len(q)
    <3>1. Append(q, x)[i] = q[i] /\ q[i] <= t /\ q[i] \in Nat
      BY <2>1, <1>2
    <3> QED BY <3>1, <2>1, <1>2, <1>3
  <2>2. CASE i = Len(q) + 1
    BY <2>2, <1>2, <1>3
  <2> QED BY <2>1, <2>2, <1>2, <1>3
<1> QED BY <1>2, <1>3, <1>4

\* A rotation: the others are told of the token, or that they are signed out; the one that
\* asked has it in the answer.
LEMMA TokenRotates ==
  ASSUME Token!TokenAssumption, TokenInv, NEW d \in Desktops, NEW keepOthers \in BOOLEAN,
         Token!Rotate(d, keepOthers)
  PROVE  TokenInv'
<1>1. token \in Nat /\ disk' = token + 1 /\ token' = token + 1
      /\ copy' = copy /\ state' = state /\ requests' = requests
      /\ state[d] = "open"
  BY DEF Token!Rotate, TokenInv, TokenTypes
<1>2. ASSUME NEW e \in Desktops
      PROVE  \/ told'[e] = told[e] /\ state[e] # "open"
             \/ \E x \in {0, token + 1} : told'[e] = Append(told[e], x)
  BY <1>1 DEF Token!Rotate, Token!Live, Token!SignedOut, TokenInv, TokenTypes
<1>3. DOMAIN told' = Desktops /\ told' = [e \in Desktops |-> told'[e]]
  BY DEF Token!Rotate
<1>4. ASSUME NEW e \in Desktops
      PROVE  /\ told'[e] \in Seq(Nat)
             /\ state[e] # "open" => told'[e] = <<>>
             /\ state[e] = "open" => told'[e] # <<>>
             /\ ToldLast(e)'
  <2>1. told[e] \in Seq(Nat) /\ \A i \in 1..Len(told[e]) : told[e][i] <= token
    BY DEF TokenInv, TokenTypes, ToldLast
  <2>2. CASE told'[e] = told[e] /\ state[e] # "open"
    <3>1. told[e] = <<>>
      BY <2>2 DEF TokenInv
    <3> QED BY <2>2, <3>1 DEF ToldLast
  <2>3. CASE \E x \in {0, token + 1} : told'[e] = Append(told[e], x)
    <3>1. PICK x \in {0, token + 1} : told'[e] = Append(told[e], x)
      BY <2>3
    <3>2. state[e] = "open"
      <4>1. SUFFICES ASSUME state[e] # "open" PROVE FALSE
        OBVIOUS
      <4>2. told[e] = <<>> /\ told'[e] = told[e]
        BY <4>1, <1>1 DEF TokenInv, Token!Rotate, Token!Live
      <4>3. Append(told[e], x) # <<>>
        BY <2>1, <1>1, ToldMore
      <4> QED BY <4>2, <4>3, <3>1
    <3> DEFINE q == Append(told[e], x)
    <3>3. /\ q \in Seq(Nat) /\ q # <<>>
          /\ \A i \in 1..Len(q) : /\ q[i] <= token + 1
                                  /\ i < Len(q) => q[i] < token + 1
                                  /\ i = Len(q) => q[i] \in {0, token + 1}
      BY <2>1, <1>1, ToldMore
    <3>4. told'[e] = q
      BY <3>1
    <3> HIDE DEF q
    <3> QED BY <3>2, <3>3, <3>4, <1>1 DEF ToldLast, Token!SignedOut
  <2> QED BY <1>2, <2>2, <2>3
<1>5. TokenTypes'
  <2>1. told' \in [Desktops -> Seq(Nat)]
    BY <1>3, <1>4
  <2>2. /\ token' \in Nat /\ disk' = token' /\ 1 <= token'
        /\ \A e \in Desktops : copy'[e] <= token'
        /\ \A r \in requests' : r.token <= token'
    BY <1>1 DEF TokenInv, TokenTypes
  <2> QED BY <1>1, <2>1, <2>2 DEF TokenInv, TokenTypes
<1>6. RequestsInv'
  <2> SUFFICES ASSUME NEW r \in requests
      PROVE  /\ r.from \notin Remotes
             /\ r.answer = "refused" => r.token < token'
             /\ r.kind = "probe" => r.token = copy'[r.from]
             /\ r.kind = "adopt" =>
                  /\ \A s \in requests : s.from = r.from => s = r
                  /\ state'[r.from] # "reconnecting"
                  /\ state'[r.from] = "open" /\ told'[r.from] = <<>> => r.token = token'
    BY <1>1 DEF RequestsInv
  <2>1. r.token \in Nat /\ r.from \in Desktops
    BY DEF TokenInv, TokenTypes
  <2>2. state[r.from] = "open" => told'[r.from] # <<>>
    BY <2>1, <1>4
  <2> QED BY <1>1, <2>1, <2>2 DEF TokenInv, RequestsInv
<1>7. ASSUME NEW e \in Desktops PROVE KnowsOlder(e)' /\ KnowsLatest(e)'
  <2>1. copy'[e] < token' /\ \A r \in requests' : r.from = e => r.token < token'
    <3>1. copy[e] \in Nat /\ copy[e] <= token
      BY DEF TokenInv, TokenTypes
    <3>2. ASSUME NEW r \in requests PROVE r.token < token'
      BY <1>1 DEF TokenInv, TokenTypes
    <3> QED BY <1>1, <3>1, <3>2
  <2> QED BY <2>1, <1>1, <1>4 DEF KnowsOlder, KnowsLatest
<1> QED BY <1>1, <1>4, <1>5, <1>6, <1>7 DEF TokenInv

\* The first of what is on its way is taken from it.
LEMMA ToldRest ==
  ASSUME NEW q \in Seq(Nat), q # <<>>, NEW t \in Nat,
         \A i \in 1..Len(q) : /\ q[i] <= t
                              /\ i < Len(q) => q[i] < t
                              /\ i = Len(q) => q[i] \in {0, t}
  PROVE  /\ Head(q) \in Nat /\ Head(q) <= t
         /\ Tail(q) # <<>> => Head(q) < t
         /\ Tail(q) = <<>> => Head(q) \in {0, t}
         /\ Tail(q) \in Seq(Nat)
         /\ \A i \in 1..Len(Tail(q)) : /\ Tail(q)[i] <= t
                                       /\ i < Len(Tail(q)) => Tail(q)[i] < t
                                       /\ i = Len(Tail(q)) => Tail(q)[i] \in {0, t}
<1> DEFINE s == Tail(q)
<1>1. /\ s \in Seq(Nat) /\ Len(s) = Len(q) - 1 /\ Head(q) = q[1]
      /\ \A i \in 1..Len(s) : s[i] = q[i + 1]
  BY HeadTailProperties
<1> HIDE DEF s
<1>2. Len(q) \in Nat /\ Len(q) >= 1 /\ (s = <<>> <=> Len(q) = 1)
  <2>1. Len(q) \in Nat /\ Len(q) # 0
    BY LenProperties, EmptySeq
  <2>3. Len(s) \in Nat /\ Len(s) = Len(q) - 1
    BY <1>1
  <2>2. s = <<>> <=> Len(s) = 0
    BY <1>1, EmptySeq
  <2> DEFINE l == Len(q)  m == Len(s)
  <2> HIDE DEF l, m
  <2> QED BY <2>3, <2>1, <2>2 DEF l, m
<1>3. ASSUME NEW i \in 1..Len(s)
      PROVE  s[i] <= t /\ (i < Len(s) => s[i] < t) /\ (i = Len(s) => s[i] \in {0, t})
  <2>1. s[i] = q[i + 1]
    BY <1>1
  <2>2. Len(q) \in Nat /\ Len(s) = Len(q) - 1
    BY <1>1, <1>2
  <2>3. i + 1 \in 1..Len(q) /\ (i < Len(s) <=> i + 1 < Len(q)) /\ (i = Len(s) <=> i + 1 = Len(q))
    <3> DEFINE l == Len(q)  m == Len(s)
    <3> HIDE DEF l, m
    <3>1. l \in Nat /\ m = l - 1 /\ i \in 1..m
      BY <2>2 DEF l, m
    <3>2. i + 1 \in 1..l /\ (i < m <=> i + 1 < l) /\ (i = m <=> i + 1 = l)
      BY <3>1
    <3> QED BY <3>2 DEF l, m
  <2> QED BY <2>1, <2>3
<1>4. 1 \in 1..Len(q) /\ q[1] \in Nat
  BY <1>2
<1>5. q[1] <= t /\ (1 < Len(q) => q[1] < t) /\ (1 = Len(q) => q[1] \in {0, t})
  BY <1>4
<1>6. /\ Head(q) \in Nat /\ Head(q) <= t
      /\ s # <<>> => Head(q) < t
      /\ s = <<>> => Head(q) \in {0, t}
  BY <1>1, <1>2, <1>4, <1>5
<1> QED BY <1>1, <1>3, <1>6 DEF s

\* A desktop that hears it was signed out knows older tokens only.
LEMMA TokenSignsOut ==
  ASSUME Token!TokenAssumption, TokenInv, NEW d \in Desktops, Token!Hears(d),
         Head(told[d]) = Token!SignedOut
  PROVE  TokenInv'
<1>1. /\ told[d] # <<>> /\ state' = [state EXCEPT ![d] = "closed"]
      /\ told' = [told EXCEPT ![d] = <<>>] /\ copy' = copy /\ requests' = requests
      /\ disk' = disk /\ token' = token
  BY DEF Token!Hears
<1>2. state \in [Desktops -> {"open", "reconnecting", "closed"}] /\ told \in [Desktops -> Seq(Nat)]
  BY DEF TokenInv, TokenTypes
<1>3. state[d] = "open"
  BY <1>1, <1>2 DEF TokenInv
<1>4. TokenTypes'
  <2>1. <<>> \in Seq(Nat)
    OBVIOUS
  <2> QED BY <1>1, <2>1 DEF TokenInv, TokenTypes
<1>5. RequestsInv'
  BY <1>1, <1>2, <1>3 DEF TokenInv, RequestsInv, TokenTypes
<1>6. ASSUME NEW e \in Desktops
      PROVE  /\ state'[e] # "open" => told'[e] = <<>>
             /\ ToldLast(e)' /\ KnowsOlder(e)' /\ KnowsLatest(e)'
  <2>1. CASE e = d
    BY <1>1, <1>2, <2>1 DEF TokenInv, ToldLast, KnowsOlder, KnowsLatest
  <2>2. CASE e # d
    BY <1>1, <1>2, <2>2 DEF TokenInv, ToldLast, KnowsOlder, KnowsLatest
  <2> QED BY <2>1, <2>2
<1> QED BY <1>4, <1>5, <1>6 DEF TokenInv

\* A desktop that hears of a token adopts it.
LEMMA TokenAdopts ==
  ASSUME Token!TokenAssumption, ~InHaste, TokenInv, NEW d \in Desktops, Token!Hears(d),
         Head(told[d]) # Token!SignedOut
  PROVE  TokenInv'
<1> DEFINE t == Head(told[d])
<1>1. /\ told[d] # <<>> /\ (d \in Remotes \/ \A r \in requests : r.from # d)
      /\ Token!Adopts(d, t) /\ told' = [told EXCEPT ![d] = Tail(told[d])] /\ state' = state
      /\ disk' = disk /\ token' = token /\ t # 0
  <2>1. Token!Settled(d) => \A r \in requests : r.from # d
    BY DEF Token!Settled
  <2> QED BY <2>1 DEF Token!Hears, Token!SignedOut
<1>2. /\ state \in [Desktops -> {"open", "reconnecting", "closed"}]
      /\ told \in [Desktops -> Seq(Nat)] /\ copy \in [Desktops -> Nat] /\ token \in Nat
      /\ \A i \in 1..Len(told[d]) : /\ told[d][i] <= token
                                    /\ i < Len(told[d]) => told[d][i] < token
                                    /\ i = Len(told[d]) => told[d][i] \in {0, token}
  BY DEF TokenInv, TokenTypes, ToldLast, Token!SignedOut
<1>3. state[d] = "open"
  BY <1>1, <1>2 DEF TokenInv
<1>4. /\ t \in Nat /\ t <= token
      /\ Tail(told[d]) # <<>> => t < token
      /\ Tail(told[d]) = <<>> => t = token
      /\ Tail(told[d]) \in Seq(Nat)
      /\ ToldLast(d)'
  <2>1. told'[d] = Tail(told[d]) /\ token' = token
    BY <1>1, <1>2
  <2> DEFINE q == told[d]
  <2>2. /\ q \in Seq(Nat) /\ q # <<>> /\ token \in Nat
        /\ \A i \in 1..Len(q) : /\ q[i] <= token
                                /\ i < Len(q) => q[i] < token
                                /\ i = Len(q) => q[i] \in {0, token}
    BY <1>1, <1>2
  <2> DEFINE s == Tail(q)
  <2>3. /\ t \in Nat /\ t <= token
        /\ s # <<>> => t < token
        /\ s = <<>> => t \in {0, token}
        /\ s \in Seq(Nat)
        /\ \A i \in 1..Len(s) : /\ s[i] <= token
                                /\ i < Len(s) => s[i] < token
                                /\ i = Len(s) => s[i] \in {0, token}
    <3>1. t = Head(q)
      BY DEF t
    <3> HIDE DEF q
    <3> QED BY <2>2, <3>1, ToldRest
  <2>4. told'[d] = s /\ t # 0
    BY <1>1, <2>1
  <2>5. ToldLast(d)'
    <3> HIDE DEF s, t, q
    <3> QED BY <2>1, <2>3, <2>4 DEF ToldLast, Token!SignedOut
  <2> QED BY <2>3, <2>4, <2>5
<1> HIDE DEF t
<1>5. /\ DOMAIN told' = Desktops /\ told'[d] = Tail(told[d])
      /\ \A e \in Desktops : e # d => told'[e] = told[e]
      /\ told' \in [Desktops -> Seq(Nat)]
  BY <1>1, <1>2, <1>4
<1>6. CASE d \in Remotes
  <2>1. copy' = [copy EXCEPT ![d] = t] /\ requests' = requests /\ \A r \in requests : r.from # d
    BY <1>1, <1>6 DEF Token!Adopts, TokenInv, RequestsInv
  <2>2. TokenTypes'
    BY <1>1, <1>2, <1>4, <1>5, <2>1 DEF TokenInv, TokenTypes
  <2>3. RequestsInv'
    BY <1>1, <1>2, <1>5, <2>1 DEF TokenInv, RequestsInv, TokenTypes
  <2>4. ASSUME NEW e \in Desktops
        PROVE  /\ state'[e] # "open" => told'[e] = <<>>
               /\ ToldLast(e)' /\ KnowsOlder(e)' /\ KnowsLatest(e)'
    <3>1. CASE e = d
      <4>1. copy'[d] = t
        BY <2>1, <1>2
      <4> QED BY <3>1, <4>1, <1>1, <1>3, <1>4, <1>5, <2>1 DEF KnowsOlder, KnowsLatest
    <3>2. CASE e # d
      <4>1. copy'[e] = copy[e] /\ told'[e] = told[e]
        BY <3>2, <2>1, <1>2, <1>5
      <4> QED BY <4>1, <1>1, <2>1 DEF TokenInv, ToldLast, KnowsOlder, KnowsLatest
    <3> QED BY <3>1, <3>2
  <2> QED BY <2>2, <2>3, <2>4 DEF TokenInv
<1>7. CASE d \notin Remotes
  <2> DEFINE r == Token!Request(d, "adopt", t)
  <2>1. /\ copy' = copy /\ requests' = requests \cup {r} /\ \A s \in requests : s.from # d
        /\ r.from = d /\ r.kind = "adopt" /\ r.token = t /\ r.answer = "due"
        /\ r \in [from : Desktops, kind : {"adopt", "probe"}, token : Nat,
                  answer : {"due", "ok", "refused"}]
    BY <1>1, <1>4, <1>7 DEF Token!Adopts, Token!Request
  <2> HIDE DEF r
  <2>2. TokenTypes'
    BY <1>1, <1>2, <1>4, <1>5, <2>1 DEF TokenInv, TokenTypes
  <2>3. RequestsInv'
    <3>1. ASSUME NEW s \in requests
          PROVE  /\ s.from # r.from /\ s.from \in Desktops /\ told'[s.from] = told[s.from]
                 /\ s.from \notin Remotes
                 /\ s.answer = "refused" => s.token < token
                 /\ s.kind = "probe" => s.token = copy[s.from]
                 /\ s.kind = "adopt" =>
                      /\ \A u \in requests : u.from = s.from => u = s
                      /\ state[s.from] # "reconnecting"
                      /\ state[s.from] = "open" /\ told[s.from] = <<>> => s.token = token
      BY <2>1, <1>5 DEF TokenInv, TokenTypes, RequestsInv
    <3>2. /\ told'[r.from] = <<>> => r.token = token
          /\ state[r.from] # "reconnecting" /\ r.from \notin Remotes
      BY <2>1, <1>4, <1>5, <1>3, <1>7
    <3> QED BY <3>1, <3>2, <2>1, <1>1 DEF RequestsInv
  <2>4. ASSUME NEW e \in Desktops
        PROVE  /\ state'[e] # "open" => told'[e] = <<>>
               /\ ToldLast(e)' /\ KnowsOlder(e)' /\ KnowsLatest(e)'
    <3>1. CASE e = d
      <4>1. copy[d] < token
        BY <1>1 DEF TokenInv, KnowsOlder
      <4>2. \A s \in requests' : s.from = d => s = r
        BY <2>1
      <4> QED BY <3>1, <4>1, <4>2, <1>1, <1>3, <1>4, <1>5, <2>1 DEF KnowsOlder, KnowsLatest
    <3>2. CASE e # d
      <4>1. told'[e] = told[e] /\ r.from # e
        BY <3>2, <2>1, <1>5
      <4> QED BY <4>1, <1>1, <2>1 DEF TokenInv, ToldLast, KnowsOlder, KnowsLatest
    <3> QED BY <3>1, <3>2
  <2> QED BY <2>2, <2>3, <2>4 DEF TokenInv
<1> QED BY <1>6, <1>7

\* The server answers a request; a refusal is of a token that is not in force.
LEMMA TokenServes ==
  ASSUME Token!TokenAssumption, TokenInv, NEW r \in requests, Token!Serves(r)
  PROVE  TokenInv'
<1> DEFINE a == IF r.token = token THEN "ok" ELSE "refused"
           s == [r EXCEPT !.answer = a]
<1>1. /\ r \in [from : Desktops, kind : {"adopt", "probe"}, token : Nat,
                answer : {"due", "ok", "refused"}]
      /\ r.token <= token /\ token \in Nat
  BY DEF TokenInv, TokenTypes
<1>2. /\ s \in [from : Desktops, kind : {"adopt", "probe"}, token : Nat,
                answer : {"due", "ok", "refused"}]
      /\ s.from = r.from /\ s.kind = r.kind /\ s.token = r.token
      /\ s.answer = "refused" => s.token < token
  BY <1>1
<1>3. /\ requests' = (requests \ {r}) \cup {s} /\ disk' = disk /\ token' = token /\ copy' = copy
      /\ state' = state /\ told' = told
  BY DEF Token!Serves
<1> HIDE DEF s, a
<1>4. TokenTypes'
  BY <1>1, <1>2, <1>3 DEF TokenInv, TokenTypes
<1>5. RequestsInv'
  <2>1. ASSUME NEW u \in requests, u # r
        PROVE  /\ u.from \notin Remotes
               /\ u.answer = "refused" => u.token < token
               /\ u.kind = "probe" => u.token = copy[u.from]
               /\ u.kind = "adopt" =>
                    /\ u.from # r.from
                    /\ \A x \in requests : x.from = u.from => x = u
                    /\ state[u.from] # "reconnecting"
                    /\ state[u.from] = "open" /\ told[u.from] = <<>> => u.token = token
    BY <2>1 DEF TokenInv, RequestsInv
  <2>2. /\ s.from \notin Remotes
        /\ s.kind = "probe" => s.token = copy[s.from]
        /\ s.kind = "adopt" =>
             /\ \A x \in requests : x.from = s.from => x = r
             /\ state[s.from] # "reconnecting"
             /\ state[s.from] = "open" /\ told[s.from] = <<>> => s.token = token
    BY <1>2 DEF TokenInv, RequestsInv
  <2> QED BY <1>2, <1>3, <2>1, <2>2 DEF RequestsInv
<1>6. ASSUME NEW e \in Desktops
      PROVE  /\ state'[e] # "open" => told'[e] = <<>>
             /\ ToldLast(e)' /\ KnowsOlder(e)' /\ KnowsLatest(e)'
  <2>1. (state[e] # "open" => told[e] = <<>>) /\ ToldLast(e) /\ KnowsOlder(e) /\ KnowsLatest(e)
    BY DEF TokenInv
  <2>2. KnowsOlder(e)'
    BY <1>2, <1>3, <2>1 DEF KnowsOlder
  <2>3. KnowsLatest(e)'
    BY <1>2, <1>3, <2>1 DEF KnowsLatest
  <2> QED BY <1>3, <2>1, <2>2, <2>3 DEF ToldLast
<1> QED BY <1>4, <1>5, <1>6 DEF TokenInv

\* An answer that says the token was adopted: it is the page's, which asked nothing else.
LEMMA TokenAdopted ==
  ASSUME Token!TokenAssumption, TokenInv, NEW r \in requests, Token!Answered(r),
         r.kind = "adopt"
  PROVE  TokenInv'
<1>1. /\ r.from \in Desktops /\ r.token \in Nat /\ r.token <= token /\ token \in Nat
      /\ r.answer \in {"ok", "refused"} /\ copy \in [Desktops -> Nat]
  BY DEF TokenInv, TokenTypes, Token!Answered
<1>2. /\ requests' = requests \ {r} /\ disk' = disk /\ token' = token /\ told' = told
      /\ state' = state
      /\ copy' = IF r.answer = "ok" THEN [copy EXCEPT ![r.from] = r.token] ELSE copy
  BY DEF Token!Answered, Token!Revokes
<1>3. /\ \A u \in requests : u # r => u.from # r.from
      /\ r.answer = "refused" => r.token < token
      /\ state[r.from] = "open" /\ told[r.from] = <<>> => r.token = token
  BY DEF TokenInv, RequestsInv
<1>4. copy' \in [Desktops -> Nat] /\ \A e \in Desktops : e # r.from => copy'[e] = copy[e]
  BY <1>1, <1>2
<1>5. copy'[r.from] = IF r.answer = "ok" THEN r.token ELSE copy[r.from]
  BY <1>1, <1>2
<1>6. TokenTypes'
  <2>1. \A e \in Desktops : copy'[e] <= token
    BY <1>1, <1>4, <1>5 DEF TokenInv, TokenTypes
  <2> QED BY <1>2, <1>4, <2>1 DEF TokenInv, TokenTypes
<1>7. RequestsInv'
  <2> SUFFICES ASSUME NEW u \in requests, u # r
      PROVE  /\ u.from \notin Remotes
             /\ u.answer = "refused" => u.token < token
             /\ u.kind = "probe" => u.token = copy'[u.from]
             /\ u.kind = "adopt" =>
                  /\ \A x \in requests : x.from = u.from => x = u
                  /\ state[u.from] # "reconnecting"
                  /\ state[u.from] = "open" /\ told[u.from] = <<>> => u.token = token
    BY <1>2 DEF RequestsInv
  <2>1. u.from # r.from /\ u.from \in Desktops
    BY <1>3 DEF TokenInv, TokenTypes
  <2> QED BY <2>1, <1>4 DEF TokenInv, RequestsInv
<1>8. ASSUME NEW e \in Desktops
      PROVE  /\ state'[e] # "open" => told'[e] = <<>>
             /\ ToldLast(e)' /\ KnowsOlder(e)' /\ KnowsLatest(e)'
  <2>1. (state[e] # "open" => told[e] = <<>>) /\ ToldLast(e) /\ KnowsOlder(e) /\ KnowsLatest(e)
    BY DEF TokenInv
  <2>2. KnowsOlder(e)'
    <3>1. (told[e] # <<>> \/ state[e] = "closed") => copy'[e] < token
      BY <1>4, <1>5, <2>1 DEF KnowsOlder
    <3> QED BY <1>2, <2>1, <3>1 DEF KnowsOlder
  <2>3. KnowsLatest(e)'
    <3>1. CASE e = r.from
      BY <1>1, <1>2, <1>3, <1>5, <3>1 DEF KnowsLatest
    <3>2. CASE e # r.from
      BY <1>2, <1>4, <2>1, <3>2 DEF KnowsLatest
    <3> QED BY <3>1, <3>2
  <2> QED BY <1>2, <2>1, <2>2, <2>3 DEF ToldLast
<1> QED BY <1>6, <1>7, <1>8 DEF TokenInv

\* The answer to a probe: a page that is refused, and has no connection, is signed out.
LEMMA TokenProbed ==
  ASSUME Token!TokenAssumption, TokenInv, NEW r \in requests, Token!Answered(r),
         r.kind = "probe"
  PROVE  TokenInv'
<1>1. /\ r.from \in Desktops /\ r.token \in Nat /\ token \in Nat
      /\ state \in [Desktops -> {"open", "reconnecting", "closed"}]
  BY DEF TokenInv, TokenTypes
<1>2. /\ requests' = requests \ {r} /\ disk' = disk /\ token' = token /\ told' = told
      /\ copy' = copy
      /\ state' = IF Token!Revokes(r) THEN [state EXCEPT ![r.from] = "closed"] ELSE state
  BY DEF Token!Answered
<1>3. \A u \in requests : u.from = r.from => u.kind = "probe" /\ u.token = r.token /\ r.token = copy[r.from]
  <2> SUFFICES ASSUME NEW u \in requests, u.from = r.from
      PROVE  u.kind = "probe" /\ u.token = r.token /\ r.token = copy[r.from]
    OBVIOUS
  <2>1. u.kind \in {"adopt", "probe"}
    BY DEF TokenInv, TokenTypes
  <2> QED BY <2>1 DEF TokenInv, RequestsInv
<1>4. /\ state' \in [Desktops -> {"open", "reconnecting", "closed"}]
      /\ \A e \in Desktops : state'[e] = "open" => state[e] = "open"
      /\ \A e \in Desktops : state'[e] = "reconnecting" => state[e] = "reconnecting"
      /\ \A e \in Desktops : state'[e] = "closed" => state[e] = "closed" \/ (e = r.from /\ Token!Revokes(r))
      /\ \A e \in Desktops : state[e] = "open" => state'[e] = "open"
  BY <1>1, <1>2 DEF Token!Revokes
<1>5. TokenTypes'
  BY <1>2, <1>4 DEF TokenInv, TokenTypes
<1>6. RequestsInv'
  <2> SUFFICES ASSUME NEW u \in requests
      PROVE  /\ u.from \notin Remotes
             /\ u.answer = "refused" => u.token < token
             /\ u.kind = "probe" => u.token = copy[u.from]
             /\ u.kind = "adopt" =>
                  /\ \A x \in requests : x.from = u.from => x = u
                  /\ state'[u.from] # "reconnecting"
                  /\ state'[u.from] = "open" /\ told[u.from] = <<>> => u.token = token
    BY <1>2 DEF RequestsInv
  <2>1. u.from \in Desktops
    BY DEF TokenInv, TokenTypes
  <2> QED BY <2>1, <1>4 DEF TokenInv, RequestsInv
<1>7. ASSUME NEW e \in Desktops
      PROVE  /\ state'[e] # "open" => told'[e] = <<>>
             /\ ToldLast(e)' /\ KnowsOlder(e)' /\ KnowsLatest(e)'
  <2>1. (state[e] # "open" => told[e] = <<>>) /\ ToldLast(e) /\ KnowsOlder(e) /\ KnowsLatest(e)
    BY DEF TokenInv
  <2>2. KnowsOlder(e)'
    <3>1. CASE told[e] # <<>> \/ state[e] = "closed"
      BY <1>2, <2>1, <3>1 DEF KnowsOlder
    <3>2. CASE e = r.from /\ Token!Revokes(r)
      <4>1. r.token < token
        BY <3>2 DEF Token!Revokes, TokenInv, RequestsInv
      <4> QED BY <3>2, <4>1, <1>2, <1>3 DEF KnowsOlder
    <3> QED BY <1>2, <1>4, <3>1, <3>2 DEF KnowsOlder
  <2>3. KnowsLatest(e)'
    BY <1>2, <1>4, <2>1 DEF KnowsLatest
  <2> QED BY <1>2, <1>4, <2>1, <2>2, <2>3 DEF ToldLast
<1> QED BY <1>5, <1>6, <1>7 DEF TokenInv

\* Connections that are lost: their pages probe, with the token they have.
LEMMA TokenLost ==
  ASSUME Token!TokenAssumption, ~InHaste, TokenInv,
         NEW lost \in SUBSET Desktops, \A d \in lost : state[d] = "open" /\ Token!Settled(d),
         Token!Lost(lost), token' = token, disk' = disk, copy' = copy
  PROVE  TokenInv'
<1> DEFINE new == {Token!Request(d, "probe", copy[d]) : d \in lost \ Remotes}
<1>1. /\ state \in [Desktops -> {"open", "reconnecting", "closed"}] /\ told \in [Desktops -> Seq(Nat)]
      /\ state' = [d \in Desktops |-> IF d \in lost THEN "reconnecting" ELSE state[d]]
      /\ told' = [d \in Desktops |-> IF d \in lost THEN <<>> ELSE told[d]]
      /\ requests' = requests \cup new
  BY DEF TokenInv, TokenTypes, Token!Lost, Token!Probes
<1>2. \A r \in requests : r.from \notin lost
  BY DEF Token!Settled
<1>3. ASSUME NEW r \in new
      PROVE  /\ r.from \in lost /\ r.from \notin Remotes /\ r.kind = "probe"
             /\ r.token = copy[r.from] /\ r.answer = "due"
             /\ r \in [from : Desktops, kind : {"adopt", "probe"}, token : Nat,
                       answer : {"due", "ok", "refused"}]
             /\ r.token <= token
  <2>1. PICK d \in lost \ Remotes : r = Token!Request(d, "probe", copy[d])
    OBVIOUS
  <2>2. d \in Desktops /\ copy[d] \in Nat /\ copy[d] <= token
    BY DEF TokenInv, TokenTypes
  <2> QED BY <2>1, <2>2 DEF Token!Request
<1> HIDE DEF new
<1>4. TokenTypes'
  <2>1. <<>> \in Seq(Nat)
    OBVIOUS
  <2>2. told' \in [Desktops -> Seq(Nat)] /\ state' \in [Desktops -> {"open", "reconnecting", "closed"}]
    BY <1>1, <2>1
  <2>3. /\ requests' \subseteq [from : Desktops, kind : {"adopt", "probe"}, token : Nat,
                                answer : {"due", "ok", "refused"}]
        /\ \A r \in requests' : r.token <= token
    BY <1>1, <1>3 DEF TokenInv, TokenTypes
  <2> QED BY <2>2, <2>3 DEF TokenInv, TokenTypes
<1>5. RequestsInv'
  <2>1. ASSUME NEW u \in requests
        PROVE  /\ u.from \notin lost /\ u.from \in Desktops
               /\ u.from \notin Remotes
               /\ u.answer = "refused" => u.token < token
               /\ u.kind = "probe" => u.token = copy[u.from]
               /\ u.kind = "adopt" =>
                    /\ \A x \in requests : x.from = u.from => x = u
                    /\ state'[u.from] # "reconnecting"
                    /\ state'[u.from] = "open" /\ told'[u.from] = <<>> => u.token = token
    <3>1. u.from \notin lost /\ u.from \in Desktops
      BY <1>2 DEF TokenInv, TokenTypes
    <3>2. state'[u.from] = state[u.from] /\ told'[u.from] = told[u.from]
      BY <3>1, <1>1
    <3> QED BY <3>1, <3>2 DEF TokenInv, RequestsInv
  <2> QED BY <2>1, <1>1, <1>3 DEF RequestsInv
<1>6. ASSUME NEW e \in Desktops
      PROVE  /\ state'[e] # "open" => told'[e] = <<>>
             /\ ToldLast(e)' /\ KnowsOlder(e)' /\ KnowsLatest(e)'
  <2>1. (state[e] # "open" => told[e] = <<>>) /\ ToldLast(e) /\ KnowsOlder(e) /\ KnowsLatest(e)
    BY DEF TokenInv
  <2>2. CASE e \in lost
    <3>1. state'[e] = "reconnecting" /\ told'[e] = <<>>
      BY <2>2, <1>1
    <3> QED BY <3>1 DEF ToldLast, KnowsOlder, KnowsLatest
  <2>3. CASE e \notin lost
    <3>1. state'[e] = state[e] /\ told'[e] = told[e]
      BY <2>3, <1>1
    <3>2. \A r \in requests' : r.from = e => r \in requests
      BY <1>1, <1>3, <2>3
    <3> QED BY <2>1, <3>1, <3>2, <1>1 DEF ToldLast, KnowsOlder, KnowsLatest
  <2> QED BY <2>2, <2>3
<1> QED BY <1>4, <1>5, <1>6 DEF TokenInv

\* A page that tries again is let in with the token in force, and probes with another.
LEMMA TokenReconnects ==
  ASSUME Token!TokenAssumption, TokenInv, NEW d \in Desktops, Token!Reconnects(d)
  PROVE  TokenInv'
<1>1. /\ state \in [Desktops -> {"open", "reconnecting", "closed"}] /\ told \in [Desktops -> Seq(Nat)]
      /\ state[d] = "reconnecting" /\ told[d] = <<>> /\ copy[d] \in Nat /\ copy[d] <= token
      /\ disk' = disk /\ token' = token /\ copy' = copy /\ told' = told /\ token \in Nat
  BY DEF TokenInv, TokenTypes, Token!Reconnects
<1>2. CASE copy[d] = token
  <2>1. state' = [state EXCEPT ![d] = "open"] /\ requests' = requests
    BY <1>2 DEF Token!Reconnects
  <2>2. TokenTypes'
    BY <1>1, <2>1 DEF TokenInv, TokenTypes
  <2>3. RequestsInv'
    <3> SUFFICES ASSUME NEW u \in requests
        PROVE  /\ u.from \notin Remotes
               /\ u.answer = "refused" => u.token < token
               /\ u.kind = "probe" => u.token = copy[u.from]
               /\ u.kind = "adopt" =>
                    /\ \A x \in requests : x.from = u.from => x = u
                    /\ state'[u.from] # "reconnecting"
                    /\ state'[u.from] = "open" /\ told[u.from] = <<>> => u.token = token
      BY <1>1, <2>1 DEF RequestsInv
    <3>1. u.from \in Desktops /\ (u.kind = "adopt" => u.from # d)
      BY <1>1 DEF TokenInv, TokenTypes, RequestsInv
    <3> QED BY <1>1, <2>1, <3>1 DEF TokenInv, RequestsInv
  <2>4. ASSUME NEW e \in Desktops
        PROVE  /\ state'[e] # "open" => told'[e] = <<>>
               /\ ToldLast(e)' /\ KnowsOlder(e)' /\ KnowsLatest(e)'
    <3>1. (state[e] # "open" => told[e] = <<>>) /\ ToldLast(e) /\ KnowsOlder(e) /\ KnowsLatest(e)
      BY DEF TokenInv
    <3> QED BY <1>1, <1>2, <2>1, <3>1 DEF ToldLast, KnowsOlder, KnowsLatest
  <2> QED BY <2>2, <2>3, <2>4 DEF TokenInv
<1>3. CASE copy[d] # token
  <2> DEFINE new == {Token!Request(x, "probe", copy[x]) : x \in {d} \ Remotes}
  <2>1. state' = state /\ requests' = requests \cup new
    BY <1>3 DEF Token!Reconnects, Token!Probes
  <2>2. ASSUME NEW r \in new
        PROVE  /\ r.from = d /\ r.from \notin Remotes /\ r.kind = "probe"
               /\ r.token = copy[d] /\ r.answer = "due"
               /\ r \in [from : Desktops, kind : {"adopt", "probe"}, token : Nat,
                         answer : {"due", "ok", "refused"}]
    BY <1>1 DEF Token!Request
  <2> HIDE DEF new
  <2>3. TokenTypes'
    BY <1>1, <2>1, <2>2 DEF TokenInv, TokenTypes
  <2>4. RequestsInv'
    <3>1. ASSUME NEW u \in requests
          PROVE  /\ u.from \notin Remotes
                 /\ u.answer = "refused" => u.token < token
                 /\ u.kind = "probe" => u.token = copy[u.from]
                 /\ u.kind = "adopt" =>
                      /\ u.from # d
                      /\ \A x \in requests : x.from = u.from => x = u
                      /\ state[u.from] # "reconnecting"
                      /\ state[u.from] = "open" /\ told[u.from] = <<>> => u.token = token
      BY <1>1 DEF TokenInv, RequestsInv
    <3> QED BY <3>1, <1>1, <2>1, <2>2 DEF RequestsInv
  <2>5. ASSUME NEW e \in Desktops
        PROVE  /\ state'[e] # "open" => told'[e] = <<>>
               /\ ToldLast(e)' /\ KnowsOlder(e)' /\ KnowsLatest(e)'
    <3>1. (state[e] # "open" => told[e] = <<>>) /\ ToldLast(e) /\ KnowsOlder(e) /\ KnowsLatest(e)
      BY DEF TokenInv
    <3> QED BY <1>1, <2>1, <2>2, <3>1 DEF ToldLast, KnowsOlder, KnowsLatest
  <2> QED BY <2>3, <2>4, <2>5 DEF TokenInv
<1> QED BY <1>2, <1>3

\* Every step keeps the invariant of the access token.
LEMMA TokenStepInv ==
  ASSUME Token!TokenAssumption, ~InHaste, TokenInv, [Token!Next]_tokenVars
  PROVE  TokenInv'
<1>1. CASE UNCHANGED tokenVars
  BY <1>1 DEF tokenVars, TokenInv, TokenTypes, RequestsInv, ToldLast, KnowsOlder, KnowsLatest
<1>2. ASSUME NEW d \in Desktops, Token!Hears(d) PROVE TokenInv'
  BY <1>2, TokenSignsOut, TokenAdopts
<1>3. ASSUME NEW d \in Desktops, Token!Drops(d) PROVE TokenInv'
  <2>1. {d} \in SUBSET Desktops
    OBVIOUS
  <2> QED BY <1>3, <2>1, TokenLost DEF Token!Drops
<1>4. CASE Token!Restarts
  <2>1. Token!Open \in SUBSET Desktops /\ \A d \in Token!Open : state[d] = "open"
    BY DEF Token!Open
  <2>2. token' = token /\ disk' = disk /\ copy' = copy
    BY <1>4 DEF Token!Restarts, TokenInv, TokenTypes
  <2> QED BY <1>4, <2>1, <2>2, TokenLost DEF Token!Restarts
<1>5. ASSUME NEW r \in requests, Token!Answered(r) PROVE TokenInv'
  <2>1. r.kind \in {"adopt", "probe"}
    BY DEF TokenInv, TokenTypes
  <2> QED BY <1>5, <2>1, TokenAdopted, TokenProbed
<1> QED BY <1>1, <1>2, <1>3, <1>4, <1>5, TokenServes, TokenReconnects, TokenRotates DEF Token!Next

\* What the server checks is what the file says, a desktop that is connected, with nothing
\* on its way, has the token in force, and one that is shown as signed out would be
\* refused: for any number of desktops, rotations, drops and restarts, where no page loses
\* its connection, or hears of a token, while an answer is due to it (auth.ts rotate).
THEOREM TokensAreKnown == ASSUME ~InHaste PROVE Spec => []TokenIsKnown
<1>1. Token!Init => TokenInv
  BY ConstantsAssumption, TokenInitInv
<1>2. TokenInv /\ [Token!Next]_tokenVars => TokenInv'
  BY ConstantsAssumption, TokenStepInv
<1>3. TokenInv => TokenIsKnown
  <2> SUFFICES ASSUME TokenInv PROVE TokenIsKnown
    OBVIOUS
  <2>1. Token!Persisted
    BY DEF TokenInv, TokenTypes, Token!Persisted
  <2>2. Token!KeptStaysIn
    BY DEF TokenInv, KnowsLatest, Token!KeptStaysIn, Token!Open, Token!Waiting
  <2>3. Token!SignedOutIsRefused
    <3> SUFFICES ASSUME NEW d \in Desktops, state[d] = "closed" PROVE copy[d] # token
      BY DEF Token!SignedOutIsRefused
    <3> QED BY DEF TokenInv, KnowsOlder, TokenTypes
  <2> QED BY <2>1, <2>2, <2>3 DEF TokenIsKnown, Token!TokenIsKnown
<1> QED BY <1>1, <1>2, <1>3, TokenRuns, PTL

---------------------------------------------------------------------------
(* Dialogs *)

\* Of a behaviour of the desktop, the dialogs are a behaviour of Dialogs.
LEMMA DialogRuns == Spec => Dialog!Init /\ [][Dialog!Next]_dialogVars
<1>1. Init => Dialog!Init
  BY DEF Init
<1>2. [Next]_vars => [Dialog!Next]_dialogVars
  BY DEF Next, vars, SessionSteps, FrameSteps, DialogSteps, CatalogueSteps, TokenSteps, SizeSteps,
     RelaySteps, ClipSteps, Only
<1> QED BY <1>1, <1>2, PTL DEF Spec

\* A dialog that was shown.
ShownDialog == [kind : Dialog!Kinds, answer : {"open", "confirmed", "cancelled"},
                by : {"none", "enter", "escape", "pointer"}]

\* The inductive invariant of the dialogs: in the one shown last, where it is dangerous, the
\* focus is on the safe button until it is moved.
DialogInv ==
  /\ dialogs \in Seq(ShownDialog) /\ moved \in BOOLEAN
  /\ Len(dialogs) \in Dialog!OpenDialogs /\ Dialog!IsDangerous(dialogs[Len(dialogs)].kind) /\ ~moved
       => focusAt = <<Len(dialogs), "cancel">>

\* What Enter may do to it.
Spared ==
  LET last == Len(dialogs) IN
    /\ last \in Dialog!OpenDialogs /\ Dialog!IsDangerous(dialogs[last].kind)
    /\ dialogs'[last].by = "enter" /\ dialogs'[last].answer = "confirmed"
    => moved

\* Dialogs that are answered stay answered, the others as they are.
LEMMA DialogFinishes ==
  ASSUME DialogInv, NEW by \in {"enter", "escape", "pointer"}, NEW answerOf,
         \A i \in DOMAIN answerOf : answerOf[i] \in {"confirmed", "cancelled"},
         Dialog!Finish(answerOf, by)
  PROVE  /\ DialogInv'
         /\ \A i \in DOMAIN dialogs :
              /\ i \in DOMAIN answerOf => dialogs'[i].answer = answerOf[i] /\ dialogs'[i].by = by
              /\ i \notin DOMAIN answerOf => dialogs'[i] = dialogs[i]
<1> DEFINE n == Len(dialogs)
           e(i) == IF i \in DOMAIN answerOf THEN [dialogs[i] EXCEPT !.answer = answerOf[i], !.by = by]
                   ELSE dialogs[i]
<1>1. n \in Nat /\ DOMAIN dialogs = 1..n /\ \A i \in 1..n : dialogs[i] \in ShownDialog
  BY DEF DialogInv
<1>2. dialogs' = [i \in 1..n |-> e(i)] /\ moved' = moved
  BY <1>1 DEF Dialog!Finish
<1>3. ASSUME NEW i \in 1..n
      PROVE  /\ e(i) \in ShownDialog
             /\ i \in DOMAIN answerOf => e(i).answer = answerOf[i] /\ e(i).by = by
             /\ i \notin DOMAIN answerOf => e(i) = dialogs[i]
  <2>1. dialogs[i] \in ShownDialog
    BY <1>1
  <2>2. CASE i \in DOMAIN answerOf
    <3>1. answerOf[i] \in {"confirmed", "cancelled"}
      BY <2>2
    <3> QED BY <2>1, <2>2, <3>1 DEF ShownDialog
  <2>3. CASE i \notin DOMAIN answerOf
    BY <2>1, <2>3
  <2> QED BY <2>2, <2>3
<1> HIDE DEF e
<1>4. dialogs' \in [1..n -> ShownDialog] /\ DOMAIN dialogs' = 1..n
  BY <1>2, <1>3
<1>5. dialogs' \in Seq(ShownDialog) /\ Len(dialogs') = n
  BY <1>1, <1>4, SeqDef
<1>6. \A i \in 1..n : dialogs'[i] = e(i)
  BY <1>2
<1>7. ASSUME n \in Dialog!OpenDialogs', Dialog!IsDangerous(dialogs[n].kind)', ~moved'
      PROVE  focusAt' = <<n, "cancel">>
  <2>1. n \in 1..n /\ dialogs'[n].answer = "open"
    BY <1>4, <1>7 DEF Dialog!OpenDialogs
  <2>2. n \notin DOMAIN answerOf
    BY <1>3, <1>6, <2>1
  <2>3. dialogs'[n] = dialogs[n]
    BY <1>3, <1>6, <2>1, <2>2
  <2>4. focusAt = <<n, "cancel">>
    BY <1>1, <1>2, <1>7, <2>1, <2>3 DEF DialogInv, Dialog!OpenDialogs, Dialog!IsDangerous
  <2>5. focusAt[1] \notin DOMAIN answerOf
    BY <2>2, <2>4
  <2> QED BY <2>4, <2>5 DEF Dialog!Finish
<1>8. \A i \in DOMAIN dialogs :
        /\ i \in DOMAIN answerOf => dialogs'[i].answer = answerOf[i] /\ dialogs'[i].by = by
        /\ i \notin DOMAIN answerOf => dialogs'[i] = dialogs[i]
  BY <1>1, <1>3, <1>6
<1>9. DialogInv'
  BY <1>2, <1>5, <1>7 DEF DialogInv
<1> QED BY <1>8, <1>9

\* A dialog is shown with its safe button focused.
LEMMA DialogShows ==
  ASSUME DialogInv, NEW k \in Dialog!Kinds, Dialog!Shows(k)
  PROVE  DialogInv' /\ Spared
<1> DEFINE x == [kind |-> k, answer |-> "open", by |-> "none"]
<1>1. /\ dialogs' = Append(dialogs, x) /\ focusAt' = <<Len(dialogs) + 1, Dialog!InitialFocus(k)>>
      /\ moved' = FALSE /\ dialogs \in Seq(ShownDialog)
  BY DEF Dialog!Shows, DialogInv
<1>2. x \in ShownDialog /\ x.kind = k
  BY DEF ShownDialog
<1> HIDE DEF x
<1>3. /\ dialogs' \in Seq(ShownDialog) /\ Len(dialogs') = Len(dialogs) + 1
      /\ DOMAIN dialogs = 1..Len(dialogs) /\ Len(dialogs) \in Nat
      /\ dialogs'[Len(dialogs) + 1] = x /\ \A i \in 1..Len(dialogs) : dialogs'[i] = dialogs[i]
  BY <1>1, <1>2, AppendProperties
<1>4. Dialog!IsDangerous(k) => Dialog!InitialFocus(k) = "cancel"
  BY DEF Dialog!IsDangerous, Dialog!InitialFocus
<1>5. DialogInv'
  BY <1>1, <1>2, <1>3, <1>4 DEF DialogInv, Dialog!IsDangerous
<1>6. Spared
  <2> SUFFICES ASSUME Len(dialogs) \in Dialog!OpenDialogs,
                      dialogs'[Len(dialogs)].answer = "confirmed"
               PROVE  FALSE
    BY DEF Spared
  <2>1. dialogs[Len(dialogs)].answer = "open" /\ Len(dialogs) \in 1..Len(dialogs)
    BY <1>3 DEF Dialog!OpenDialogs
  <2> QED BY <1>3, <2>1
<1> QED BY <1>5, <1>6

\* Every step keeps the invariant of the dialogs, and Enter spares the one shown last.
LEMMA DialogStepInv ==
  ASSUME DialogInv, [Dialog!Next]_dialogVars
  PROVE  DialogInv' /\ [Spared]_dialogVars
<1> DEFINE last == Len(dialogs)
<1>0. /\ Dialog!OpenDialogs \subseteq DOMAIN dialogs
      /\ \A i \in Dialog!OpenDialogs : dialogs[i].answer = "open"
  BY DEF Dialog!OpenDialogs
<1>1. CASE UNCHANGED dialogVars
  BY <1>1 DEF dialogVars, DialogInv, Dialog!OpenDialogs, Dialog!IsDangerous
<1>2. ASSUME NEW k \in Dialog!Kinds, Dialog!Shows(k) PROVE DialogInv' /\ Spared
  BY <1>2, DialogShows
<1>3. CASE Dialog!Enter
  <2> DEFINE confirmed == {i \in Dialog!OpenDialogs : focusAt # <<i, "cancel">>}
  <2>2. CASE confirmed # {}
    <3> DEFINE f == [i \in confirmed |-> "confirmed"]
    <3>1. Dialog!Finish(f, "enter") /\ DOMAIN f = confirmed
          /\ \A i \in DOMAIN f : f[i] \in {"confirmed", "cancelled"}
      BY <1>3, <2>2 DEF Dialog!Enter
    <3> HIDE DEF f
    <3>3. DialogInv' /\ \A i \in DOMAIN dialogs : i \notin DOMAIN f => dialogs'[i] = dialogs[i]
      BY <3>1, DialogFinishes
    <3>4. Spared
      <4> SUFFICES ASSUME last \in Dialog!OpenDialogs, Dialog!IsDangerous(dialogs[last].kind),
                          dialogs'[last].answer = "confirmed", ~moved
                   PROVE  FALSE
        BY DEF Spared
      <4>1. focusAt = <<last, "cancel">>
        BY DEF DialogInv
      <4> QED BY <1>0, <3>1, <3>3, <4>1
    <3> QED BY <3>3, <3>4
  <2>3. CASE confirmed = {}
    <3> DEFINE f == [i \in Dialog!OpenDialogs |-> "cancelled"]
    <3>1. /\ Dialog!Finish(f, "enter") /\ DOMAIN f = Dialog!OpenDialogs
          /\ \A i \in DOMAIN f : f[i] = "cancelled"
      BY <1>3, <2>3 DEF Dialog!Enter
    <3> HIDE DEF f
    <3>2. DialogInv' /\ \A i \in DOMAIN f : dialogs'[i].answer = "cancelled"
      BY <1>0, <3>1, DialogFinishes
    <3> QED BY <3>1, <3>2 DEF Spared
  <2> QED BY <2>2, <2>3
<1>4. CASE Dialog!Escape
  <2> DEFINE f == [i \in Dialog!OpenDialogs |-> "cancelled"]
  <2>1. /\ Dialog!Finish(f, "escape") /\ DOMAIN f = Dialog!OpenDialogs
        /\ \A i \in DOMAIN f : f[i] = "cancelled"
    BY <1>4 DEF Dialog!Escape
  <2> HIDE DEF f
  <2>2. DialogInv' /\ \A i \in DOMAIN f : dialogs'[i].answer = "cancelled"
    BY <1>0, <2>1, DialogFinishes
  <2> QED BY <2>1, <2>2 DEF Spared
<1>5. ASSUME NEW answer \in {"confirmed", "cancelled"}, Dialog!Presses(answer) PROVE DialogInv' /\ Spared
  <2> DEFINE f == [i \in {Dialog!Top} |-> answer]
  <2>1. Dialog!Finish(f, "pointer") /\ DOMAIN f = {Dialog!Top} /\ \A i \in DOMAIN f : f[i] = answer
    BY <1>5 DEF Dialog!Presses
  <2> HIDE DEF f
  <2>3. /\ DialogInv'
        /\ \A i \in DOMAIN dialogs : /\ i \in DOMAIN f => dialogs'[i].by = "pointer"
                                     /\ i \notin DOMAIN f => dialogs'[i] = dialogs[i]
    BY <2>1, DialogFinishes
  <2>4. Spared
    BY <1>0, <2>3 DEF Spared
  <2> QED BY <2>3, <2>4
<1>6. CASE Dialog!FocusMoves
  <2>1. moved' = TRUE /\ dialogs' = dialogs
    BY <1>6 DEF Dialog!FocusMoves
  <2> QED BY <1>0, <2>1 DEF DialogInv, Spared
<1> QED BY <1>1, <1>2, <1>3, <1>4, <1>5, <1>6 DEF Dialog!Next

\* Enter does not confirm the dangerous dialog that was shown last while the focus stays where
\* the dialog put it, however many dialogs are open under it (dialog.ts 97-101).
THEOREM EnterIsSafe == Spec => EnterCancelsDanger
<1>1. Dialog!Init => DialogInv
  <2>1. <<>> \in Seq(ShownDialog)
    OBVIOUS
  <2>2. DOMAIN <<>> = {}
    OBVIOUS
  <2> QED BY <2>1, <2>2 DEF Dialog!Init, DialogInv, Dialog!OpenDialogs
<1>2. DialogInv /\ [Dialog!Next]_dialogVars => DialogInv'
  BY DialogStepInv
<1>3. DialogInv /\ [Dialog!Next]_dialogVars => [Spared]_dialogVars
  BY DialogStepInv
<1> QED BY <1>1, <1>2, <1>3, DialogRuns, PTL DEF EnterCancelsDanger, Dialog!EnterCancelsDanger,
       Spared, Dialog!dialogVars, dialogVars

\* Every set of numbers that is not empty has a least member.
LEMMA LeastNumber ==
  ASSUME NEW T, T \subseteq Nat, T # {}
  PROVE  \E n \in T : \A m \in T : n <= m
<1> DEFINE R == OpToRel(<, Nat)
<1>1. PICK x \in T : \A y \in T : ~(<<y, x>> \in R)
  <2>1. IsWellFoundedOn(R, Nat)
    BY NatLessThanWellFounded
  <2> HIDE DEF R
  <2> QED BY <2>1, WFMin
<1>2. \A y \in T : <<y, x>> \in R <=> y < x
  BY DEF OpToRel
<1>3. \A y \in T : ~(y < x)
  <2> HIDE DEF R
  <2> QED BY <1>1, <1>2
<1>4. x \in Nat /\ \A y \in T : y \in Nat
  OBVIOUS
<1>5. \A y \in T : x <= y
  BY <1>3, <1>4
<1> QED BY <1>5

\* A finite set that is not empty has a member where a function is largest.
LEMMA Largest ==
  ASSUME NEW S, IsFiniteSet(S), S # {}, NEW f \in [S -> Int]
  PROVE  \E x \in S : \A y \in S : f[y] <= f[x]
<1> DEFINE Bad == {T \in SUBSET S : T # {} /\ ~ \E x \in T : \A y \in T : f[y] <= f[x]}
           Counts == {Cardinality(T) : T \in Bad}
<1>1. SUFFICES ASSUME S \in Bad PROVE FALSE
  OBVIOUS
<1>2. \A T \in SUBSET S : IsFiniteSet(T) /\ Cardinality(T) \in Nat
  BY FS_Subset, FS_CardinalityType
<1>3. Counts \subseteq Nat /\ Counts # {}
  BY <1>1, <1>2
<1>4. PICK n \in Counts : \A m \in Counts : n <= m
  <2> HIDE DEF Counts
  <2> QED BY <1>3, LeastNumber
<1>5. PICK T \in Bad : Cardinality(T) = n
  OBVIOUS
<1>6. PICK x \in T : TRUE
  OBVIOUS
<1>7. Cardinality(T \ {x}) = n - 1 /\ n \in Nat
  BY <1>2, <1>3, <1>5, <1>6, FS_RemoveElement
<1>8. T \ {x} \notin Bad
  <2>1. SUFFICES ASSUME T \ {x} \in Bad PROVE FALSE
    OBVIOUS
  <2>2. n - 1 \in Counts
    BY <1>7, <2>1
  <2>3. n <= n - 1
    BY <1>4, <2>2
  <2> QED BY <1>7, <2>3
<1>9. CASE T \ {x} = {}
  <2>1. \A y \in T : f[y] <= f[x]
    <3>1. \A y \in T : y = x
      BY <1>9
    <3>2. f[x] \in Int
      BY <1>5, <1>6
    <3> QED BY <3>1, <3>2
  <2> QED BY <1>5, <1>6, <2>1
<1>10. CASE T \ {x} # {}
  <2>1. PICK z \in T \ {x} : \A y \in T \ {x} : f[y] <= f[z]
    BY <1>8, <1>10
  <2>2. f[x] \in Int /\ f[z] \in Int /\ \A y \in T : f[y] \in Int
    BY <1>5, <1>6
  <2>3. \A y \in T : y = x \/ f[y] <= f[z]
    BY <2>1
  <2>4. CASE f[x] <= f[z]
    <3>1. \A y \in T : f[y] <= f[z]
      BY <2>3, <2>4
    <3> QED BY <1>5, <3>1
  <2>5. CASE f[z] <= f[x]
    <3>1. \A y \in T : f[y] <= f[x]
      BY <2>2, <2>3, <2>5
    <3> QED BY <1>5, <1>6, <3>1
  <2> QED BY <2>2, <2>4, <2>5
<1> QED BY <1>9, <1>10

---------------------------------------------------------------------------
(* The catalogue of applications *)

\* Of a behaviour of the desktop, the catalogue is a behaviour of AppCatalogue.
LEMMA CatalogueRuns == Spec => Catalogue!Init /\ [][Catalogue!Next]_catalogueVars
<1>1. Init => Catalogue!Init
  BY DEF Init
<1>2. [Next]_vars => [Catalogue!Next]_catalogueVars
  BY DEF Next, vars, SessionSteps, FrameSteps, DialogSteps, CatalogueSteps, TokenSteps, SizeSteps,
     RelaySteps, ClipSteps, Only
<1> QED BY <1>1, <1>2, PTL DEF Spec

\* A set is finite there when it is finite here.
LEMMA FiniteThere == \A S : Catalogue!IsFiniteSet(S) <=> IsFiniteSet(S)
BY DEF Catalogue!IsFiniteSet, IsFiniteSet

\* The score of an application that claims a file is that of its strongest claim.
LEMMA BestIsAClaim ==
  ASSUME Catalogue!CatalogueAssumption, NEW a \in Apps, NEW f \in Files, Claims(a, f) # {}
  PROVE  /\ Catalogue!Best(a, f) \in Int
         /\ \E c \in Claims(a, f) : Catalogue!Best(a, f) = Catalogue!Score(c)
         /\ \A c \in Claims(a, f) : Catalogue!Score(c) <= Catalogue!Best(a, f)
<1> DEFINE S == Claims(a, f)
           g == [c \in S |-> Catalogue!Score(c)]
           scores == {Catalogue!Score(c) : c \in S}
<1>1. \A c \in S : Catalogue!Score(c) \in Int
  <2> SUFFICES ASSUME NEW c \in S PROVE Catalogue!Score(c) \in Int
    OBVIOUS
  <2>1. c.kind \in {"name", "extension", "predicate", "fallback"} /\ c.length \in Nat /\ c.priority \in Int
    BY DEF Catalogue!CatalogueAssumption, Catalogue!Kinds
  <2> QED BY <2>1 DEF Catalogue!Score
<1>2. IsFiniteSet(S) /\ S # {}
  BY FiniteThere DEF Catalogue!CatalogueAssumption
<1>3. g \in [S -> Int]
  BY <1>1
<1>4. PICK c \in S : \A d \in S : g[d] <= g[c]
  <2> HIDE DEF S, g
  <2> QED BY <1>2, <1>3, Largest
<1>5. Catalogue!Score(c) \in scores /\ \A x \in scores : x <= Catalogue!Score(c)
  BY <1>4
<1>6. Catalogue!MostOf(scores) \in scores /\ \A x \in scores : x <= Catalogue!MostOf(scores)
  <2> HIDE DEF scores
  <2> QED BY <1>5 DEF Catalogue!MostOf
<1>7. Catalogue!Best(a, f) = Catalogue!MostOf(scores)
  BY DEF Catalogue!Best
<1> HIDE DEF S, g
<1>8. \A c_1 \in S : Catalogue!Score(c_1) \in scores
  OBVIOUS
<1>9. \A x \in scores : \E d \in S : x = Catalogue!Score(d)
  OBVIOUS
<1> HIDE DEF scores
<1> QED BY <1>1, <1>6, <1>7, <1>8, <1>9 DEF S

\* Of the applications that claim a file one has the highest score.
LEMMA HandlersExist ==
  ASSUME Catalogue!CatalogueAssumption, NEW apps \in SUBSET Apps, NEW f \in Files,
         Catalogue!Claimants(apps, f) # {}
  PROVE  Catalogue!Handlers(apps, f) # {}
<1> DEFINE S == Catalogue!Claimants(apps, f)
           g == [a \in S |-> Catalogue!Best(a, f)]
<1>1. S \in SUBSET Apps /\ \A a \in S : Claims(a, f) # {}
  BY DEF Catalogue!Claimants
<1>2. IsFiniteSet(S)
  BY <1>1, FS_Subset, FiniteThere DEF Catalogue!CatalogueAssumption
<1>3. \A a \in S : Catalogue!Best(a, f) \in Int
  BY <1>1, BestIsAClaim
<1>4. g \in [S -> Int]
  BY <1>3
<1>5. PICK a \in S : \A b \in S : g[b] <= g[a]
  <2> HIDE DEF S, g
  <2> QED BY <1>2, <1>4, Largest DEF S
<1>6. \A b \in S : Catalogue!Best(b, f) <= Catalogue!Best(a, f)
  BY <1>5
<1> QED BY <1>6 DEF Catalogue!Handlers

\* What opens a file is what was chosen, or has a claim than which none is more specific.
LEMMA MostSpecificOpens ==
  ASSUME Catalogue!CatalogueAssumption
  PROVE  Catalogue!OpensWithTheMostSpecific
<1> SUFFICES ASSUME NEW p \in Pages, NEW f \in Files, NEW a \in Catalogue!Resolves(p, f)
    PROVE  IF a = NoApp THEN Catalogue!Claimants(Catalogue!Enabled(p), f) = {}
           ELSE /\ a \notin known[p]
                /\ a # chosen[p][ChoiceKey(f)] =>
                     \E c \in Claims(a, f) : \A b \in Catalogue!Enabled(p) :
                       \A d \in Claims(b, f) : ~Catalogue!MoreSpecific(d, c)
  BY DEF Catalogue!OpensWithTheMostSpecific
<1> DEFINE apps == Catalogue!Enabled(p)
           choice == chosen[p][ChoiceKey(f)]
<1>1. apps \in SUBSET Apps /\ NoApp \notin apps /\ \A b \in apps : b \notin known[p]
  BY DEF Catalogue!Enabled, Catalogue!CatalogueAssumption
<1>2. CASE Catalogue!Applies(choice, apps)
  <2>1. a = choice
    BY <1>2 DEF Catalogue!Resolves
  <2>2. a \in apps
    BY <1>2, <2>1 DEF Catalogue!Applies
  <2> QED BY <1>1, <2>1, <2>2
<1>3. CASE ~Catalogue!Applies(choice, apps) /\ Catalogue!Handlers(apps, f) = {}
  <2>1. a = NoApp
    BY <1>3 DEF Catalogue!Resolves
  <2>2. Catalogue!Claimants(apps, f) = {}
    BY <1>1, <1>3, HandlersExist
  <2> QED BY <2>1, <2>2
<1>4. CASE ~Catalogue!Applies(choice, apps) /\ Catalogue!Handlers(apps, f) # {}
  <2>1. a \in Catalogue!Handlers(apps, f)
    BY <1>4 DEF Catalogue!Resolves
  <2>2. /\ a \in apps /\ Claims(a, f) # {}
        /\ \A b \in apps : Claims(b, f) # {} => Catalogue!Best(b, f) <= Catalogue!Best(a, f)
    BY <2>1 DEF Catalogue!Handlers, Catalogue!Claimants
  <2>3. a \in Apps /\ a # NoApp /\ a \notin known[p]
    BY <1>1, <2>2
  <2> HIDE DEF apps
  <2>4. PICK c \in Claims(a, f) : Catalogue!Best(a, f) = Catalogue!Score(c) /\ Catalogue!Best(a, f) \in Int
    BY <2>2, <2>3, BestIsAClaim
  <2>5. ASSUME NEW b \in apps, NEW d \in Claims(b, f), Catalogue!MoreSpecific(d, c) PROVE FALSE
    <3>1. b \in Apps /\ Claims(b, f) # {}
      BY <1>1
    <3>2. Catalogue!Score(d) > Catalogue!Score(c)
      BY <2>3, <2>5, <3>1 DEF Catalogue!CatalogueAssumption, Catalogue!PrioritiesBreakTies
    <3>3. /\ Catalogue!Score(d) <= Catalogue!Best(b, f) /\ Catalogue!Best(b, f) \in Int
          /\ \E e \in Claims(b, f) : Catalogue!Best(b, f) = Catalogue!Score(e)
      BY <3>1, BestIsAClaim
    <3>4. Catalogue!Best(b, f) <= Catalogue!Best(a, f)
      BY <2>2, <3>1
    <3>5. Catalogue!Score(d) \in Int
      <4>1. d.kind \in {"name", "extension", "predicate", "fallback"} /\ d.length \in Nat /\ d.priority \in Int
        BY <3>1 DEF Catalogue!CatalogueAssumption, Catalogue!Kinds
      <4> QED BY <4>1 DEF Catalogue!Score
    <3> QED BY <2>4, <3>2, <3>3, <3>4, <3>5
  <2> QED BY <2>3, <2>4, <2>5 DEF apps
<1> QED BY <1>2, <1>3, <1>4

\* The inductive invariant of the catalogue: Settings is not turned off on any page, nor is
\* a page asking for it.
CatalogueInv ==
  /\ disabled \subseteq Apps /\ file \subseteq Apps
  /\ known \in [Pages -> SUBSET (Apps \ {SettingsApp})]
  /\ asked \in [Pages -> {Catalogue!NothingAsked} \cup
                          [app : Apps \ {SettingsApp}, enabled : BOOLEAN, done : BOOLEAN]]

\* Every step keeps the invariant of the catalogue.
LEMMA CatalogueStepInv ==
  ASSUME Catalogue!CatalogueAssumption, CatalogueInv, [Catalogue!Next]_catalogueVars
  PROVE  CatalogueInv'
<1> DEFINE Asking == [app : Apps \ {SettingsApp}, enabled : BOOLEAN, done : BOOLEAN]
<1>1. CASE UNCHANGED <<disabled, file, known, asked>>
  BY <1>1 DEF CatalogueInv
<1>2. ASSUME NEW p \in Pages, Catalogue!Leaves(p) PROVE CatalogueInv'
  BY <1>2 DEF Catalogue!Leaves, CatalogueInv, Catalogue!serverVars
<1>3. ASSUME NEW p \in Pages, NEW read \in BOOLEAN, Catalogue!Starts(p, read) PROVE CatalogueInv'
  BY <1>3 DEF Catalogue!Starts, CatalogueInv, Catalogue!serverVars, Catalogue!Heeded
<1>4. ASSUME NEW p \in Pages, NEW keeps \in BOOLEAN, Catalogue!Answered(p, keeps) PROVE CatalogueInv'
  <2>1. asked[p] \in Asking
    BY <1>4 DEF Catalogue!Answered, CatalogueInv, Catalogue!NothingAsked
  <2>2. asked[p].app \in Apps \ {SettingsApp}
    BY <2>1
  <2>3. /\ asked' = [asked EXCEPT ![p] = Catalogue!NothingAsked]
        /\ disabled' = disabled /\ file' = file
        /\ \/ known' = [known EXCEPT ![p] = known[p] \ {asked[p].app}]
           \/ known' = [known EXCEPT ![p] = known[p] \cup {asked[p].app}]
    BY <1>4 DEF Catalogue!Answered, Catalogue!serverVars
  <2> QED BY <2>2, <2>3 DEF CatalogueInv
<1>5. ASSUME NEW p \in Pages, NEW written \in BOOLEAN, Catalogue!Serves(p, written) PROVE CatalogueInv'
  <2>1. asked[p] \in Asking
    BY <1>5 DEF Catalogue!Serves, CatalogueInv
  <2>2. asked[p].app \in Apps /\ [asked[p] EXCEPT !.done = TRUE] \in Asking
    BY <2>1
  <2>3. /\ asked' = [asked EXCEPT ![p] = [asked[p] EXCEPT !.done = TRUE]]
        /\ known' = known
        /\ disabled' \subseteq disabled \cup {asked[p].app}
        /\ file' = disabled' \/ file' = file
    BY <1>5 DEF Catalogue!Serves
  <2> HIDE DEF Asking
  <2>4. asked' \in [Pages -> {Catalogue!NothingAsked} \cup Asking]
    BY <2>2, <2>3 DEF CatalogueInv, Asking
  <2>5. disabled' \subseteq Apps /\ file' \subseteq Apps
    BY <2>2, <2>3 DEF CatalogueInv
  <2> QED BY <2>3, <2>4, <2>5 DEF CatalogueInv, Asking
<1>6. ASSUME NEW p \in Pages, NEW a \in Apps, NEW enabled \in BOOLEAN, Catalogue!Switches(p, a, enabled)
      PROVE  CatalogueInv'
  <2>1. [app |-> a, enabled |-> enabled, done |-> FALSE] \in Asking
    BY <1>6 DEF Catalogue!Switches
  <2> QED BY <1>6, <2>1 DEF Catalogue!Switches, CatalogueInv, Catalogue!serverVars
<1>7. CASE Catalogue!ServerRestarts
  BY <1>7 DEF Catalogue!ServerRestarts, CatalogueInv
<1>8. ASSUME NEW p \in Pages, NEW f, NEW a, Catalogue!OpensFile(p, f, a) PROVE CatalogueInv'
  BY <1>1, <1>8 DEF Catalogue!OpensFile, Catalogue!serverVars
<1>9. ASSUME NEW p \in Pages, NEW f, NEW a, NEW remember, Catalogue!OpensWith(p, f, a, remember)
      PROVE  CatalogueInv'
  BY <1>1, <1>9 DEF Catalogue!OpensWith, Catalogue!serverVars
<1>10. ASSUME NEW p \in Pages, NEW f, NEW a, Catalogue!Chooses(p, f, a) PROVE CatalogueInv'
  BY <1>1, <1>10 DEF Catalogue!Chooses, Catalogue!serverVars
<1>11. ASSUME NEW p \in Pages, NEW key, Catalogue!Forgets(p, key) PROVE CatalogueInv'
  BY <1>1, <1>11 DEF Catalogue!Forgets, Catalogue!serverVars
<1>12. ASSUME NEW p \in Pages, NEW a, Catalogue!Closes(p, a) PROVE CatalogueInv'
  BY <1>1, <1>12 DEF Catalogue!Closes, Catalogue!serverVars
<1>13. CASE UNCHANGED catalogueVars
  BY <1>1, <1>13 DEF catalogueVars
<1> QED BY <1>2, <1>3, <1>4, <1>5, <1>6, <1>7, <1>8, <1>9, <1>10, <1>11, <1>12, <1>13
      DEF Catalogue!Next

\* What opens a file is offered, and is what the person chose or what makes a claim than
\* which none that is offered makes a more specific one, and Settings is offered on every
\* page: for any number of pages, applications, files and claims whose priorities do no
\* more than break ties (associations.ts, registry.ts).
THEOREM FilesAreOpenedRight == Spec => []FilesAreOpened
<1>1. Catalogue!Init => CatalogueInv
  BY ConstantsAssumption DEF Catalogue!Init, CatalogueInv, Catalogue!CatalogueAssumption
<1>2. CatalogueInv /\ [Catalogue!Next]_catalogueVars => CatalogueInv'
  BY ConstantsAssumption, CatalogueStepInv
<1>3. CatalogueInv => FilesAreOpened
  <2> SUFFICES ASSUME CatalogueInv PROVE FilesAreOpened
    OBVIOUS
  <2>1. Catalogue!OpensWithTheMostSpecific
    BY ConstantsAssumption, MostSpecificOpens
  <2>2. Catalogue!SettingsStays
    BY DEF CatalogueInv, Catalogue!SettingsStays
  <2> QED BY <2>1, <2>2 DEF FilesAreOpened, Catalogue!FilesAreOpened
<1> QED BY <1>1, <1>2, <1>3, CatalogueRuns, PTL

---------------------------------------------------------------------------
(* The clipboard *)

\* An entry of the clipboard.
Entries == [text : Texts \cup {NoText}, at : Nat]

\* The values of the variables of Clipboard. The later an entry was seen, the larger its time.
ClipTypes ==
  /\ machine \in Texts \cup {NoText}
  /\ local \in Entries /\ system \in Entries /\ clock \in Nat
  /\ seenSystem \in BOOLEAN /\ writing \subseteq Texts
  /\ newest \in [text : Texts \cup {NoText}, where : {"before", "inside", "outside"}]
  /\ local.at <= clock /\ system.at <= clock

\* After a copy in the desktop its own entry is the latest, or says the same; and the
\* machine's clipboard, if it says something else, is no news.
OwnIsLatest ==
  newest.where = "inside" =>
    /\ newest.text = local.text /\ local.text \in Texts /\ local.at >= 1
    /\ system.at <= local.at \/ system.text = local.text
    /\ machine \in {local.text, system.text, NoText} \/ ~seenSystem

\* After a copy elsewhere the machine's clipboard has it; what was there before the desktop
\* started is known once it has been seen.
TheirsIsLatest ==
  newest.where # "inside" =>
    /\ newest.text = machine /\ writing = {}
    /\ newest.where = "before" => (seenSystem => system.text = machine)
    /\ newest.where = "outside" => machine \in Texts

\* The inductive invariant of the clipboard.
ClipInv ==
  /\ ClipTypes /\ OwnIsLatest /\ TheirsIsLatest
  /\ \A t \in writing : t = local.text
  /\ pasted.fair => pasted.got = pasted.meant

\* Of a behaviour of the desktop, the clipboard is a behaviour of Clipboard.
LEMMA ClipRuns == Spec => Clip!Init /\ [][Clip!Next]_clipVars
<1>1. Init => Clip!Init
  BY DEF Init
<1>2. [Next]_vars => [Clip!Next]_clipVars
  BY DEF Next, vars, SessionSteps, FrameSteps, DialogSteps, CatalogueSteps, TokenSteps, SizeSteps,
     RelaySteps, ClipSteps, Only
<1> QED BY <1>1, <1>2, PTL DEF Spec

\* What the page makes of a text the browser shows it: news, later than anything before
\* unless it is the first, or nothing.
LEMMA ClipObserves ==
  ASSUME NoText \notin Texts, ClipTypes, NEW text \in Texts \cup {NoText}, Clip!Observe(text)
  PROVE  /\ local' = local /\ system' \in Entries /\ clock' \in Nat /\ seenSystem' \in BOOLEAN
         /\ clock <= clock' /\ system'.at <= clock'
         /\ \/ /\ text # NoText /\ text # system.text /\ system'.text = text /\ seenSystem'
               /\ IF seenSystem THEN system'.at = clock + 1 ELSE system'.at = 0
            \/ /\ text = NoText \/ text = system.text
               /\ system' = system /\ seenSystem' = seenSystem
<1>1. /\ system \in Entries /\ clock \in Nat /\ seenSystem \in BOOLEAN /\ system.at <= clock
      /\ system.at \in Nat
  BY DEF ClipTypes, Entries
<1>2. CASE Clip!IsNews(text)
  <2>1. /\ system' = Clip!Entry(text, Clip!SeenAt) /\ seenSystem' = TRUE /\ local' = local
        /\ clock' = IF seenSystem THEN clock + 1 ELSE clock
        /\ text # NoText /\ text # system.text
    BY <1>2 DEF Clip!Observe, Clip!IsNews
  <2>2. Clip!SeenAt \in Nat /\ Clip!SeenAt = IF seenSystem THEN clock + 1 ELSE 0
    BY <1>1 DEF Clip!SeenAt
  <2>3. system' \in Entries /\ system'.text = text /\ system'.at = Clip!SeenAt
    BY <2>1, <2>2 DEF Clip!Entry, Entries
  <2>4. clock' \in Nat /\ clock <= clock' /\ system'.at <= clock'
    BY <1>1, <2>1, <2>2, <2>3
  <2> QED BY <1>1, <2>1, <2>2, <2>3, <2>4
<1>3. CASE ~Clip!IsNews(text)
  <2>1. /\ system' = system /\ seenSystem' = seenSystem /\ local' = local /\ clock' = clock
        /\ text = NoText \/ text = system.text
    BY <1>3 DEF Clip!Observe, Clip!IsNews
  <2> QED BY <1>1, <2>1
<1> QED BY <1>2, <1>3

\* What is pasted is the entry that is the latest.
LEMMA ClipLatest ==
  ASSUME NEW a \in Entries, NEW b \in Entries, NEW t \in Texts, NoText \notin Texts,
         \/ a.text = t /\ (b.at <= a.at \/ b.text = t)
         \/ b.text = t /\ a.at < b.at
  PROVE  Clip!Latest(a, b) = t
<1>1. a.at \in Nat /\ b.at \in Nat
  BY DEF Entries
<1> QED BY <1>1 DEF Clip!Latest

\* The page looks at the machine's clipboard: its own copy is no less the latest for it,
\* and one from elsewhere that it can know of becomes the latest.
LEMMA ClipLooks ==
  ASSUME Clip!ClipboardAssumption, ClipInv, Clip!Observe(machine), machine' = machine,
         writing' = writing, newest' = newest
  PROVE  /\ ClipTypes' /\ OwnIsLatest' /\ TheirsIsLatest' /\ (\A t \in writing : t = local.text)'
         /\ Clip!Knowable => Clip!Latest(local', system') = newest.text
<1>1. /\ NoText \notin Texts /\ ClipTypes /\ machine \in Texts \cup {NoText} /\ OwnIsLatest /\ TheirsIsLatest
      /\ \A t \in writing : t = local.text
  BY DEF Clip!ClipboardAssumption, ClipInv, ClipTypes
<1>2. /\ local' = local /\ system' \in Entries /\ clock' \in Nat /\ seenSystem' \in BOOLEAN
      /\ clock <= clock' /\ system'.at <= clock'
      /\ \/ /\ machine # NoText /\ machine # system.text /\ system'.text = machine /\ seenSystem'
            /\ IF seenSystem THEN system'.at = clock + 1 ELSE system'.at = 0
         \/ /\ machine = NoText \/ machine = system.text
            /\ system' = system /\ seenSystem' = seenSystem
  BY <1>1, ClipObserves
<1>3. /\ local \in Entries /\ local.at \in Nat /\ system \in Entries /\ system.at \in Nat /\ system'.at \in Nat
      /\ local.at <= clock /\ clock \in Nat /\ seenSystem \in BOOLEAN
  BY <1>1, <1>2 DEF ClipTypes, Entries
<1>4. ClipTypes'
  <2>1. local.at <= clock'
    BY <1>2, <1>3
  <2> QED BY <1>1, <1>2, <2>1 DEF ClipTypes
<1>5. OwnIsLatest'
  <2> SUFFICES ASSUME newest.where = "inside"
      PROVE  /\ newest.text = local.text /\ local.text \in Texts /\ local.at >= 1
             /\ system'.at <= local.at \/ system'.text = local.text
             /\ machine \in {local.text, system'.text, NoText} \/ ~seenSystem'
    BY <1>2 DEF OwnIsLatest
  <2>1. /\ newest.text = local.text /\ local.text \in Texts /\ local.at >= 1
        /\ system.at <= local.at \/ system.text = local.text
        /\ machine \in {local.text, system.text, NoText} \/ ~seenSystem
    BY <1>1 DEF OwnIsLatest
  <2>2. machine \in {local.text, system'.text, NoText} \/ ~seenSystem'
    BY <1>2, <2>1
  <2>3. system'.at <= local.at \/ system'.text = local.text
    BY <1>2, <1>3, <2>1
  <2> QED BY <2>1, <2>2, <2>3
<1>6. TheirsIsLatest'
  BY <1>1, <1>2 DEF TheirsIsLatest
<1>7. ASSUME Clip!Knowable PROVE Clip!Latest(local', system') = newest.text
  <2>1. CASE newest.where = "inside"
    <3>1. /\ newest.text = local.text /\ local.text \in Texts
          /\ system'.at <= local.at \/ system'.text = local.text
      BY <1>2, <1>5, <2>1 DEF OwnIsLatest
    <3> QED BY <1>1, <1>2, <1>3, <3>1, ClipLatest
  <2>2. CASE newest.where # "inside"
    <3>1. seenSystem /\ machine # system.text /\ newest.text = machine /\ newest.where # "before"
      BY <1>1, <1>7, <2>2 DEF Clip!Knowable, TheirsIsLatest
    <3>2. machine \in Texts
      BY <1>1, <2>2, <3>1 DEF TheirsIsLatest, ClipTypes
    <3>3. system'.text = machine /\ system'.at = clock + 1
      BY <1>1, <1>2, <3>1, <3>2
    <3>4. local.at < system'.at
      BY <1>3, <3>3
    <3> QED BY <1>1, <1>2, <1>3, <3>1, <3>2, <3>3, <3>4, ClipLatest
  <2> QED BY <2>1, <2>2
<1> QED BY <1>1, <1>2, <1>4, <1>5, <1>6, <1>7

\* The desktop's own copy is pasted without looking, where it is the latest.
LEMMA ClipOwn ==
  ASSUME Clip!ClipboardAssumption, ClipInv, newest.where = "inside"
  PROVE  Clip!Latest(local, system) = newest.text
<1>1. /\ NoText \notin Texts /\ local \in Entries /\ system \in Entries
      /\ newest.text = local.text /\ local.text \in Texts
      /\ system.at <= local.at \/ system.text = local.text
  BY DEF Clip!ClipboardAssumption, ClipInv, ClipTypes, OwnIsLatest
<1> QED BY <1>1, ClipLatest

\* A copy that is made in the desktop is the latest.
LEMMA ClipCopies ==
  ASSUME Clip!ClipboardAssumption, ClipInv, NEW text \in Texts,
         Clip!Remember(text), Clip!Copied(text, "inside"), pasted' = pasted,
         machine' = text \/ (machine' = machine /\ Clip!SeenByThePage),
         writing = {}, writing' = {} \/ writing' = {text}
  PROVE  ClipInv'
<1>1. /\ local' = Clip!Entry(text, clock + 1) /\ clock' = clock + 1 /\ system' = system
      /\ seenSystem' = seenSystem /\ newest' = [text |-> text, where |-> "inside"]
  BY DEF Clip!Remember, Clip!Copied
<1>2. /\ clock \in Nat /\ system \in Entries /\ system.at \in Nat /\ system.at <= clock
      /\ seenSystem \in BOOLEAN /\ machine \in Texts \cup {NoText}
  BY DEF ClipInv, ClipTypes, Entries
<1>3. /\ local' \in Entries /\ local'.text = text /\ local'.at = clock + 1 /\ clock' \in Nat
      /\ system.at <= clock + 1 /\ clock + 1 >= 1
  BY <1>1, <1>2 DEF Clip!Entry, Entries
<1>4. newest'.text = text /\ newest'.where = "inside"
      /\ newest' \in [text : Texts \cup {NoText}, where : {"before", "inside", "outside"}]
  BY <1>1
<1>5. ClipTypes'
  BY <1>1, <1>2, <1>3, <1>4 DEF ClipTypes
<1>6. machine' \in {text, system.text, NoText} \/ ~seenSystem
  BY DEF Clip!SeenByThePage
<1>7. OwnIsLatest'
  BY <1>1, <1>3, <1>4, <1>6 DEF OwnIsLatest
<1>8. TheirsIsLatest'
  BY <1>4 DEF TheirsIsLatest
<1>9. \A t \in writing' : t = local'.text
  BY <1>3
<1> QED BY <1>5, <1>7, <1>8, <1>9 DEF ClipInv

\* A write to the machine's clipboard ends: it has the desktop's copy, or what it had.
LEMMA ClipSettles ==
  ASSUME Clip!ClipboardAssumption, ClipInv, NEW text \in Texts, Clip!WriteIsSettled(text)
  PROVE  ClipInv'
<1>1. /\ text \in writing /\ writing' = writing \ {text} /\ newest' = newest /\ pasted' = pasted
      /\ \/ UNCHANGED <<machine, local, system, seenSystem, clock>>
         \/ machine' = text /\ Clip!Observe(text)
  BY DEF Clip!WriteIsSettled
<1>2. ClipTypes /\ OwnIsLatest /\ TheirsIsLatest /\ text = local.text /\ newest.where = "inside"
  BY <1>1 DEF ClipInv, TheirsIsLatest
<1>3. CASE UNCHANGED <<machine, local, system, seenSystem, clock>>
  BY <1>1, <1>3 DEF ClipInv, ClipTypes, OwnIsLatest, TheirsIsLatest
<1>4. CASE machine' = text /\ Clip!Observe(text)
  <2>1. NoText \notin Texts /\ text \in Texts \cup {NoText}
    BY DEF Clip!ClipboardAssumption
  <2>2. /\ local' = local /\ system' \in Entries /\ clock' \in Nat /\ seenSystem' \in BOOLEAN
        /\ clock <= clock' /\ system'.at <= clock'
        /\ system'.text = text \/ system' = system
    BY <1>2, <1>4, <2>1, ClipObserves
  <2>3. local.at <= clock /\ local.at \in Nat /\ clock \in Nat
    BY <1>2 DEF ClipTypes, Entries
  <2>4. local.at <= clock'
    BY <2>2, <2>3
  <2>5. ClipTypes'
    BY <1>1, <1>2, <1>4, <2>2, <2>4 DEF ClipTypes
  <2>6. OwnIsLatest'
    BY <1>1, <1>2, <1>4, <2>2 DEF OwnIsLatest
  <2>7. TheirsIsLatest'
    BY <1>1, <1>2 DEF TheirsIsLatest
  <2> QED BY <1>1, <2>2, <2>5, <2>6, <2>7 DEF ClipInv
<1> QED BY <1>1, <1>3, <1>4

\* Every step keeps the invariant of the clipboard.
LEMMA ClipStepInv ==
  ASSUME Clip!ClipboardAssumption, ~Unseen, ~Overlapping, ClipInv, [Clip!Next]_clipVars
  PROVE  ClipInv'
<1>1. CASE UNCHANGED <<machine, local, system, seenSystem, clock, writing, newest, pasted>>
  BY <1>1 DEF ClipInv, ClipTypes, OwnIsLatest, TheirsIsLatest
<1>2. CASE UNCHANGED clipVars \/ Clip!Gesture \/ Clip!Reads
  BY <1>1, <1>2 DEF clipVars, Clip!Gesture, Clip!Reads
<1>3. ASSUME NEW t \in Texts, Clip!Write(t) PROVE ClipInv'
  <2>1. /\ Clip!SeenByThePage /\ writing = {} /\ Clip!Copied(t, "inside") /\ Clip!Remember(t)
        /\ writing' = {t} /\ machine' = machine /\ pasted' = pasted
    BY <1>3 DEF Clip!Write
  <2> QED BY <2>1, ClipCopies
<1>4. ASSUME NEW t \in Texts, Clip!CopyEvent(t) PROVE ClipInv'
  <2>1. /\ writing = {} /\ Clip!Copied(t, "inside") /\ Clip!Remember(t)
        /\ writing' = {} /\ machine' = t /\ pasted' = pasted
    BY <1>4 DEF Clip!CopyEvent
  <2> QED BY <2>1, ClipCopies
<1>5. ASSUME NEW t \in Texts, Clip!CopiedOutside(t) PROVE ClipInv'
  <2>1. /\ writing = {} /\ newest' = [text |-> t, where |-> "outside"] /\ machine' = t
        /\ UNCHANGED <<local, system, seenSystem, clock, writing, pasted>>
    BY <1>5 DEF Clip!CopiedOutside, Clip!Copied
  <2>2. /\ newest'.text = t /\ newest'.where = "outside"
        /\ newest' \in [text : Texts \cup {NoText}, where : {"before", "inside", "outside"}]
    BY <2>1
  <2>3. ClipTypes'
    BY <2>1, <2>2 DEF ClipInv, ClipTypes
  <2>4. OwnIsLatest' /\ TheirsIsLatest'
    BY <2>1, <2>2 DEF OwnIsLatest, TheirsIsLatest
  <2> QED BY <2>1, <2>3, <2>4 DEF ClipInv
<1>6. CASE Clip!PasteEvent
  <2>1. /\ Clip!Observe(machine) /\ machine' = machine /\ writing' = writing /\ newest' = newest
        /\ pasted' = [got |-> Clip!Latest(local', system'), fair |-> Clip!Knowable /\ writing = {},
                      meant |-> newest.text]
    BY <1>6 DEF Clip!PasteEvent, Clip!Pasted
  <2>2. /\ ClipTypes' /\ OwnIsLatest' /\ TheirsIsLatest' /\ (\A t \in writing : t = local.text)'
        /\ Clip!Knowable => Clip!Latest(local', system') = newest.text
    BY <2>1, ClipLooks
  <2>3. pasted'.fair => pasted'.got = pasted'.meant
    BY <2>1, <2>2
  <2> QED BY <2>2, <2>3 DEF ClipInv
<1>7. CASE Clip!ReadReturns /\ shares = "all"
  <2>1. /\ Clip!Observe(machine) /\ machine' = machine /\ writing' = writing /\ newest' = newest
        /\ pasted' = [got |-> Clip!Latest(local', system'), fair |-> Clip!Knowable /\ writing = {},
                      meant |-> newest.text]
    BY <1>7 DEF Clip!ReadReturns, Clip!Pasted
  <2>2. /\ ClipTypes' /\ OwnIsLatest' /\ TheirsIsLatest' /\ (\A t \in writing : t = local.text)'
        /\ Clip!Knowable => Clip!Latest(local', system') = newest.text
    BY <2>1, ClipLooks
  <2>3. pasted'.fair => pasted'.got = pasted'.meant
    BY <2>1, <2>2
  <2> QED BY <2>2, <2>3 DEF ClipInv
<1>8. CASE (Clip!ReadReturns /\ shares # "all") \/ Clip!PastesOwn
  <2>1. /\ UNCHANGED <<machine, local, system, seenSystem, clock, writing, newest>>
        /\ pasted' = [got |-> Clip!Latest(local', system'),
                      fair |-> newest.where = "inside" /\ writing = {}, meant |-> newest.text]
    BY <1>8 DEF Clip!ReadReturns, Clip!PastesOwn, Clip!Pasted
  <2>2. newest.where = "inside" => Clip!Latest(local', system') = newest.text
    BY <2>1, ClipOwn
  <2>3. pasted'.fair => pasted'.got = pasted'.meant
    BY <2>1, <2>2
  <2> QED BY <2>1, <2>3 DEF ClipInv, ClipTypes, OwnIsLatest, TheirsIsLatest
<1> QED BY <1>2, <1>3, <1>4, <1>5, <1>6, <1>7, <1>8, ClipSettles DEF Clip!Next

\* Initially nothing was copied here.
LEMMA ClipInitInv == ASSUME Clip!ClipboardAssumption, Clip!Init PROVE ClipInv
<1>1. /\ machine \in Texts \cup {NoText} /\ local = [text |-> NoText, at |-> 0] /\ system = local
      /\ seenSystem = FALSE /\ clock = 0 /\ writing = {}
      /\ newest = [text |-> machine, where |-> "before"]
      /\ pasted = [got |-> NoText, fair |-> FALSE, meant |-> NoText]
  BY DEF Clip!Init, Clip!Entry
<1>2. local \in Entries /\ local.at = 0
  BY <1>1 DEF Entries
<1>3. /\ newest.text = machine /\ newest.where = "before"
      /\ newest \in [text : Texts \cup {NoText}, where : {"before", "inside", "outside"}]
  BY <1>1
<1>4. ClipTypes
  <2>1. local.at <= clock /\ system.at <= clock /\ clock \in Nat
    BY <1>1, <1>2
  <2>2. seenSystem \in BOOLEAN /\ writing \subseteq Texts /\ system \in Entries
    BY <1>1, <1>2
  <2>3. machine \in Texts \cup {NoText}
    BY <1>1
  <2> QED BY <1>2, <1>3, <2>1, <2>2, <2>3 DEF ClipTypes
<1>5. OwnIsLatest /\ TheirsIsLatest
  BY <1>1, <1>3 DEF OwnIsLatest, TheirsIsLatest
<1>6. ~pasted.fair
  BY <1>1
<1> QED BY <1>1, <1>4, <1>5, <1>6 DEF ClipInv

\* What is pasted, in the terminal, the editor or an application, is what was copied last, in the
\* desktop or outside it: for any texts, whatever the browser allows, where no copy is made in
\* the desktop while the machine's clipboard holds one the page has not seen (~Unseen), or while
\* an earlier copy is still being written (~Overlapping) (clipboard.ts).
THEOREM PastesAreRight == ASSUME ~Unseen, ~Overlapping PROVE Spec => []Clip!PastesTheLatest
<1>1. Clip!Init => ClipInv
  BY ConstantsAssumption, ClipInitInv
<1>2. ClipInv /\ [Clip!Next]_clipVars => ClipInv'
  BY ConstantsAssumption, ClipStepInv
<1>3. ClipInv => Clip!PastesTheLatest
  BY DEF ClipInv, Clip!PastesTheLatest
<1> QED BY <1>1, <1>2, <1>3, ClipRuns, PTL

---------------------------------------------------------------------------
(* Keys on their way to an application *)

\* A key of the page, for one of its windows.
KeyMessage == [t : {"key"}, id : Canvases, key : Relay!Keys, down : BOOLEAN, replay : BOOLEAN]
\* A window of the page gets or loses the focus.
FocusMessage == [t : {"focus"}, id : Canvases, on : BOOLEAN]
\* What was copied outside is offered to the applications.
PasteMessage == [t : {"paste"}]
\* Whatever a wire carries.
RelayMessage == KeyMessage \cup FocusMessage \cup PasteMessage

\* What puts key k down.
Downs(k) == {m \in KeyMessage : m.key = k /\ m.down}
\* What takes the window from the seat.
Offs == {m \in FocusMessage : ~m.on}
\* What lets key k go.
LetsGo(k) == {m \in KeyMessage : m.key = k /\ ~m.down} \cup Offs
\* What replays a key.
Replays == {m \in KeyMessage : m.down /\ m.replay}
\* What gives the seat a window.
Gives == KeyMessage \cup {m \in FocusMessage : m.on}

\* Whether something that is b now is so after p messages of q, of which those in A bring it
\* about and those in R end it.
After(b, q, p, A, R) ==
  \/ \E i \in 1..p : q[i] \in A /\ \A j \in (i + 1)..p : q[j] \notin R
  \/ b /\ \A j \in 1..p : q[j] \notin R

\* What a wire q has to be: once the seat has read everything it holds the keys of hand, and
\* has a window if the page has one with the focus; it has one when it is told that one lost
\* the focus, and a replayed key finds Ctrl down.
WireIs(q, hand, at) ==
  /\ q \in Seq(RelayMessage)
  /\ \A k \in Relay!Keys : After(k \in pressed, q, Len(q), Downs(k), LetsGo(k)) <=> k \in hand
  /\ at # Nowhere => After(keyboard # Nowhere, q, Len(q), Gives, Offs)
  /\ \A p \in 1..Len(q) :
       /\ q[p] \in Offs => After(keyboard # Nowhere, q, p - 1, Gives, Offs)
       /\ q[p] \in Replays => After("ctrl" \in pressed, q, p - 1, Downs("ctrl"), LetsGo("ctrl"))

\* The values of the variables of KeyRelay.
RelayTypes ==
  /\ held \subseteq Relay!Keys /\ inHand \subseteq held /\ pressed \subseteq Relay!Keys
  /\ keyFocus \in Canvases \cup {Nowhere} /\ wire \in Seq(RelayMessage)
  /\ keyboard \in Canvases \cup {Nowhere}
  /\ writes \in {0, 1} /\ borrowedFocus \in BOOLEAN /\ (borrowedFocus <=> writes = 1)

\* What is in hand is in hand for the window with the focus, and no key but a modifier is
\* while the shell has the keys. A paste waits for the window that has the focus, with Ctrl
\* in hand.
InHandInv ==
  /\ keyFocus = Nowhere => inHand = {}
  /\ Relay!Reserved(held) => inHand \subseteq {"ctrl", "alt"}
  /\ pendingPaste # Nowhere => pendingPaste = keyFocus /\ "ctrl" \in inHand

\* The inductive invariant of the keys.
RelayInv == RelayTypes /\ InHandInv /\ WireIs(wire, inHand, keyFocus) /\ ~astray

\* Of a behaviour of the desktop, the keys are a behaviour of KeyRelay.
LEMMA RelayRuns == Spec => Relay!Init /\ [][Relay!Next]_relayVars
<1>1. Init => Relay!Init
  BY DEF Init
<1>2. [Next]_vars => [Relay!Next]_relayVars
  BY DEF Next, vars, SessionSteps, FrameSteps, DialogSteps, CatalogueSteps, TokenSteps, SizeSteps,
     RelaySteps, ClipSteps, Only
<1> QED BY <1>1, <1>2, PTL DEF Spec

\* What is so after some messages does not depend on the ones behind them.
LEMMA AfterPrefix ==
  ASSUME NEW b \in BOOLEAN, NEW q, NEW s, NEW A, NEW R, NEW p \in Nat,
         \A i \in 1..p : q[i] = s[i]
  PROVE  After(b, q, p, A, R) <=> After(b, s, p, A, R)
<1>1. \A i \in 1..p : \A j \in (i + 1)..p : q[j] = s[j]
  <2> SUFFICES ASSUME NEW i \in 1..p, NEW j \in (i + 1)..p PROVE q[j] = s[j]
    OBVIOUS
  <2>1. j \in 1..p
    OBVIOUS
  <2> QED BY <2>1
<1> QED BY <1>1 DEF After

\* What one more message makes of it.
LEMMA AfterOne ==
  ASSUME NEW b \in BOOLEAN, NEW q, NEW A, NEW R, NEW p \in Nat
  PROVE  After(b, q, p + 1, A, R) <=> q[p + 1] \in A \/ (q[p + 1] \notin R /\ After(b, q, p, A, R))
<1> DEFINE m == q[p + 1]
<1>1. ASSUME m \in A PROVE After(b, q, p + 1, A, R)
  <2>1. p + 1 \in 1..(p + 1) /\ \A j \in ((p + 1) + 1)..(p + 1) : q[j] \notin R
    OBVIOUS
  <2> QED BY <1>1, <2>1 DEF After
<1>2. ASSUME m \notin R, After(b, q, p, A, R) PROVE After(b, q, p + 1, A, R)
  <2>1. CASE \E i \in 1..p : q[i] \in A /\ \A j \in (i + 1)..p : q[j] \notin R
    <3>1. PICK i \in 1..p : q[i] \in A /\ \A j \in (i + 1)..p : q[j] \notin R
      BY <2>1
    <3>2. i \in 1..(p + 1)
      OBVIOUS
    <3>3. \A j \in (i + 1)..(p + 1) : j = p + 1 \/ j \in (i + 1)..p
      OBVIOUS
    <3> QED BY <1>2, <3>1, <3>2, <3>3 DEF After
  <2>2. CASE b /\ \A j \in 1..p : q[j] \notin R
    <3>1. \A j \in 1..(p + 1) : j = p + 1 \/ j \in 1..p
      OBVIOUS
    <3> QED BY <1>2, <2>2, <3>1 DEF After
  <2> QED BY <1>2, <2>1, <2>2 DEF After
<1>3. ASSUME After(b, q, p + 1, A, R), m \notin A PROVE m \notin R /\ After(b, q, p, A, R)
  <2>1. CASE \E i \in 1..(p + 1) : q[i] \in A /\ \A j \in (i + 1)..(p + 1) : q[j] \notin R
    <3>1. PICK i \in 1..(p + 1) : q[i] \in A /\ \A j \in (i + 1)..(p + 1) : q[j] \notin R
      BY <2>1
    <3>2. i # p + 1
      BY <1>3, <3>1
    <3>3. i \in 1..p /\ p + 1 \in (i + 1)..(p + 1) /\ \A j \in (i + 1)..p : j \in (i + 1)..(p + 1)
      BY <3>2
    <3> QED BY <3>1, <3>3 DEF After
  <2>2. CASE b /\ \A j \in 1..(p + 1) : q[j] \notin R
    <3>1. p + 1 \in 1..(p + 1) /\ \A j \in 1..p : j \in 1..(p + 1)
      OBVIOUS
    <3> QED BY <2>2, <3>1 DEF After
  <2> QED BY <1>3, <2>1, <2>2 DEF After
<1> QED BY <1>1, <1>2, <1>3

\* Before the first message it is as it is now.
LEMMA AfterNone ==
  ASSUME NEW b \in BOOLEAN, NEW q, NEW A, NEW R
  PROVE  After(b, q, 0, A, R) <=> b
BY DEF After

\* Once the first message was read, it is so after the rest as it was.
LEMMA AfterRest ==
  ASSUME NEW b \in BOOLEAN, NEW S, NEW q \in Seq(S), q # <<>>, NEW A, NEW R, NEW d \in BOOLEAN,
         d <=> q[1] \in A \/ (b /\ q[1] \notin R), NEW p \in Nat, p < Len(q)
  PROVE  After(d, Tail(q), p, A, R) <=> After(b, q, p + 1, A, R)
<1> DEFINE s == Tail(q)
<1>1. Len(s) = Len(q) - 1 /\ Len(q) \in Nat /\ \A i \in 1..Len(s) : s[i] = q[i + 1]
  BY HeadTailProperties, LenProperties
<1> HIDE DEF s
<1>2. \A i \in 1..p : s[i] = q[i + 1]
  BY <1>1
<1>3. ASSUME After(d, s, p, A, R) PROVE After(b, q, p + 1, A, R)
  <2>1. CASE \E i \in 1..p : s[i] \in A /\ \A j \in (i + 1)..p : s[j] \notin R
    <3>1. PICK i \in 1..p : s[i] \in A /\ \A j \in (i + 1)..p : s[j] \notin R
      BY <2>1
    <3>2. i + 1 \in 1..(p + 1) /\ q[i + 1] \in A
      BY <1>2, <3>1
    <3>3. ASSUME NEW j \in ((i + 1) + 1)..(p + 1) PROVE q[j] \notin R
      <4>1. j - 1 \in (i + 1)..p /\ j - 1 \in 1..p /\ (j - 1) + 1 = j
        OBVIOUS
      <4>2. s[j - 1] \notin R /\ s[j - 1] = q[(j - 1) + 1]
        BY <1>2, <3>1, <4>1
      <4> QED BY <4>1, <4>2
    <3> QED BY <3>2, <3>3 DEF After
  <2>2. CASE d /\ \A j \in 1..p : s[j] \notin R
    <3>1. ASSUME NEW j \in 2..(p + 1) PROVE q[j] \notin R
      <4>1. j - 1 \in 1..p /\ (j - 1) + 1 = j
        OBVIOUS
      <4>2. s[j - 1] \notin R /\ s[j - 1] = q[(j - 1) + 1]
        BY <1>2, <2>2, <4>1
      <4> QED BY <4>1, <4>2
    <3>2. CASE q[1] \in A
      <4>1. 1 \in 1..(p + 1) /\ (1 + 1)..(p + 1) = 2..(p + 1)
        OBVIOUS
      <4> QED BY <3>1, <3>2, <4>1 DEF After
    <3>3. CASE b /\ q[1] \notin R
      <4>1. \A j \in 1..(p + 1) : j = 1 \/ j \in 2..(p + 1)
        OBVIOUS
      <4> QED BY <3>1, <3>3, <4>1 DEF After
    <3> QED BY <2>2, <3>2, <3>3
  <2> QED BY <1>3, <2>1, <2>2 DEF After
<1>4. ASSUME After(b, q, p + 1, A, R) PROVE After(d, s, p, A, R)
  <2>1. CASE \E i \in 1..(p + 1) : q[i] \in A /\ \A j \in (i + 1)..(p + 1) : q[j] \notin R
    <3>1. PICK i \in 1..(p + 1) : q[i] \in A /\ \A j \in (i + 1)..(p + 1) : q[j] \notin R
      BY <2>1
    <3>2. ASSUME NEW j \in 1..p, j >= i PROVE s[j] \notin R
      <4>1. j + 1 \in (i + 1)..(p + 1)
        BY <3>2
      <4> QED BY <1>2, <3>1, <4>1
    <3>3. CASE i = 1
      <4>1. d /\ \A j \in 1..p : j >= i
        BY <3>1, <3>3
      <4> QED BY <3>2, <4>1 DEF After
    <3>4. CASE i # 1
      <4>1. i - 1 \in 1..p /\ (i - 1) + 1 = i
        BY <3>4
      <4>2. s[i - 1] \in A
        BY <1>2, <3>1, <4>1
      <4>3. \A j \in ((i - 1) + 1)..p : j \in 1..p /\ j >= i
        BY <4>1
      <4> QED BY <3>2, <4>1, <4>2, <4>3 DEF After
    <3> QED BY <3>3, <3>4
  <2>2. CASE b /\ \A j \in 1..(p + 1) : q[j] \notin R
    <3>1. 1 \in 1..(p + 1) /\ \A j \in 1..p : j + 1 \in 1..(p + 1)
      OBVIOUS
    <3>2. d /\ \A j \in 1..p : s[j] \notin R
      BY <1>2, <2>2, <3>1
    <3> QED BY <3>2 DEF After
  <2> QED BY <1>4, <2>1, <2>2 DEF After
<1> QED BY <1>3, <1>4 DEF s

\* A message is put on the wire: what its reading brings about, and ends.
LEMMA WireMore ==
  ASSUME NEW b \in BOOLEAN, NEW q \in Seq(RelayMessage), NEW m \in RelayMessage, NEW A, NEW R
  PROVE  /\ \A p \in 0..Len(q) : After(b, Append(q, m), p, A, R) <=> After(b, q, p, A, R)
         /\ After(b, Append(q, m), Len(q) + 1, A, R) <=> m \in A \/ (m \notin R /\ After(b, q, Len(q), A, R))
<1> DEFINE s == Append(q, m)
<1>1. /\ Len(q) \in Nat /\ s[Len(q) + 1] = m /\ \A i \in 1..Len(q) : s[i] = q[i]
  BY AppendProperties
<1> HIDE DEF s
<1>2. ASSUME NEW p \in 0..Len(q) PROVE After(b, s, p, A, R) <=> After(b, q, p, A, R)
  <2>1. p \in Nat /\ \A i \in 1..p : s[i] = q[i]
    BY <1>1
  <2> QED BY <2>1, AfterPrefix
<1>3. After(b, s, Len(q) + 1, A, R) <=> m \in A \/ (m \notin R /\ After(b, s, Len(q), A, R))
  BY <1>1, AfterOne
<1>4. Len(q) \in 0..Len(q)
  BY <1>1
<1> QED BY <1>2, <1>3, <1>4 DEF s

\* A message that may come next keeps the wire as is wanted.
LEMMA WirePut ==
  ASSUME NEW q, NEW hand, NEW at, WireIs(q, hand, at), NEW m \in RelayMessage,
         NEW hand2, NEW at2,
         \A k \in Relay!Keys : k \in hand2 <=> m \in Downs(k) \/ (m \notin LetsGo(k) /\ k \in hand),
         at2 # Nowhere => m \in Gives \/ (m \notin Offs /\ at # Nowhere),
         m \in Offs => at # Nowhere,
         m \in Replays => "ctrl" \in hand
  PROVE  WireIs(Append(q, m), hand2, at2)
<1> DEFINE s == Append(q, m)
           n == Len(q)
<1>1. q \in Seq(RelayMessage) /\ n \in Nat /\ s \in Seq(RelayMessage) /\ Len(s) = n + 1 /\ s[n + 1] = m
      /\ \A i \in 1..n : s[i] = q[i]
  BY AppendProperties DEF WireIs
<1>2. ASSUME NEW b \in BOOLEAN, NEW A, NEW R
      PROVE  /\ \A p \in 0..n : After(b, s, p, A, R) <=> After(b, q, p, A, R)
             /\ After(b, s, n + 1, A, R) <=> m \in A \/ (m \notin R /\ After(b, q, n, A, R))
  BY <1>1, WireMore
<1> HIDE DEF s, n
<1>3. ASSUME NEW k \in Relay!Keys
      PROVE  After(k \in pressed, s, n + 1, Downs(k), LetsGo(k)) <=> k \in hand2
  <2>1. After(k \in pressed, q, n, Downs(k), LetsGo(k)) <=> k \in hand
    BY DEF WireIs, n
  <2>2. After(k \in pressed, s, n + 1, Downs(k), LetsGo(k))
        <=> m \in Downs(k) \/ (m \notin LetsGo(k) /\ After(k \in pressed, q, n, Downs(k), LetsGo(k)))
    <3>1. (k \in pressed) \in BOOLEAN
      OBVIOUS
    <3> QED BY <1>2, <3>1
  <2> QED BY <2>1, <2>2
<1>4. at2 # Nowhere => After(keyboard # Nowhere, s, n + 1, Gives, Offs)
  <2>1. at # Nowhere => After(keyboard # Nowhere, q, n, Gives, Offs)
    BY DEF WireIs, n
  <2>2. After(keyboard # Nowhere, s, n + 1, Gives, Offs)
        <=> m \in Gives \/ (m \notin Offs /\ After(keyboard # Nowhere, q, n, Gives, Offs))
    <3>1. (keyboard # Nowhere) \in BOOLEAN
      OBVIOUS
    <3> QED BY <1>2, <3>1
  <2> QED BY <2>1, <2>2
<1>5. ASSUME NEW p \in 1..(n + 1), s[p] \in Offs PROVE After(keyboard # Nowhere, s, p - 1, Gives, Offs)
  <2>1. p - 1 \in 0..n /\ (p \in 1..n \/ p = n + 1)
    BY <1>1
  <2>2. After(keyboard # Nowhere, s, p - 1, Gives, Offs) <=> After(keyboard # Nowhere, q, p - 1, Gives, Offs)
    <3>1. (keyboard # Nowhere) \in BOOLEAN
      OBVIOUS
    <3> QED BY <1>2, <2>1, <3>1
  <2>3. CASE p \in 1..n
    BY <1>1, <1>5, <2>2, <2>3 DEF WireIs, n
  <2>4. CASE p = n + 1
    <3>1. m \in Offs /\ p - 1 = n
      BY <1>1, <1>5, <2>4
    <3>2. After(keyboard # Nowhere, q, n, Gives, Offs)
      BY <3>1 DEF WireIs, n
    <3> QED BY <2>2, <3>1, <3>2
  <2> QED BY <2>1, <2>3, <2>4
<1>6. ASSUME NEW p \in 1..(n + 1), s[p] \in Replays
      PROVE  After("ctrl" \in pressed, s, p - 1, Downs("ctrl"), LetsGo("ctrl"))
  <2>1. p - 1 \in 0..n /\ (p \in 1..n \/ p = n + 1)
    BY <1>1
  <2>2. After("ctrl" \in pressed, s, p - 1, Downs("ctrl"), LetsGo("ctrl"))
        <=> After("ctrl" \in pressed, q, p - 1, Downs("ctrl"), LetsGo("ctrl"))
    <3> DEFINE b == "ctrl" \in pressed
               A == Downs("ctrl")
               R == LetsGo("ctrl")
    <3>1. b \in BOOLEAN
      OBVIOUS
    <3> HIDE DEF b, A, R
    <3>2. \A x \in 0..n : After(b, s, x, A, R) <=> After(b, q, x, A, R)
      BY <1>2, <3>1
    <3>3. After(b, s, p - 1, A, R) <=> After(b, q, p - 1, A, R)
      BY <2>1, <3>2
    <3> QED BY <3>3 DEF b, A, R
  <2>3. CASE p \in 1..n
    BY <1>1, <1>6, <2>2, <2>3 DEF WireIs, n
  <2>4. CASE p = n + 1
    <3>1. "ctrl" \in hand /\ p - 1 = n /\ "ctrl" \in Relay!Keys
      BY <1>1, <1>6, <2>4 DEF Relay!Keys
    <3>2. After("ctrl" \in pressed, q, n, Downs("ctrl"), LetsGo("ctrl"))
      BY <3>1 DEF WireIs, n
    <3> QED BY <2>2, <3>1, <3>2
  <2> QED BY <2>1, <2>3, <2>4
<1>7. WireIs(s, hand2, at2)
  <2>1. 1..Len(s) = 1..(n + 1)
    BY <1>1
  <2> QED BY <1>1, <1>3, <1>4, <1>5, <1>6, <2>1 DEF WireIs
<1> QED BY <1>7 DEF s

\* A message that is put behind others is appended.
LEMMA PutBehind ==
  ASSUME NEW q \in Seq(RelayMessage), NEW m \in RelayMessage
  PROVE  q \o <<m>> = Append(q, m)
BY AppendIsConcat

\* A paste is put on the wire where Ctrl is in hand; V is let go behind it.
LEMMA WirePaste ==
  ASSUME NEW c \in Canvases, NEW hand, WireIs(wire, hand, c), c # Nowhere,
         "ctrl" \in hand, Relay!SendPaste(c)
  PROVE  \E q : wire' = q /\ WireIs(q, hand \ {"v"}, c)
<1> DEFINE k == Relay!Key(c, "v", TRUE)
           m1 == [t |-> "paste"]
           m2 == [k EXCEPT !.replay = TRUE]
           m3 == [Relay!Key(c, "v", FALSE) EXCEPT !.replay = TRUE]
           q1 == Append(wire, m1)
           q2 == Append(q1, m2)
           q3 == Append(q2, m3)
<1>1. m1 \in RelayMessage /\ m1 \notin KeyMessage /\ m1 \notin FocusMessage
  BY DEF RelayMessage, PasteMessage, KeyMessage, FocusMessage
<1>2. /\ m2 \in KeyMessage /\ m2 \in RelayMessage /\ m2.key = "v" /\ m2.down = TRUE /\ m2.replay = TRUE
      /\ m2 \notin FocusMessage
  BY DEF Relay!Key, RelayMessage, KeyMessage, FocusMessage, Relay!Keys
<1>3. /\ m3 \in KeyMessage /\ m3 \in RelayMessage /\ m3.key = "v" /\ m3.down = FALSE
      /\ m3 \notin FocusMessage
  BY DEF Relay!Key, RelayMessage, KeyMessage, FocusMessage, Relay!Keys
<1>4. wire' = wire \o <<m1, m2, m3>> /\ wire \in Seq(RelayMessage)
  BY DEF Relay!SendPaste, WireIs
<1> HIDE DEF k, m1, m2, m3
<1>5. q1 \in Seq(RelayMessage) /\ q2 \in Seq(RelayMessage) /\ q3 \in Seq(RelayMessage)
  BY <1>1, <1>2, <1>3, <1>4
<1>6. wire' = q3
  <2>1. q3 \in Seq(RelayMessage) /\ wire' \in Seq(RelayMessage)
    BY <1>1, <1>2, <1>3, <1>4
  <2>2. Len(q3) = Len(wire) + 3 /\ Len(wire') = Len(wire) + 3
    BY <1>1, <1>2, <1>3, <1>4
  <2>3. \A i \in 1..Len(q3) : q3[i] = wire'[i]
    BY <1>1, <1>2, <1>3, <1>4
  <2> QED BY <2>1, <2>2, <2>3, SeqEqual
<1> HIDE DEF q1, q2, q3
<1>7. WireIs(q1, hand, c)
  <2>1. \A x \in Relay!Keys : m1 \notin Downs(x) /\ m1 \notin LetsGo(x)
    BY <1>1 DEF Downs, LetsGo, Offs
  <2>2. m1 \notin Offs /\ m1 \notin Replays
    BY <1>1 DEF Replays, Offs
  <2> QED BY <1>1, <2>1, <2>2, WirePut DEF q1
<1>8. WireIs(q2, hand \cup {"v"}, c)
  <2>1. \A x \in Relay!Keys : (m2 \in Downs(x) <=> x = "v") /\ m2 \notin LetsGo(x)
    BY <1>2 DEF Downs, LetsGo, Offs
  <2>2. m2 \notin Offs /\ m2 \in Gives
    BY <1>2 DEF Gives, Offs
  <2>3. \A x \in Relay!Keys : x \in hand \cup {"v"} <=> m2 \in Downs(x) \/ (m2 \notin LetsGo(x) /\ x \in hand)
    BY <2>1
  <2> QED BY <1>2, <1>7, <2>2, <2>3, WirePut DEF q2
<1>9. WireIs(q3, hand \ {"v"}, c)
  <2>1. \A x \in Relay!Keys : m3 \notin Downs(x) /\ (m3 \in LetsGo(x) <=> x = "v")
    BY <1>3 DEF Downs, LetsGo, Offs
  <2>2. m3 \notin Offs /\ m3 \in Gives /\ m3 \notin Replays
    BY <1>3 DEF Gives, Offs, Replays
  <2>3. \A x \in Relay!Keys : x \in hand \ {"v"} <=> m3 \in Downs(x) \/ (m3 \notin LetsGo(x) /\ x \in hand \cup {"v"})
    BY <2>1
  <2> QED BY <1>3, <1>8, <2>2, <2>3, WirePut DEF q3
<1> QED BY <1>6, <1>9

\* The seat reads a message.
LEMMA RelaySeatReads ==
  ASSUME Relay!KeyRelayAssumption, RelayInv, Relay!SeatReads
  PROVE  RelayInv'
<1> DEFINE m == Head(wire)
           s == Tail(wire)
           n == Len(wire)
<1>1. /\ wire # <<>> /\ wire' = s /\ wire \in Seq(RelayMessage) /\ WireIs(wire, inHand, keyFocus)
      /\ UNCHANGED <<held, keyFocus, inHand, pendingPaste, writes, borrowedFocus>>
      /\ pressed \subseteq Relay!Keys /\ keyboard \in Canvases \cup {Nowhere} /\ Nowhere \notin Canvases
      /\ ~astray
  BY DEF Relay!SeatReads, RelayInv, RelayTypes, WireIs, Relay!KeyRelayAssumption
<1>2. /\ m = wire[1] /\ m \in RelayMessage /\ n \in Nat /\ n >= 1 /\ 1 \in 1..n
      /\ s \in Seq(RelayMessage) /\ Len(s) = n - 1 /\ \A i \in 1..(n - 1) : s[i] = wire[i + 1]
  BY <1>1, HeadTailProperties, LenProperties, EmptySeq
<1>3. m \in Offs => keyboard # Nowhere
  <2>1. m \in Offs => After(keyboard # Nowhere, wire, 1 - 1, Gives, Offs)
    BY <1>1, <1>2 DEF WireIs
  <2>2. After(keyboard # Nowhere, wire, 0, Gives, Offs) <=> keyboard # Nowhere
    <3>1. (keyboard # Nowhere) \in BOOLEAN
      OBVIOUS
    <3> QED BY <3>1, AfterNone
  <2> QED BY <2>1, <2>2
<1>4. m \in Replays => "ctrl" \in pressed
  <2>1. m \in Replays => After("ctrl" \in pressed, wire, 1 - 1, Downs("ctrl"), LetsGo("ctrl"))
    BY <1>1, <1>2 DEF WireIs
  <2>2. After("ctrl" \in pressed, wire, 0, Downs("ctrl"), LetsGo("ctrl")) <=> "ctrl" \in pressed
    <3>1. ("ctrl" \in pressed) \in BOOLEAN
      OBVIOUS
    <3> QED BY <3>1, AfterNone
  <2> QED BY <2>1, <2>2
<1> HIDE DEF m, s, n
<1>5. /\ pressed' = CASE m.t = "key" /\ m.down -> pressed \cup {m.key}
                      [] m.t = "key" /\ ~m.down -> pressed \ {m.key}
                      [] m.t = "focus" /\ ~m.on -> Relay!LetGo
                      [] OTHER -> pressed
      /\ keyboard' = CASE m.t = "key" \/ (m.t = "focus" /\ m.on) -> m.id
                       [] m.t = "focus" /\ ~m.on -> Nowhere
                       [] OTHER -> keyboard
      /\ astray' = (astray \/ (m.t = "key" /\ m.down /\ m.replay /\ "ctrl" \notin pressed))
  BY DEF Relay!SeatReads, m
<1>6. /\ pressed' \subseteq Relay!Keys /\ keyboard' \in Canvases \cup {Nowhere}
      /\ keyboard' # Nowhere <=> m \in Gives \/ (keyboard # Nowhere /\ m \notin Offs)
      /\ \A k \in Relay!Keys : k \in pressed' <=> m \in Downs(k) \/ (k \in pressed /\ m \notin LetsGo(k))
  <2>1. CASE m \in KeyMessage
    <3>1. m.t = "key" /\ m.key \in Relay!Keys /\ m.down \in BOOLEAN /\ m.id \in Canvases /\ m \notin FocusMessage
      BY <2>1 DEF KeyMessage, FocusMessage
    <3>2. pressed' = IF m.down THEN pressed \cup {m.key} ELSE pressed \ {m.key}
      BY <1>5, <3>1
    <3>3. keyboard' = m.id
      BY <1>5, <3>1
    <3> QED BY <1>1, <2>1, <3>1, <3>2, <3>3 DEF Gives, Offs, Downs, LetsGo
  <2>2. CASE m \in FocusMessage
    <3>1. m.t = "focus" /\ m.on \in BOOLEAN /\ m.id \in Canvases /\ m \notin KeyMessage
      BY <2>2 DEF KeyMessage, FocusMessage
    <3>2. CASE m.on
      <4>1. pressed' = pressed /\ keyboard' = m.id
        BY <1>5, <3>1, <3>2
      <4> QED BY <1>1, <2>2, <3>1, <3>2, <4>1 DEF Gives, Offs, Downs, LetsGo
    <3>3. CASE ~m.on
      <4>1. m \in Offs
        BY <2>2, <3>3 DEF Offs
      <4>2. pressed' = {} /\ keyboard' = Nowhere
        BY <1>3, <1>5, <3>1, <3>3, <4>1 DEF Relay!LetGo
      <4> QED BY <1>1, <3>1, <3>3, <4>1, <4>2 DEF Gives, Downs, LetsGo
    <3> QED BY <3>1, <3>2, <3>3
  <2>3. CASE m \in PasteMessage
    <3>1. m.t = "paste" /\ m \notin KeyMessage /\ m \notin FocusMessage
      BY <2>3 DEF PasteMessage, KeyMessage, FocusMessage
    <3>2. pressed' = pressed /\ keyboard' = keyboard
      BY <1>5, <3>1
    <3> QED BY <1>1, <3>1, <3>2 DEF Gives, Offs, Downs, LetsGo
  <2> QED BY <1>2, <2>1, <2>2, <2>3 DEF RelayMessage
<1>7. ~astray'
  <2>1. CASE m.t = "key"
    <3>1. m \in KeyMessage
      BY <1>2, <2>1 DEF RelayMessage, KeyMessage, FocusMessage, PasteMessage
    <3> QED BY <1>1, <1>4, <1>5, <2>1, <3>1 DEF Replays
  <2>2. CASE m.t # "key"
    BY <1>1, <1>5, <2>2
  <2> QED BY <2>1, <2>2
<1>8. (keyboard' # Nowhere) \in BOOLEAN /\ (keyboard # Nowhere) \in BOOLEAN
  OBVIOUS
<1>9. ASSUME NEW p \in 0..(n - 1)
      PROVE  /\ After(keyboard' # Nowhere, s, p, Gives, Offs) <=> After(keyboard # Nowhere, wire, p + 1, Gives, Offs)
             /\ \A k \in Relay!Keys : After(k \in pressed', s, p, Downs(k), LetsGo(k))
                                     <=> After(k \in pressed, wire, p + 1, Downs(k), LetsGo(k))
  <2>1. p \in Nat /\ p < Len(wire) /\ s = Tail(wire) /\ m = wire[1]
    BY <1>2 DEF s, n
  <2>2. ASSUME NEW b \in BOOLEAN, NEW d \in BOOLEAN, NEW A, NEW R, d <=> m \in A \/ (b /\ m \notin R)
        PROVE  After(d, s, p, A, R) <=> After(b, wire, p + 1, A, R)
    BY <1>1, <2>1, <2>2, AfterRest
  <2>3. After(keyboard' # Nowhere, s, p, Gives, Offs) <=> After(keyboard # Nowhere, wire, p + 1, Gives, Offs)
    <3> DEFINE b == keyboard # Nowhere
               d == keyboard' # Nowhere
    <3>1. b \in BOOLEAN /\ d \in BOOLEAN /\ (d <=> m \in Gives \/ (b /\ m \notin Offs))
      BY <1>6
    <3> HIDE DEF b, d
    <3>2. After(d, s, p, Gives, Offs) <=> After(b, wire, p + 1, Gives, Offs)
      BY <2>2, <3>1
    <3> QED BY <3>2 DEF b, d
  <2>4. ASSUME NEW k \in Relay!Keys
        PROVE  After(k \in pressed', s, p, Downs(k), LetsGo(k)) <=> After(k \in pressed, wire, p + 1, Downs(k), LetsGo(k))
    <3> DEFINE b == k \in pressed
               d == k \in pressed'
               A == Downs(k)
               R == LetsGo(k)
    <3>1. b \in BOOLEAN /\ d \in BOOLEAN /\ (d <=> m \in A \/ (b /\ m \notin R))
      BY <1>6
    <3> HIDE DEF b, d, A, R
    <3>2. After(d, s, p, A, R) <=> After(b, wire, p + 1, A, R)
      BY <2>2, <3>1
    <3> QED BY <3>2 DEF b, d, A, R
  <2> QED BY <2>3, <2>4
<1>10. WireIs(wire, inHand, keyFocus)'
  <2>1. n - 1 \in 0..(n - 1) /\ (n - 1) + 1 = n
    BY <1>2
  <2>2. \A k \in Relay!Keys : After(k \in pressed', s, n - 1, Downs(k), LetsGo(k)) <=> k \in inHand
    BY <1>1, <1>9, <2>1 DEF WireIs, n
  <2>3. keyFocus # Nowhere => After(keyboard' # Nowhere, s, n - 1, Gives, Offs)
    BY <1>1, <1>9, <2>1 DEF WireIs, n
  <2>4. ASSUME NEW p \in 1..(n - 1)
        PROVE  /\ s[p] \in Offs => After(keyboard' # Nowhere, s, p - 1, Gives, Offs)
               /\ s[p] \in Replays => After("ctrl" \in pressed', s, p - 1, Downs("ctrl"), LetsGo("ctrl"))
    <3>1. p - 1 \in 0..(n - 1) /\ (p - 1) + 1 = p /\ p + 1 \in 1..n /\ (p + 1) - 1 = p /\ s[p] = wire[p + 1]
      BY <1>2
    <3>2. /\ wire[p + 1] \in Offs => After(keyboard # Nowhere, wire, p, Gives, Offs)
          /\ wire[p + 1] \in Replays => After("ctrl" \in pressed, wire, p, Downs("ctrl"), LetsGo("ctrl"))
      BY <1>1, <3>1 DEF WireIs, n
    <3>3. "ctrl" \in Relay!Keys
      BY DEF Relay!Keys
    <3> QED BY <1>9, <3>1, <3>2, <3>3
  <2> QED BY <1>1, <1>2, <2>2, <2>3, <2>4 DEF WireIs
<1>11. RelayTypes' /\ InHandInv'
  BY <1>1, <1>2, <1>6 DEF RelayInv, RelayTypes, InHandInv, Relay!Reserved
<1> QED BY <1>7, <1>10, <1>11 DEF RelayInv

\* A key goes down.
LEMMA RelayDown ==
  ASSUME Relay!KeyRelayAssumption, ~Chords, RelayInv, NEW k \in Relay!Keys, Relay!Down(k)
  PROVE  RelayInv'
<1>1. /\ k \notin held /\ held' = held \cup {k}
      /\ UNCHANGED <<keyFocus, writes, borrowedFocus, pressed, keyboard, astray>>
      /\ IF Relay!Reserved(held \cup {k}) THEN held \subseteq {"ctrl", "alt"}
         ELSE keyFocus = Nowhere \/ held \cap {"ctrl", "alt"} \subseteq inHand
  BY DEF Relay!Down
<1>2. RelayTypes /\ InHandInv /\ WireIs(wire, inHand, keyFocus) /\ ~astray /\ Nowhere \notin Canvases
  BY DEF RelayInv, Relay!KeyRelayAssumption
<1>3. CASE keyFocus = Nowhere \/ Relay!Reserved(held')
  <2>1. UNCHANGED <<inHand, pendingPaste, wire>>
    BY <1>3 DEF Relay!Down
  <2>2. RelayTypes'
    BY <1>1, <1>2, <2>1 DEF RelayTypes
  <2>3. InHandInv'
    BY <1>1, <1>2, <1>3, <2>1 DEF InHandInv, RelayTypes
  <2>4. WireIs(wire, inHand, keyFocus)'
    BY <1>1, <1>2, <2>1 DEF WireIs
  <2> QED BY <1>1, <1>2, <2>2, <2>3, <2>4 DEF RelayInv
<1>4. CASE keyFocus # Nowhere /\ ~Relay!Reserved(held') /\ Relay!IsPasteCombo(k, held')
  <2>1. /\ inHand' = inHand /\ keyFocus \in Canvases /\ k = "v" /\ "ctrl" \in held
        /\ \/ pendingPaste' = keyFocus /\ wire' = wire
           \/ pendingPaste' = Nowhere /\ Relay!SendPaste(keyFocus)
    BY <1>1, <1>2, <1>4 DEF Relay!Down, Relay!IsPasteCombo, RelayTypes
  <2>2. "ctrl" \in inHand
    BY <1>1, <1>4, <2>1
  <2>3. inHand \ {"v"} = inHand
    BY <1>1, <1>2, <2>1 DEF RelayTypes
  <2>4. \E q : wire' = q /\ WireIs(q, inHand, keyFocus)
    <3>1. CASE wire' = wire
      BY <1>2, <3>1
    <3>2. CASE Relay!SendPaste(keyFocus)
      <4>1. \E q : wire' = q /\ WireIs(q, inHand \ {"v"}, keyFocus)
        BY <1>2, <1>4, <2>1, <2>2, <3>2, WirePaste
      <4> QED BY <2>3, <4>1
    <3> QED BY <2>1, <3>1, <3>2
  <2>5. WireIs(wire, inHand, keyFocus)' /\ wire' \in Seq(RelayMessage)
    BY <1>1, <2>1, <2>4 DEF WireIs
  <2>6. RelayTypes'
    BY <1>1, <1>2, <2>1, <2>5 DEF RelayTypes
  <2>7. InHandInv'
    BY <1>1, <1>2, <1>4, <2>1, <2>2 DEF InHandInv
  <2> QED BY <1>1, <1>2, <2>5, <2>6, <2>7 DEF RelayInv
<1>5. CASE keyFocus # Nowhere /\ ~Relay!Reserved(held') /\ ~Relay!IsPasteCombo(k, held')
  <2> DEFINE m == Relay!Key(keyFocus, k, TRUE)
  <2>1. inHand' = inHand \cup {k} /\ wire' = Append(wire, m) /\ pendingPaste' = pendingPaste /\ keyFocus \in Canvases
    BY <1>2, <1>5 DEF Relay!Down, RelayTypes
  <2>2. m \in KeyMessage /\ m \in RelayMessage /\ m.key = k /\ m.down = TRUE /\ m.replay = FALSE /\ m \notin FocusMessage
    BY <2>1 DEF Relay!Key, KeyMessage, RelayMessage, FocusMessage
  <2> HIDE DEF m
  <2>3. \A x \in Relay!Keys : (m \in Downs(x) <=> x = k) /\ m \notin LetsGo(x)
    BY <2>2 DEF Downs, LetsGo, Offs
  <2>4. m \in Gives /\ m \notin Offs /\ m \notin Replays
    BY <2>2 DEF Gives, Offs, Replays
  <2>5. \A x \in Relay!Keys : x \in inHand \cup {k} <=> m \in Downs(x) \/ (m \notin LetsGo(x) /\ x \in inHand)
    BY <2>3
  <2>6. WireIs(Append(wire, m), inHand \cup {k}, keyFocus)
    BY <1>2, <2>2, <2>4, <2>5, WirePut
  <2>7. WireIs(wire, inHand, keyFocus)' /\ wire' \in Seq(RelayMessage)
    BY <1>1, <2>1, <2>6 DEF WireIs
  <2>8. RelayTypes'
    BY <1>1, <1>2, <2>1, <2>7 DEF RelayTypes
  <2>9. InHandInv'
    BY <1>1, <1>2, <1>5, <2>1 DEF InHandInv
  <2> QED BY <1>1, <1>2, <2>7, <2>8, <2>9 DEF RelayInv
<1> QED BY <1>3, <1>4, <1>5

\* A key goes up.
LEMMA RelayUp ==
  ASSUME Relay!KeyRelayAssumption, ~Quick, RelayInv, NEW k \in Relay!Keys, Relay!Up(k)
  PROVE  RelayInv'
<1>1. /\ k \in held /\ held' = held \ {k} /\ inHand' = inHand \ {k} /\ (k = "ctrl" => pendingPaste = Nowhere)
      /\ wire' = IF keyFocus = Nowhere \/ Relay!Kept(k) THEN wire ELSE Append(wire, Relay!Key(keyFocus, k, FALSE))
      /\ UNCHANGED <<keyFocus, pendingPaste, writes, borrowedFocus, pressed, keyboard, astray>>
  BY DEF Relay!Up
<1>2. RelayTypes /\ InHandInv /\ WireIs(wire, inHand, keyFocus) /\ ~astray /\ Nowhere \notin Canvases
  BY DEF RelayInv, Relay!KeyRelayAssumption
<1>3. InHandInv'
  BY <1>1, <1>2 DEF InHandInv, Relay!Reserved
<1>4. CASE keyFocus = Nowhere \/ Relay!Kept(k)
  <2>1. wire' = wire
    BY <1>1, <1>4
  <2>2. inHand \ {k} = inHand
    <3>1. CASE keyFocus = Nowhere
      BY <1>2, <3>1 DEF InHandInv
    <3>2. CASE Relay!Kept(k)
      BY <1>2, <3>2 DEF InHandInv, Relay!Kept, Relay!Reserved
    <3> QED BY <1>4, <3>1, <3>2
  <2>3. WireIs(wire, inHand, keyFocus)'
    BY <1>1, <1>2, <2>1, <2>2 DEF WireIs
  <2>4. RelayTypes'
    BY <1>1, <1>2, <2>1 DEF RelayTypes
  <2> QED BY <1>1, <1>2, <1>3, <2>3, <2>4 DEF RelayInv
<1>5. CASE keyFocus # Nowhere /\ ~Relay!Kept(k)
  <2> DEFINE m == Relay!Key(keyFocus, k, FALSE)
  <2>1. wire' = Append(wire, m) /\ keyFocus \in Canvases
    BY <1>1, <1>2, <1>5 DEF RelayTypes
  <2>2. m \in KeyMessage /\ m \in RelayMessage /\ m.key = k /\ m.down = FALSE /\ m \notin FocusMessage
    BY <2>1 DEF Relay!Key, KeyMessage, RelayMessage, FocusMessage
  <2> HIDE DEF m
  <2>3. \A x \in Relay!Keys : m \notin Downs(x) /\ (m \in LetsGo(x) <=> x = k)
    BY <2>2 DEF Downs, LetsGo, Offs
  <2>4. m \in Gives /\ m \notin Offs /\ m \notin Replays
    BY <2>2 DEF Gives, Offs, Replays
  <2>5. \A x \in Relay!Keys : x \in inHand \ {k} <=> m \in Downs(x) \/ (m \notin LetsGo(x) /\ x \in inHand)
    BY <2>3
  <2>6. WireIs(Append(wire, m), inHand \ {k}, keyFocus)
    BY <1>2, <2>2, <2>4, <2>5, WirePut
  <2>7. WireIs(wire, inHand, keyFocus)' /\ wire' \in Seq(RelayMessage)
    BY <1>1, <2>1, <2>6 DEF WireIs
  <2>8. RelayTypes'
    BY <1>1, <1>2, <2>7 DEF RelayTypes
  <2> QED BY <1>1, <1>2, <1>3, <2>7, <2>8 DEF RelayInv
<1> QED BY <1>4, <1>5

\* A paste is answered: V is let go behind it.
LEMMA RelayAnswers ==
  ASSUME Relay!KeyRelayAssumption, RelayInv, Relay!PasteIsAnswered
  PROVE  RelayInv'
<1>1. /\ pendingPaste # Nowhere /\ pendingPaste' = Nowhere /\ Relay!SendPaste(pendingPaste)
      /\ inHand' = inHand \ {"v"}
      /\ UNCHANGED <<held, keyFocus, writes, borrowedFocus, pressed, keyboard, astray>>
  BY DEF Relay!PasteIsAnswered
<1>2. RelayTypes /\ InHandInv /\ WireIs(wire, inHand, keyFocus) /\ ~astray /\ Nowhere \notin Canvases
  BY DEF RelayInv, Relay!KeyRelayAssumption
<1>3. pendingPaste = keyFocus /\ "ctrl" \in inHand /\ keyFocus \in Canvases
  BY <1>1, <1>2 DEF InHandInv, RelayTypes
<1>4. \E q : wire' = q /\ WireIs(q, inHand \ {"v"}, keyFocus)
  BY <1>1, <1>2, <1>3, WirePaste
<1>5. WireIs(wire, inHand, keyFocus)' /\ wire' \in Seq(RelayMessage)
  BY <1>1, <1>4 DEF WireIs
<1>6. RelayTypes'
  BY <1>1, <1>2, <1>5 DEF RelayTypes
<1>7. InHandInv'
  BY <1>1, <1>2 DEF InHandInv
<1> QED BY <1>1, <1>2, <1>5, <1>6, <1>7 DEF RelayInv

\* The window the page has loses the focus, as the wire is told.
LEMMA WireLoses ==
  ASSUME NEW q, NEW hand, NEW at \in Canvases \cup {Nowhere}, WireIs(q, hand, at),
         at = Nowhere => hand = {}
  PROVE  WireIs(IF at = Nowhere THEN q ELSE Append(q, Relay!Focus(at, FALSE)), {}, Nowhere)
<1>1. CASE at = Nowhere
  BY <1>1
<1>2. CASE at # Nowhere
  <2> DEFINE m == Relay!Focus(at, FALSE)
  <2>1. m \in FocusMessage /\ m \in RelayMessage /\ m.on = FALSE /\ m \notin KeyMessage
    BY <1>2 DEF Relay!Focus, KeyMessage, RelayMessage, FocusMessage
  <2> HIDE DEF m
  <2>2. m \in Offs /\ m \notin Replays /\ \A x \in Relay!Keys : m \notin Downs(x) /\ m \in LetsGo(x)
    BY <2>1 DEF Downs, LetsGo, Offs, Replays
  <2>3. \A x \in Relay!Keys : x \in {} <=> m \in Downs(x) \/ (m \notin LetsGo(x) /\ x \in hand)
    BY <2>2
  <2>4. WireIs(Append(q, m), {}, Nowhere)
    BY <1>2, <2>1, <2>2, <2>3, WirePut
  <2> QED BY <1>2, <2>4 DEF m
<1> QED BY <1>1, <1>2

\* A window of the page gets the focus, as the wire is told.
LEMMA WireGets ==
  ASSUME NEW q, WireIs(q, {}, Nowhere), NEW to \in Canvases
  PROVE  WireIs(Append(q, Relay!Focus(to, TRUE)), {}, to)
<1> DEFINE m == Relay!Focus(to, TRUE)
<1>1. m \in FocusMessage /\ m \in RelayMessage /\ m.on = TRUE /\ m \notin KeyMessage
  BY DEF Relay!Focus, KeyMessage, RelayMessage, FocusMessage
<1> HIDE DEF m
<1>2. m \notin Offs /\ m \in Gives /\ m \notin Replays /\ \A x \in Relay!Keys : m \notin Downs(x) /\ m \notin LetsGo(x)
  BY <1>1 DEF Downs, LetsGo, Offs, Replays, Gives
<1>3. WireIs(Append(q, m), {}, to)
  BY <1>1, <1>2, WirePut
<1> QED BY <1>3 DEF m

\* The focus moves.
LEMMA RelayFocusMoves ==
  ASSUME Relay!KeyRelayAssumption, ~Quick, ~InHaste, RelayInv,
         NEW to \in Canvases \cup {Nowhere}, Relay!FocusMoves(to)
  PROVE  RelayInv'
<1>1. /\ pendingPaste = Nowhere /\ writes = 0 /\ keyFocus' = to /\ inHand' = {}
      /\ wire' = wire \o Relay!FocusNews(keyFocus, to)
      /\ UNCHANGED <<held, pendingPaste, writes, borrowedFocus, pressed, keyboard, astray>>
  BY DEF Relay!FocusMoves
<1>2. RelayTypes /\ InHandInv /\ WireIs(wire, inHand, keyFocus) /\ ~astray /\ Nowhere \notin Canvases
  BY DEF RelayInv, Relay!KeyRelayAssumption
<1>3. wire \in Seq(RelayMessage) /\ keyFocus \in Canvases \cup {Nowhere} /\ ~borrowedFocus
  BY <1>1, <1>2 DEF RelayTypes
<1> DEFINE off == Relay!Focus(keyFocus, FALSE)
           on == Relay!Focus(to, TRUE)
           q1 == IF keyFocus = Nowhere THEN wire ELSE Append(wire, off)
           q2 == IF to = Nowhere THEN q1 ELSE Append(q1, on)
<1>4. wire' = wire \o ((IF keyFocus = Nowhere THEN <<>> ELSE <<off>>) \o (IF to = Nowhere THEN <<>> ELSE <<on>>))
  BY <1>1, <1>3 DEF Relay!FocusNews, Relay!Heard
<1>5. (keyFocus # Nowhere => off \in RelayMessage) /\ (to # Nowhere => on \in RelayMessage)
  BY <1>3 DEF Relay!Focus, RelayMessage, FocusMessage
<1> HIDE DEF off, on
<1>6. wire' = q2
  <2>1. CASE keyFocus = Nowhere /\ to = Nowhere
    BY <1>3, <1>4, <2>1, ConcatEmptySeq
  <2>2. CASE keyFocus = Nowhere /\ to # Nowhere
    <3>1. wire' = wire \o <<on>>
      <4>1. <<>> \o <<on>> = <<on>>
        BY <1>5, <2>2, ConcatEmptySeq
      <4> QED BY <1>4, <2>2, <4>1
    <3> QED BY <1>3, <1>5, <2>2, <3>1, PutBehind
  <2>3. CASE keyFocus # Nowhere /\ to = Nowhere
    <3>1. wire' = wire \o <<off>>
      <4>1. <<off>> \o <<>> = <<off>>
        BY <1>5, <2>3, ConcatEmptySeq
      <4> QED BY <1>4, <2>3, <4>1
    <3> QED BY <1>3, <1>5, <2>3, <3>1, PutBehind
  <2>4. CASE keyFocus # Nowhere /\ to # Nowhere
    <3>1. wire' = wire \o (<<off>> \o <<on>>) /\ <<off>> \in Seq(RelayMessage) /\ <<on>> \in Seq(RelayMessage)
      BY <1>4, <1>5, <2>4
    <3>2. wire' = (wire \o <<off>>) \o <<on>>
      BY <1>3, <3>1, ConcatAssociative
    <3>3. wire \o <<off>> = Append(wire, off) /\ Append(wire, off) \in Seq(RelayMessage)
      BY <1>3, <1>5, <2>4, PutBehind, AppendProperties
    <3>4. Append(wire, off) \o <<on>> = Append(Append(wire, off), on)
      BY <1>5, <2>4, <3>3, PutBehind
    <3> QED BY <2>4, <3>2, <3>3, <3>4
  <2> QED BY <2>1, <2>2, <2>3, <2>4
<1>7. WireIs(q1, {}, Nowhere)
  <2>1. keyFocus = Nowhere => inHand = {}
    BY <1>2 DEF InHandInv
  <2> QED BY <1>2, <1>3, <2>1, WireLoses DEF off
<1>8. WireIs(q2, {}, to)
  <2> HIDE DEF q1
  <2>1. CASE to = Nowhere
    BY <1>7, <2>1
  <2>2. CASE to # Nowhere
    BY <1>7, <2>2, WireGets DEF on
  <2> QED BY <2>1, <2>2
<1> HIDE DEF q2
<1>9. WireIs(wire, inHand, keyFocus)' /\ wire' \in Seq(RelayMessage)
  BY <1>1, <1>6, <1>8 DEF WireIs
<1>10. RelayTypes'
  BY <1>1, <1>2, <1>9 DEF RelayTypes
<1>11. InHandInv'
  BY <1>1 DEF InHandInv
<1> QED BY <1>1, <1>2, <1>9, <1>10, <1>11 DEF RelayInv

\* A step that leaves the keys, the wire and the seat alone keeps what is wanted of them.
LEMMA RelayIdles ==
  ASSUME RelayInv, UNCHANGED <<held, keyFocus, inHand, wire, pressed, keyboard, astray>>,
         writes' \in {0, 1}, borrowedFocus' \in BOOLEAN, borrowedFocus' <=> writes' = 1,
         pendingPaste' # Nowhere => pendingPaste' = keyFocus /\ "ctrl" \in inHand
  PROVE  RelayInv'
<1>1. RelayTypes' /\ InHandInv'
  BY DEF RelayInv, RelayTypes, InHandInv, Relay!Reserved
<1>2. WireIs(wire, inHand, keyFocus)'
  BY DEF RelayInv, WireIs
<1> QED BY <1>1, <1>2 DEF RelayInv

\* Every step keeps the invariant of the keys.
LEMMA RelayStepInv ==
  ASSUME Relay!KeyRelayAssumption, ~Chords, ~Quick, ~InHaste, RelayInv, [Relay!Next]_relayVars
  PROVE  RelayInv'
<1>1. RelayTypes /\ InHandInv /\ WireIs(wire, inHand, keyFocus) /\ ~astray /\ Nowhere \notin Canvases
  BY DEF RelayInv, Relay!KeyRelayAssumption
<1>2. CASE UNCHANGED relayVars
  BY <1>1, <1>2, RelayIdles DEF relayVars, RelayTypes, InHandInv
<1>3. CASE Relay!Repeats
  <2>1. "ctrl" \in inHand /\ pendingPaste' = keyFocus
    BY <1>3 DEF Relay!Repeats
  <2> QED BY <1>1, <1>3, <2>1, RelayIdles DEF Relay!Repeats, RelayTypes
<1>4. CASE Relay!Copies
  <2>1. writes' = 1 /\ borrowedFocus' = TRUE /\ borrowedFocus' \in BOOLEAN /\ pendingPaste' = pendingPaste
    BY <1>4 DEF Relay!Copies
  <2>2. pendingPaste # Nowhere => pendingPaste = keyFocus /\ "ctrl" \in inHand
    BY <1>1 DEF InHandInv
  <2> QED BY <1>4, <2>1, <2>2, RelayIdles DEF Relay!Copies
<1>5. CASE Relay!CopyIsWritten
  <2>1. writes = 1 /\ borrowedFocus /\ wire \in Seq(RelayMessage)
    BY <1>1, <1>5 DEF Relay!CopyIsWritten, RelayTypes
  <2>2. writes' = 0 /\ borrowedFocus' = FALSE /\ pendingPaste' = pendingPaste
    BY <1>5, <2>1 DEF Relay!CopyIsWritten
  <2>3. \A a, b : Relay!FocusNews(a, b) = <<>>
    BY <2>1 DEF Relay!FocusNews, Relay!Heard
  <2>4. (wire \o <<>>) \o <<>> = wire
    BY <2>1, ConcatEmptySeq
  <2>5. wire' = wire
    BY <1>5, <2>3, <2>4 DEF Relay!CopyIsWritten
  <2>6. pendingPaste # Nowhere => pendingPaste = keyFocus /\ "ctrl" \in inHand
    BY <1>1 DEF InHandInv
  <2>7. /\ UNCHANGED <<held, keyFocus, inHand, wire, pressed, keyboard, astray>>
        /\ pendingPaste' # Nowhere => pendingPaste' = keyFocus /\ "ctrl" \in inHand
    BY <1>5, <2>2, <2>5, <2>6 DEF Relay!CopyIsWritten
  <2>8. writes' \in {0, 1} /\ ~(writes' = 1)
    BY <2>2
  <2>9. borrowedFocus' \in BOOLEAN /\ ~borrowedFocus'
    BY <2>2, Zenon
  <2>10. borrowedFocus' <=> writes' = 1
    BY <2>8, <2>9
  <2> QED BY <2>7, <2>8, <2>9, <2>10, RelayIdles
<1>6. CASE Relay!Drops
  <2>1. /\ held = {} /\ wire = <<>> /\ pendingPaste = Nowhere /\ wire' = <<>> /\ keyFocus' = Nowhere /\ inHand' = {}
        /\ UNCHANGED <<held, pendingPaste, writes, borrowedFocus, pressed, keyboard, astray>>
    BY <1>6 DEF Relay!Drops
  <2>2. inHand = {}
    BY <1>1, <2>1 DEF RelayTypes
  <2>3. RelayTypes' /\ InHandInv'
    BY <1>1, <2>1 DEF RelayTypes, InHandInv
  <2>4. WireIs(wire, inHand, keyFocus)'
    BY <1>1, <2>1, <2>2 DEF WireIs
  <2> QED BY <1>1, <2>1, <2>3, <2>4 DEF RelayInv
<1> QED BY <1>2, <1>3, <1>4, <1>5, <1>6, RelayDown, RelayUp, RelayAnswers, RelayFocusMoves,
       RelaySeatReads DEF Relay!Next

\* Initially no key is down.
LEMMA RelayInitInv == ASSUME Relay!KeyRelayAssumption, Relay!Init PROVE RelayInv
<1>1. /\ held = {} /\ keyFocus = Nowhere /\ inHand = {} /\ pendingPaste = Nowhere /\ writes = 0
      /\ borrowedFocus = FALSE /\ wire = <<>> /\ pressed = {} /\ keyboard = Nowhere /\ astray = FALSE
  BY DEF Relay!Init
<1>2. <<>> \in Seq(RelayMessage) /\ Len(<<>>) = 0 /\ 1..0 = {}
  BY EmptySeq
<1>3. RelayTypes /\ InHandInv
  <2>1. {} \subseteq Relay!Keys /\ {} \subseteq {"ctrl", "alt"} /\ (FALSE <=> 0 = 1)
    OBVIOUS
  <2>2. RelayTypes
    BY <1>1, <1>2, <2>1 DEF RelayTypes
  <2>3. InHandInv
    BY <1>1, <2>1 DEF InHandInv
  <2> QED BY <2>2, <2>3
<1>4. WireIs(wire, inHand, keyFocus)
  <2>1. \A k \in Relay!Keys : ~After(k \in pressed, wire, 0, Downs(k), LetsGo(k))
    BY <1>1 DEF After
  <2> QED BY <1>1, <1>2, <2>1 DEF WireIs
<1> QED BY <1>1, <1>3, <1>4 DEF RelayInv

\* Once everything on its way was read, the application holds the keys that are held over its
\* window, and a V that is replayed is a paste: for any number of windows and events, where no
\* chord of the shell is pressed over a key that is held (~Chords); Ctrl stays down, and the
\* focus in place, until a paste is answered, and the focus comes with no key held (~Quick); and
\* while a copy is written the focus stays and no other comes, nor does the connection drop with
\* a key held or on its way (~InHaste) (wayland/index.ts 1190-1281).
THEOREM KeysAreRight == ASSUME ~Chords, ~Quick, ~InHaste PROVE Spec => []Relay!KeysArriveAsHeld
<1>1. Relay!Init => RelayInv
  BY ConstantsAssumption, RelayInitInv
<1>2. RelayInv /\ [Relay!Next]_relayVars => RelayInv'
  BY ConstantsAssumption, RelayStepInv
<1>3. RelayInv => Relay!KeysArriveAsHeld
  <2> SUFFICES ASSUME RelayInv PROVE Relay!KeysArriveAsHeld
    OBVIOUS
  <2>1. ASSUME wire = <<>> PROVE pressed = inHand
    <3>1. Len(wire) = 0 /\ 1..0 = {}
      BY <2>1, EmptySeq
    <3>2. \A k \in Relay!Keys : After(k \in pressed, wire, 0, Downs(k), LetsGo(k)) <=> k \in inHand
      BY <3>1 DEF RelayInv, WireIs
    <3>3. \A k \in Relay!Keys : After(k \in pressed, wire, 0, Downs(k), LetsGo(k)) <=> k \in pressed
      BY DEF After
    <3>4. pressed \subseteq Relay!Keys /\ inHand \subseteq Relay!Keys
      BY DEF RelayInv, RelayTypes
    <3> QED BY <3>2, <3>3, <3>4
  <2> QED BY <2>1 DEF RelayInv, Relay!KeysArriveAsHeld, Relay!NoKeySticks, Relay!PastesArePastes
<1> QED BY <1>1, <1>2, <1>3, RelayRuns, PTL

\* Keys arrive as they are held and what is pasted was copied last, each under the conditions of
\* its own theorem above (wayland/index.ts 1190-1281, clipboard.ts).
THEOREM KeysAndCopiesAreRight ==
  ASSUME ~Chords, ~Quick, ~InHaste, ~Unseen, ~Overlapping PROVE Spec => []KeysAndCopiesArrive
BY KeysAreRight, PastesAreRight, PTL DEF KeysAndCopiesArrive

---------------------------------------------------------------------------
(* The frame of a window *)

\* The frame moves by its own steps alone.
LEMMA FrameRuns == Spec => Frame!Init /\ [][Frame!Next]_frameVars
<1>1. Init => Frame!Init
  BY DEF Init
<1>2. [Next]_vars => [Frame!Next]_frameVars
  BY DEF Next, vars, SessionSteps, FrameSteps, DialogSteps, CatalogueSteps, TokenSteps, SizeSteps,
     RelaySteps, ClipSteps, Only
<1> QED BY <1>1, <1>2, PTL DEF Spec

\* A rectangle that can be reached in a work area of width a: enough of it is inside.
Reachable(r, a) == r.x + r.w >= Keep /\ r.x <= a - Keep

\* A rectangle, of any place and width.
Rects == [x : Int, w : Nat]

\* Where a drag may snap to in an area of width a.
Snaps(a) == {Frame!NoSnap, Frame!Rect(0, a), Frame!Rect(0, a \div 2), Frame!Rect(a - a \div 2, a \div 2)}

\* The values of the variables of WindowFrame.
FrameTypes ==
  /\ areaWidth \in AreaWidths /\ frameState \in {"normal", "minimized", "maximized"}
  /\ bounds \in Rects /\ restoreBounds \in Rects
  /\ gesture \in [kind : {"none", "drag", "east", "west"}, from : Int, start : Rects, area : Nat, snap : Rects]

\* A gesture is made of a normal window in a work area that stays as it is; what is pulled by
\* its left edge began within the area, and what is stretched in its reach.
GestureInv ==
  gesture.kind # "none" =>
    /\ frameState = "normal" /\ gesture.area = areaWidth /\ gesture.snap \in Snaps(areaWidth)
    /\ gesture.kind \in {"east", "west"} => Reachable(gesture.start, areaWidth)
    /\ gesture.kind = "west" => gesture.start.x + gesture.start.w <= areaWidth /\ gesture.from = gesture.start.x

\* The inductive invariant of the frame.
FrameInv == FrameTypes /\ GestureInv /\ Frame!KeepsItsPlace

\* What is clamped can be reached.
LEMMA ClampedIsReachable ==
  ASSUME Frame!WindowFrameAssumption, NEW r, r.x \in Int, r.w \in Nat, NEW a \in AreaWidths
  PROVE  /\ Frame!ClampTo(r, a) \in Rects /\ Reachable(Frame!ClampTo(r, a), a)
         /\ Frame!ClampTo(r, a).w >= MinWidth
<1>1. a \in Nat /\ Keep \in Nat /\ MinWidth \in Nat /\ Keep <= MinWidth /\ 2 * Keep <= a
  BY DEF Frame!WindowFrameAssumption
<1> DEFINE w == Frame!Larger(MinWidth, Frame!Smaller(r.w, a))
           x == Frame!Smaller(Frame!Larger(r.x, Keep - w), a - Keep)
<1>2. w \in Nat /\ w >= MinWidth
  BY <1>1 DEF Frame!Larger, Frame!Smaller
<1>3. Frame!ClampTo(r, a) = [x |-> x, w |-> w]
  BY DEF Frame!ClampTo, Frame!Rect
<1> HIDE DEF w
<1>4. x \in Int /\ x + w >= Keep /\ x <= a - Keep
  BY <1>1, <1>2 DEF Frame!Larger, Frame!Smaller
<1> HIDE DEF x
<1> QED BY <1>2, <1>3, <1>4 DEF Rects, Reachable

\* A window dragged out of full screen lies under the pointer, in the same proportion.
LEMMA PickedIsReachable ==
  ASSUME NEW a \in Nat, Keep \in Nat, Keep < a, NEW w \in Nat, Keep <= w, NEW px \in 0..a
  PROVE  /\ px - (w * px) \div a \in Int
         /\ Reachable([x |-> px - (w * px) \div a, w |-> w], a)
<1> DEFINE f == (w * px) \div a
<1>1. w * px \in Nat /\ a \in Nat \ {0}
  OBVIOUS
<1>2. f \in Nat /\ a * f <= w * px /\ w * px < a * f + a
  BY <1>1
<1> HIDE DEF f
<1>3. px - f + w >= Keep /\ px - f <= a - Keep
  BY <1>2
<1>4. px - f \in Int /\ Reachable([x |-> px - f, w |-> w], a)
  BY <1>2, <1>3 DEF Reachable
<1> QED BY <1>4 DEF f

\* Whatever the rectangle, a step that places a normal window where it can be reached, or fills
\* the area with it, leaves the frame as it has to be.
LEMMA PlacesKeep ==
  ASSUME Frame!WindowFrameAssumption, FrameInv,
         NEW fs \in {"normal", "minimized", "maximized"}, NEW r \in Rects, Frame!Places(fs, r),
         areaWidth' \in AreaWidths, restoreBounds' \in Rects,
         fs = "maximized" => r = Frame!Rect(0, areaWidth'),
         fs = "normal" => Reachable(r, areaWidth'),
         fs # "normal" => restoreBounds' = placed
  PROVE  /\ Frame!KeepsItsPlace'
         /\ frameState' \in {"normal", "minimized", "maximized"} /\ bounds' \in Rects
<1>1. frameState' = fs /\ bounds' = r /\ placed' = IF fs = "normal" THEN r ELSE placed
  BY DEF Frame!Places
<1>2. areaWidth' \in Nat /\ Keep \in Nat /\ Keep < areaWidth'
  BY DEF Frame!WindowFrameAssumption
<1>3. Frame!Snapshot' = placed'
  BY <1>1 DEF Frame!Snapshot
<1>4. fs # "minimized" => r.x + r.w >= Keep /\ r.x <= areaWidth' - Keep
  BY <1>2 DEF Reachable, Frame!Rect, Rects
<1>5. fs = "maximized" => r = Frame!WorkArea'
  BY DEF Frame!WorkArea
<1> QED BY <1>1, <1>3, <1>4, <1>5 DEF Frame!KeepsItsPlace

\* With no gesture under way none begins.
LEMMA FrameHandles ==
  ASSUME Frame!WindowFrameAssumption, FrameInv, gesture.kind = "none",
         \/ Frame!Minimize \/ Frame!Maximize \/ Frame!Restore
         \/ \E r \in {Frame!Rect(bounds.x + 1, bounds.w), Frame!Rect(bounds.x, bounds.w + 1)} : Frame!SetBounds(r)
         \/ \E a \in AreaWidths : Frame!Reflow(a)
  PROVE  FrameInv'
<1>1. FrameTypes /\ Frame!KeepsItsPlace /\ areaWidth \in Nat
  BY DEF FrameInv, FrameTypes, Frame!WindowFrameAssumption
<1>2. frameState # "normal" => restoreBounds = placed
  BY <1>1 DEF Frame!KeepsItsPlace, Frame!Snapshot
<1>3. frameState = "normal" => bounds = placed
  BY <1>1 DEF Frame!KeepsItsPlace, Frame!Snapshot
<1>4. \A a \in AreaWidths : Frame!Rect(0, a) \in Rects
  BY DEF Frame!Rect, Rects, Frame!WindowFrameAssumption
<1>5. SUFFICES /\ gesture' = gesture /\ areaWidth' \in AreaWidths /\ restoreBounds' \in Rects
               /\ Frame!KeepsItsPlace'
               /\ frameState' \in {"normal", "minimized", "maximized"} /\ bounds' \in Rects
  BY <1>1 DEF FrameInv, FrameTypes, GestureInv
<1>6. CASE Frame!Minimize
  <2>1. /\ Frame!Places("minimized", bounds) /\ restoreBounds' = IF frameState = "normal" THEN bounds ELSE restoreBounds
        /\ UNCHANGED <<areaWidth, gesture>>
    BY <1>6 DEF Frame!Minimize, Frame!Remembers
  <2>2. restoreBounds' = placed /\ restoreBounds' \in Rects /\ bounds \in Rects /\ areaWidth' \in AreaWidths
    BY <1>1, <1>2, <1>3, <2>1 DEF FrameTypes
  <2> QED BY <2>1, <2>2, PlacesKeep
<1>7. CASE Frame!Maximize
  <2>1. /\ Frame!Places("maximized", Frame!Rect(0, areaWidth))
        /\ restoreBounds' = IF frameState = "normal" THEN bounds ELSE restoreBounds
        /\ UNCHANGED <<areaWidth, gesture>>
    BY <1>7 DEF Frame!Maximize, Frame!Remembers, Frame!WorkArea
  <2>2. restoreBounds' = placed /\ restoreBounds' \in Rects /\ areaWidth' \in AreaWidths
        /\ Frame!Rect(0, areaWidth) = Frame!Rect(0, areaWidth')
    BY <1>1, <1>2, <1>3, <2>1 DEF FrameTypes
  <2>3. Frame!Rect(0, areaWidth) \in Rects
    BY <1>1, <1>4 DEF FrameTypes
  <2> QED BY <2>1, <2>2, <2>3, PlacesKeep
<1>8. CASE Frame!Restore
  <2>1. /\ frameState # "normal" /\ UNCHANGED <<areaWidth, restoreBounds, gesture>>
        /\ \/ Frame!Places("maximized", Frame!Rect(0, areaWidth))
           \/ Frame!Places("normal", Frame!ClampTo(restoreBounds, areaWidth))
    BY <1>8 DEF Frame!Restore, Frame!RestoresTo, Frame!WorkArea, Frame!ClampToWorkArea
  <2>2. restoreBounds' = placed /\ restoreBounds' \in Rects /\ areaWidth' \in AreaWidths /\ areaWidth' = areaWidth
    BY <1>1, <1>2, <2>1 DEF FrameTypes
  <2>3. CASE Frame!Places("maximized", Frame!Rect(0, areaWidth))
    <3>1. Frame!Rect(0, areaWidth) \in Rects /\ Frame!Rect(0, areaWidth) = Frame!Rect(0, areaWidth')
      BY <1>4, <2>2
    <3> QED BY <2>1, <2>2, <2>3, <3>1, PlacesKeep
  <2>4. CASE Frame!Places("normal", Frame!ClampTo(restoreBounds, areaWidth))
    <3>1. Frame!ClampTo(restoreBounds, areaWidth) \in Rects /\ Reachable(Frame!ClampTo(restoreBounds, areaWidth), areaWidth')
      BY <1>1, <2>2, ClampedIsReachable DEF FrameTypes, Rects
    <3> QED BY <2>1, <2>2, <2>4, <3>1, PlacesKeep
  <2> QED BY <2>1, <2>3, <2>4
<1>9. CASE \E r \in {Frame!Rect(bounds.x + 1, bounds.w), Frame!Rect(bounds.x, bounds.w + 1)} : Frame!SetBounds(r)
  <2>1. PICK r \in {Frame!Rect(bounds.x + 1, bounds.w), Frame!Rect(bounds.x, bounds.w + 1)} : Frame!SetBounds(r)
    BY <1>9
  <2>2. r.x \in Int /\ r.w \in Nat
    BY <1>1, <2>1 DEF FrameTypes, Rects, Frame!Rect
  <2> DEFINE fs == IF frameState = "maximized" THEN "normal" ELSE frameState
             c == Frame!ClampTo(r, areaWidth)
  <2>3. /\ Frame!Places(fs, c) /\ UNCHANGED <<areaWidth, restoreBounds, gesture>>
    BY <2>1 DEF Frame!SetBounds, Frame!ClampToWorkArea
  <2>4. /\ fs \in {"normal", "minimized", "maximized"} /\ fs # "maximized"
        /\ fs # "normal" => restoreBounds' = placed
        /\ restoreBounds' \in Rects /\ areaWidth' \in AreaWidths /\ areaWidth' = areaWidth
    BY <1>1, <1>2, <2>3 DEF FrameTypes
  <2>5. c \in Rects /\ Reachable(c, areaWidth')
    BY <2>2, <2>4, ClampedIsReachable
  <2> HIDE DEF fs, c
  <2> QED BY <2>3, <2>4, <2>5, PlacesKeep
<1>10. CASE \E a \in AreaWidths : Frame!Reflow(a)
  <2>1. PICK a \in AreaWidths : Frame!Reflow(a)
    BY <1>10
  <2> DEFINE c == IF frameState = "maximized" THEN Frame!Rect(0, a) ELSE Frame!ClampTo(bounds, a)
  <2>2. areaWidth' = a /\ Frame!Places(frameState, c) /\ UNCHANGED <<restoreBounds, gesture>>
    BY <2>1 DEF Frame!Reflow
  <2>3. /\ c \in Rects /\ (frameState = "maximized" => c = Frame!Rect(0, areaWidth'))
        /\ frameState = "normal" => Reachable(c, areaWidth')
    BY <1>1, <1>4, <2>2, ClampedIsReachable DEF FrameTypes, Rects
  <2>4. /\ frameState \in {"normal", "minimized", "maximized"} /\ (frameState # "normal" => restoreBounds' = placed)
        /\ restoreBounds' \in Rects /\ areaWidth' \in AreaWidths
    BY <1>1, <1>2, <2>2 DEF FrameTypes
  <2> HIDE DEF c
  <2> QED BY <2>2, <2>3, <2>4, PlacesKeep
<1> QED BY <1>6, <1>7, <1>8, <1>9, <1>10

\* A drag or a resize that begins.
LEMMA FrameBegins ==
  ASSUME Frame!WindowFrameAssumption, FrameInv, NEW px \in Int,
         Frame!BeginDrag(px) \/ \E edge \in {"east", "west"} : Frame!BeginResize(edge, px), ~Careless
  PROVE  FrameInv'
<1>1. FrameTypes /\ Frame!KeepsItsPlace /\ areaWidth \in Nat /\ gesture.kind = "none" /\ Keep \in Nat
  BY DEF FrameInv, FrameTypes, Frame!WindowFrameAssumption, Frame!BeginDrag, Frame!BeginResize
<1>2. frameState = "maximized" => bounds = Frame!Rect(0, areaWidth)
  BY <1>1 DEF Frame!KeepsItsPlace, Frame!WorkArea
<1>3. frameState # "minimized" => Reachable(bounds, areaWidth)
  BY <1>1 DEF Frame!KeepsItsPlace, Reachable
<1>4. Frame!NoSnap \in Rects /\ Frame!NoSnap \in Snaps(areaWidth)
  BY DEF Frame!NoSnap, Frame!Rect, Rects, Snaps
<1>5. CASE Frame!BeginDrag(px)
  <2> DEFINE r == Frame!Picked(px)
  <2>1. /\ frameState # "minimized" /\ px \in bounds.x..(bounds.x + bounds.w) /\ Frame!Places("normal", r)
        /\ gesture' = [kind |-> "drag", from |-> px - r.x, start |-> r, area |-> areaWidth, snap |-> Frame!NoSnap]
        /\ UNCHANGED <<areaWidth, restoreBounds>>
    BY <1>5 DEF Frame!BeginDrag
  <2>2. r \in Rects /\ Reachable(r, areaWidth)
    <3>1. CASE frameState # "maximized"
      BY <1>1, <1>3, <2>1, <3>1 DEF Frame!Picked, FrameTypes
    <3>2. CASE frameState = "maximized"
      <4> DEFINE c == Frame!ClampTo(restoreBounds, areaWidth)
      <4>1. c \in Rects /\ c.w >= MinWidth
        BY <1>1, ClampedIsReachable DEF FrameTypes, Rects
      <4> HIDE DEF c
      <4>2. c.w \in Nat /\ Keep <= c.w /\ Keep < areaWidth
        BY <1>1, <4>1 DEF Rects, Frame!WindowFrameAssumption, FrameTypes
      <4>3. bounds.x = 0 /\ bounds.w = areaWidth
        BY <1>2, <3>2 DEF Frame!Rect
      <4>4. px \in 0..areaWidth /\ px - bounds.x = px
        BY <1>1, <2>1, <4>3
      <4>5. r = [x |-> px - (c.w * px) \div areaWidth, w |-> c.w]
        BY <3>2, <4>3, <4>4 DEF Frame!Picked, Frame!ClampToWorkArea, Frame!Rect, c
      <4> HIDE DEF r
      <4> QED BY <1>1, <4>2, <4>4, <4>5, PickedIsReachable DEF Rects
    <3> QED BY <3>1, <3>2
  <2> HIDE DEF r
  <2>3. areaWidth' \in AreaWidths /\ areaWidth' = areaWidth /\ restoreBounds' \in Rects
    BY <1>1, <2>1 DEF FrameTypes
  <2>4. /\ Frame!KeepsItsPlace' /\ frameState' \in {"normal", "minimized", "maximized"} /\ bounds' \in Rects
    BY <2>1, <2>2, <2>3, PlacesKeep
  <2>5. frameState' = "normal"
    BY <2>1 DEF Frame!Places
  <2>6. gesture' \in [kind : {"none", "drag", "east", "west"}, from : Int, start : Rects, area : Nat, snap : Rects]
    BY <1>1, <1>4, <2>1, <2>2 DEF Rects
  <2>7. gesture'.kind = "drag" /\ gesture'.area = areaWidth' /\ gesture'.snap \in Snaps(areaWidth')
    BY <1>4, <2>1, <2>3
  <2> QED BY <2>3, <2>4, <2>5, <2>6, <2>7 DEF FrameInv, FrameTypes, GestureInv
<1>6. CASE \E edge \in {"east", "west"} : Frame!BeginResize(edge, px)
  <2>1. PICK edge \in {"east", "west"} : Frame!BeginResize(edge, px)
    BY <1>6
  <2>2. /\ frameState = "normal" /\ px = (IF edge = "east" THEN bounds.x + bounds.w ELSE bounds.x)
        /\ edge = "east" \/ bounds.x + bounds.w <= areaWidth
        /\ gesture' = [kind |-> edge, from |-> px, start |-> bounds, area |-> areaWidth, snap |-> Frame!NoSnap]
        /\ UNCHANGED <<areaWidth, frameState, bounds, restoreBounds, placed>>
    BY <2>1 DEF Frame!BeginResize
  <2>3. FrameTypes'
    BY <1>1, <1>4, <2>2 DEF FrameTypes
  <2>4. GestureInv'
    BY <1>3, <1>4, <2>2 DEF GestureInv
  <2>5. Frame!KeepsItsPlace'
    BY <1>1, <2>2 DEF Frame!KeepsItsPlace, Frame!Snapshot, Frame!WorkArea
  <2> QED BY <2>3, <2>4, <2>5 DEF FrameInv
<1> QED BY <1>5, <1>6

\* A gesture that goes on.
LEMMA FrameGoesOn ==
  ASSUME Frame!WindowFrameAssumption, FrameInv, NEW px \in Int, Frame!DragMoves(px) \/ Frame!ResizeMoves(px)
  PROVE  FrameInv'
<1>1. FrameTypes /\ GestureInv /\ gesture.kind # "none"
  BY DEF FrameInv, Frame!DragMoves, Frame!ResizeMoves
<1>2. frameState = "normal" /\ gesture.area = areaWidth /\ gesture.snap \in Snaps(areaWidth)
  BY <1>1 DEF GestureInv
<1>3. areaWidth \in Nat /\ Keep \in Nat /\ MinWidth \in Nat /\ Keep <= MinWidth /\ Keep < areaWidth
  BY <1>1 DEF FrameTypes, Frame!WindowFrameAssumption
<1>4. ASSUME NEW r \in Rects, Reachable(r, areaWidth), Frame!Places(frameState, r),
             UNCHANGED <<areaWidth, restoreBounds>>, GestureInv',
             gesture' \in [kind : {"none", "drag", "east", "west"}, from : Int, start : Rects, area : Nat, snap : Rects]
      PROVE  FrameInv'
  <2>1. areaWidth' \in AreaWidths /\ areaWidth' = areaWidth /\ restoreBounds' \in Rects
    BY <1>1, <1>4 DEF FrameTypes
  <2>2. Frame!Places("normal", r)
    BY <1>2, <1>4
  <2>3. Frame!KeepsItsPlace' /\ frameState' \in {"normal", "minimized", "maximized"} /\ bounds' \in Rects
    BY <1>4, <2>1, <2>2, PlacesKeep
  <2> QED BY <1>4, <2>1, <2>3 DEF FrameInv, FrameTypes
<1>5. CASE Frame!DragMoves(px)
  <2> DEFINE b == [bounds EXCEPT !.x = px - gesture.from]
  <2>1. gesture.kind = "drag" /\ Frame!Places(frameState, Frame!ClampTo(b, areaWidth)) /\ UNCHANGED <<areaWidth, restoreBounds>>
    BY <1>5 DEF Frame!DragMoves, Frame!ClampToWorkArea
  <2>2. PICK s \in Frame!SnapTargets(px) : gesture' = [gesture EXCEPT !.snap = s]
    BY <1>5 DEF Frame!DragMoves
  <2>3. b.x \in Int /\ b.w \in Nat
    BY <1>1 DEF FrameTypes, Rects
  <2> HIDE DEF b
  <2>4. Frame!ClampTo(b, areaWidth) \in Rects /\ Reachable(Frame!ClampTo(b, areaWidth), areaWidth)
    BY <1>1, <2>3, ClampedIsReachable DEF FrameTypes
  <2>5. s \in Snaps(areaWidth) /\ s \in Rects
    <3>1. s \in Snaps(areaWidth)
      BY <1>2 DEF Snaps, Frame!SnapTargets
    <3>2. areaWidth \div 2 \in Nat /\ areaWidth - areaWidth \div 2 \in Int
      BY <1>3
    <3> QED BY <1>3, <3>1, <3>2 DEF Snaps, Rects, Frame!Rect, Frame!NoSnap
  <2>6. /\ gesture' \in [kind : {"none", "drag", "east", "west"}, from : Int, start : Rects, area : Nat, snap : Rects]
        /\ gesture'.kind = "drag" /\ gesture'.area = gesture.area /\ gesture'.snap = s
    BY <1>1, <2>1, <2>2, <2>5 DEF FrameTypes
  <2>7. GestureInv'
    BY <1>2, <2>1, <2>5, <2>6 DEF GestureInv, Frame!Places
  <2> QED BY <1>4, <2>1, <2>4, <2>6, <2>7
<1>6. CASE Frame!ResizeMoves(px)
  <2> DEFINE r == Frame!Stretched(px)
  <2>1. gesture.kind \in {"east", "west"} /\ Frame!Places(frameState, r) /\ UNCHANGED <<areaWidth, restoreBounds, gesture>>
    BY <1>6 DEF Frame!ResizeMoves
  <2>2. r \in Rects /\ Reachable(r, areaWidth)
    <3> DEFINE s == gesture.start
               w == IF gesture.kind = "east" THEN s.w + (px - gesture.from) ELSE Frame!Larger(MinWidth, s.w - (px - gesture.from))
               x == IF gesture.kind = "east" THEN s.x ELSE s.x + (s.w - w)
    <3>1. r = [x |-> Frame!Larger(0, x), w |-> Frame!Larger(MinWidth, Frame!Smaller(w, areaWidth - x))]
      BY <1>2 DEF Frame!Stretched, Frame!Rect
    <3>2. /\ s.x \in Int /\ s.w \in Nat /\ gesture.from \in Int /\ s.x <= areaWidth - Keep
          /\ gesture.kind = "west" => s.x + s.w <= areaWidth
      BY <1>1, <2>1 DEF GestureInv, FrameTypes, Rects, Reachable
    <3> HIDE DEF s
    <3>3. w \in Int /\ (gesture.kind # "east" => w >= MinWidth)
      BY <1>3, <3>2 DEF Frame!Larger
    <3> HIDE DEF w
    <3>4. x \in Int /\ x <= areaWidth - Keep
      BY <1>3, <2>1, <3>2, <3>3
    <3> HIDE DEF x, r
    <3>5. Frame!Larger(0, x) \in Nat /\ Frame!Larger(0, x) <= areaWidth - Keep
      BY <1>3, <3>4 DEF Frame!Larger
    <3>6. Frame!Larger(MinWidth, Frame!Smaller(w, areaWidth - x)) \in Nat
          /\ Frame!Larger(MinWidth, Frame!Smaller(w, areaWidth - x)) >= Keep
      BY <1>3, <3>3, <3>4 DEF Frame!Larger, Frame!Smaller
    <3> QED BY <1>3, <3>1, <3>5, <3>6 DEF Rects, Reachable
  <2> HIDE DEF r
  <2>3. GestureInv'
    BY <1>1, <2>1 DEF GestureInv, Frame!Places
  <2> QED BY <1>1, <1>4, <2>1, <2>2, <2>3 DEF FrameTypes
<1> QED BY <1>5, <1>6

\* A gesture that ends.
LEMMA FrameEnds ==
  ASSUME Frame!WindowFrameAssumption, FrameInv, Frame!DragEnds \/ Frame!ResizeEnds
  PROVE  FrameInv'
<1>1. FrameTypes /\ GestureInv /\ gesture.kind # "none" /\ Frame!KeepsItsPlace /\ gesture' = Frame!Idle
      /\ areaWidth' = areaWidth
  BY DEF FrameInv, Frame!DragEnds, Frame!ResizeEnds
<1>2. frameState = "normal" /\ gesture.area = areaWidth /\ gesture.snap \in Snaps(areaWidth) /\ bounds = placed
  BY <1>1 DEF GestureInv, Frame!KeepsItsPlace, Frame!Snapshot
<1>3. areaWidth \in Nat /\ Keep \in Nat /\ 2 * Keep <= areaWidth
  BY <1>1 DEF FrameTypes, Frame!WindowFrameAssumption
<1>4. /\ Frame!Idle \in [kind : {"none", "drag", "east", "west"}, from : Int, start : Rects, area : Nat, snap : Rects]
      /\ Frame!Idle.kind = "none"
  BY DEF Frame!Idle, Frame!NoSnap, Frame!Rect, Rects
<1>5. SUFFICES /\ Frame!KeepsItsPlace' /\ restoreBounds' \in Rects
               /\ frameState' \in {"normal", "minimized", "maximized"} /\ bounds' \in Rects
  <2>1. GestureInv'
    BY <1>1, <1>4 DEF GestureInv
  <2> QED BY <1>1, <1>4, <1>5, <2>1 DEF FrameInv, FrameTypes
<1>6. ASSUME UNCHANGED <<frameState, bounds, placed>>, restoreBounds' \in Rects
      PROVE  /\ Frame!KeepsItsPlace'
             /\ frameState' \in {"normal", "minimized", "maximized"} /\ bounds' \in Rects
  BY <1>1, <1>2, <1>6 DEF Frame!KeepsItsPlace, Frame!Snapshot, Frame!WorkArea, FrameTypes
<1>7. CASE Frame!ResizeEnds
  BY <1>1, <1>6, <1>7 DEF Frame!ResizeEnds, FrameTypes
<1>8. CASE Frame!DragEnds
  <2>1. CASE UNCHANGED <<frameState, bounds, placed, restoreBounds>>
    BY <1>1, <1>6, <2>1 DEF FrameTypes
  <2>2. CASE gesture.snap # Frame!NoSnap /\ gesture.snap.w # gesture.area /\ Frame!Places("normal", gesture.snap) /\ UNCHANGED restoreBounds
    <3> DEFINE h == areaWidth \div 2
               s == gesture.snap
    <3>1. h \in Nat /\ 2 * h <= areaWidth /\ areaWidth <= 2 * h + 1
      BY <1>3
    <3>2. s = Frame!Rect(0, h) \/ s = Frame!Rect(areaWidth - h, h)
      BY <1>2, <2>2 DEF Snaps, Frame!Rect
    <3>3. s \in Rects /\ Frame!Places("normal", s)
      BY <1>1, <2>2 DEF FrameTypes
    <3> HIDE DEF s, h
    <3>4. Reachable(s, areaWidth)
      BY <1>3, <3>1, <3>2 DEF Reachable, Frame!Rect
    <3>5. areaWidth' \in AreaWidths /\ restoreBounds' \in Rects /\ Reachable(s, areaWidth')
      BY <1>1, <2>2, <3>4 DEF FrameTypes
    <3> QED BY <3>3, <3>5, PlacesKeep
  <2>3. CASE restoreBounds' = bounds /\ Frame!Places("maximized", Frame!Rect(0, areaWidth))
    <3>1. Frame!Rect(0, areaWidth) \in Rects /\ Frame!Rect(0, areaWidth) = Frame!Rect(0, areaWidth')
      BY <1>1, <1>3 DEF Frame!Rect, Rects
    <3>2. areaWidth' \in AreaWidths /\ restoreBounds' \in Rects /\ restoreBounds' = placed
      BY <1>1, <1>2, <2>3 DEF FrameTypes
    <3> QED BY <2>3, <3>1, <3>2, PlacesKeep
  <2> QED BY <1>2, <1>8, <2>1, <2>2, <2>3 DEF Frame!DragEnds, Frame!Remembers, Frame!WorkArea
<1> QED BY <1>7, <1>8

\* Every step keeps the invariant of the frame.
LEMMA FrameStepInv ==
  ASSUME Frame!WindowFrameAssumption, ~Careless, FrameInv, [Frame!Next]_frameVars
  PROVE  FrameInv'
<1>1. CASE UNCHANGED frameVars
  BY <1>1 DEF frameVars, FrameInv, FrameTypes, GestureInv, Frame!KeepsItsPlace, Frame!Snapshot,
     Frame!WorkArea
<1>2. \A px \in 0..Frame!Widest : px \in Int
  OBVIOUS
<1> QED BY <1>1, <1>2, FrameHandles, FrameBegins, FrameGoesOn, FrameEnds DEF Frame!Next

\* A window that is opened is where it can be reached.
LEMMA FrameInitInv == ASSUME Frame!WindowFrameAssumption, Frame!Init PROVE FrameInv
<1>1. /\ areaWidth \in AreaWidths /\ frameState = "normal" /\ restoreBounds = bounds /\ gesture = Frame!Idle /\ placed = bounds
  BY DEF Frame!Init
<1>2. PICK r \in {Frame!Rect(0, areaWidth), Frame!Rect(1, MinWidth)} : bounds = Frame!ClampTo(r, areaWidth)
  BY DEF Frame!Init, Frame!ClampToWorkArea
<1>3. r.x \in Int /\ r.w \in Nat
  BY <1>1, <1>2 DEF Frame!Rect, Frame!WindowFrameAssumption
<1>4. bounds \in Rects /\ Reachable(bounds, areaWidth)
  BY <1>1, <1>2, <1>3, ClampedIsReachable
<1>5. /\ Frame!Idle \in [kind : {"none", "drag", "east", "west"}, from : Int, start : Rects, area : Nat, snap : Rects]
      /\ Frame!Idle.kind = "none"
  BY DEF Frame!Idle, Frame!NoSnap, Frame!Rect, Rects
<1>6. FrameTypes /\ GestureInv
  BY <1>1, <1>4, <1>5 DEF FrameTypes, GestureInv
<1>7. Frame!KeepsItsPlace
  BY <1>1, <1>4 DEF Frame!KeepsItsPlace, Frame!Snapshot, Reachable
<1> QED BY <1>6, <1>7 DEF FrameInv

\* A window ends every drag, resize, maximizing and change of the screen where it can be reached,
\* and goes back to the place it was put in, where the frame is not changed in the middle of a
\* drag or a resize, nor resized by an edge that is off the screen (~Careless)
\* (client/src/ui/window.ts).
THEOREM FrameIsRight == ASSUME ~Careless PROVE Spec => []Frame!KeepsItsPlace
<1>1. Frame!Init => FrameInv
  BY ConstantsAssumption, FrameInitInv
<1>2. FrameInv /\ [Frame!Next]_frameVars => FrameInv'
  BY ConstantsAssumption, FrameStepInv
<1>3. FrameInv => Frame!KeepsItsPlace
  BY DEF FrameInv
<1> QED BY <1>1, <1>2, <1>3, FrameRuns, PTL

---------------------------------------------------------------------------
(* The size of a native application and of its window *)

\* The sizes move by their own steps alone.
LEMMA SizeRuns == Spec => Size!Init /\ [][Size!Next]_sizeVars
<1>1. Init => Size!Init
  BY DEF Init
<1>2. [Next]_vars => [Size!Next]_sizeVars
  BY DEF Next, vars, SessionSteps, FrameSteps, DialogSteps, CatalogueSteps, TokenSteps, SizeSteps,
     RelaySteps, ClipSteps, Only
<1> QED BY <1>1, <1>2, PTL DEF Spec

\* A size the application can have.
Fits == {s \in Nat \ {0} : Size!Within(s) = s}

\* What the page asks the application to be.
Configures == [size : Nat \ {0}, echo : BOOLEAN]

\* The size that the window has for the application.
Box == Size!FrameSize(winState, outer, zoom)

\* The values of the variables of SizeTalk: every size that is drawn, wished for or on its way is
\* one the application can have.
SizeTypes ==
  /\ isX \in BOOLEAN /\ limits \in Limits /\ winState \in {"normal", "maximized", "minimized"}
  /\ outer \in Least..Area /\ restoreOuter \in Least..Area /\ unclaimed \in Least..Area
  /\ zoom \in Zooms /\ sizeAsked \in Nat /\ minKnown \in {0, limits[1]} /\ canvas \in Fits \cup {0}
  /\ scrollable \in BOOLEAN /\ resizeTimer \in BOOLEAN /\ pendingFrame \in BOOLEAN
  /\ toComp \in Seq(Configures) /\ toApp \in Seq(Fits) /\ notices \in Seq(Fits)
  /\ drawn \in Fits /\ cfg \in Fits /\ wish \in Fits \cup {0} /\ wanted \in Fits
  /\ acts \in Nat /\ choices \in Nat

\* What may be on its way to the page before a picture f: nothing, the limits, or the window as
\* it was announced and the limits.
Before(f, w) ==
  {<< <<"frame", f>> >>, << <<"bounds", limits[1]>>, <<"frame", f>> >>,
   << <<"window", w>>, <<"bounds", limits[1]>>, <<"frame", f>> >>}

\* One picture is on its way at a time; the last one, there or at the page, is what the
\* application has drawn, unless another is to be sent.
PicturesInv ==
  \/ toPage = <<>> /\ canvas \in Fits /\ (~pendingFrame => canvas = drawn)
  \/ \E f \in Fits, w \in Fits : toPage \in Before(f, w) /\ (~pendingFrame => f = drawn)

\* The page has been told of the window.
Announced == toPage = <<>> \/ Head(toPage)[1] # "window"

\* The page has heard of the window, and nothing it knows is to be asked for later.
Settled == Announced /\ ~resizeTimer /\ winState # "minimized"

\* A window scrolls exactly when the picture is the larger, unless that is to be looked at.
ScrollInv == ~resizeTimer /\ winState # "minimized" => (scrollable <=> canvas > Box)

\* What was asked for last is what the window has for the application.
AskedInv == Settled => sizeAsked # 0 /\ Size!Within(sizeAsked) = Size!Within(Box)

\* The compositor's idea of the size of a window follows what it has told a Wayland client, or
\* what the X server tells it.
ConfiguredInv ==
  /\ choices = 0 => wish = 0
  /\ isX => /\ toApp = <<>>
            /\ IF notices = <<>> THEN cfg = drawn ELSE notices[Len(notices)] = drawn
  /\ ~isX => /\ notices = <<>> /\ wish = 0
             /\ choices = 0 => IF toApp = <<>> THEN drawn = cfg ELSE toApp[Len(toApp)] = cfg
  /\ IF toComp # <<>> THEN toComp[Len(toComp)].size = sizeAsked
     ELSE sizeAsked = 0 \/ isX \/ cfg = Size!Within(sizeAsked)

\* The size an X window ends at, once what it has been asked has arrived, is s.
EndsAt(s) ==
  \/ \E i \in 1..Len(toComp) : /\ ~toComp[i].echo /\ Size!Within(toComp[i].size) = s
                               /\ \A j \in (i + 1)..Len(toComp) : toComp[j].echo
  \/ drawn = s /\ \A j \in 1..Len(toComp) : toComp[j].echo

\* An X window of its own choice ends at the size that was asked for last, unless the page shows
\* it at that size already.
FollowsInv == isX /\ choices = 0 /\ Settled => canvas = sizeAsked \/ EndsAt(Size!Within(sizeAsked))

\* The inductive invariant of the sizes.
SizeInv == SizeTypes /\ PicturesInv /\ ScrollInv /\ AskedInv /\ ConfiguredInv /\ FollowsInv

\* The window of an X client nobody has touched follows the picture, and asks for the size it has.
WindowFollows ==
  /\ winState = "normal" /\ zoom = 1 /\ outer = unclaimed
  /\ IF Announced THEN outer \in Fits /\ sizeAsked = outer /\ canvas \in {0, outer}
     ELSE canvas = 0 /\ sizeAsked = 0 /\ toComp = <<>> /\ choices = 0 /\ ~resizeTimer

\* Such a client draws what it wanted, or has asked to; its pictures are of sizes it chose.
ClientDraws ==
  /\ drawn \in Sizes /\ wanted \in Sizes /\ (IF wish = 0 THEN drawn = wanted ELSE wish = wanted)
  /\ toPage # <<>> => \E f \in Fits \cap Sizes : toPage \in Before(f, f) /\ (choices = 0 => f = wanted)

\* It is asked for nothing else: before it chooses again for the size it has, and then for echoes.
ClientIsLeft ==
  IF choices = 0 THEN /\ cfg = wanted /\ notices = <<>> /\ (Announced => outer = wanted)
                      /\ \A i \in 1..Len(toComp) : toComp[i].size = wanted
  ELSE canvas # 0 /\ \A i \in 1..Len(toComp) : toComp[i].echo

\* What is wanted of an X window nobody has touched.
ChoiceInv == isX /\ acts = 0 => WindowFollows /\ ClientDraws /\ ClientIsLeft

\* What the application makes of a size is one it can have, and no limit the page heeds
\* changes it.
LEMMA WithinFits ==
  ASSUME Size!SizeTalkAssumption, limits \in Limits, NEW w \in Nat \ {0}
  PROVE  /\ Size!Within(w) \in Fits
         /\ \A m \in {0, limits[1]} : /\ Size!Larger(w, m) \in Nat \ {0}
                                      /\ Size!Within(Size!Larger(w, m)) = Size!Within(w)
<1>1. limits[1] \in Nat /\ limits[2] \in Nat /\ (limits[2] = 0 \/ limits[1] <= limits[2])
  BY DEF Size!SizeTalkAssumption
<1>2. Size!Within(w) \in Nat \ {0}
  BY <1>1 DEF Size!Within, Size!Larger, Size!Smaller
<1>3. Size!Within(Size!Within(w)) = Size!Within(w)
  BY <1>1 DEF Size!Within, Size!Larger, Size!Smaller
<1>4. ASSUME NEW m \in {0, limits[1]}
      PROVE  Size!Larger(w, m) \in Nat \ {0} /\ Size!Within(Size!Larger(w, m)) = Size!Within(w)
  BY <1>1, <1>4 DEF Size!Within, Size!Larger, Size!Smaller
<1> QED BY <1>2, <1>3, <1>4 DEF Fits

\* What fits is no less than the limits.
LEMMA FitsAreWithin ==
  ASSUME Size!SizeTalkAssumption, limits \in Limits, NEW f \in Fits
  PROVE  f \in Nat \ {0} /\ Size!Within(f) = f /\ limits[1] <= f /\ \A m \in {0, limits[1]} : Size!Larger(f, m) = f
<1>1. limits[1] \in Nat /\ limits[2] \in Nat /\ (limits[2] = 0 \/ limits[1] <= limits[2])
  BY DEF Size!SizeTalkAssumption
<1>2. f \in Nat \ {0} /\ Size!Within(f) = f
  BY DEF Fits
<1>3. limits[1] <= f
  BY <1>1, <1>2 DEF Size!Within, Size!Larger, Size!Smaller
<1> QED BY <1>1, <1>2, <1>3 DEF Size!Larger

\* The size a window has for an application is never nothing, unless it is minimized, and that
\* of a window which fits a picture exactly is the picture's.
LEMMA BoxIsPositive ==
  ASSUME Size!SizeTalkAssumption, NEW st, st # "minimized", NEW w \in Least..Area, NEW z \in Zooms
  PROVE  /\ Size!FrameSize(st, w, z) \in Nat \ {0}
         /\ Size!FrameSize(st, w, 1) = w
         /\ \A f \in Nat : w = f * z => Size!FrameSize(st, w, z) = f
<1>1. z \in Nat \ {0} /\ z <= 2 * Least /\ Least \in Nat \ {0} /\ Area \in Nat
  BY DEF Size!SizeTalkAssumption
<1>2. w \in Nat /\ Least <= w
  BY <1>1
<1>3. Size!FrameSize(st, w, z) = (2 * w + z) \div (2 * z)
  BY DEF Size!FrameSize
<1>4. (2 * w + z) \div (2 * z) \in Nat \ {0}
  <2> DEFINE d == 2 * z  n == 2 * w + z  q == n \div d
  <2>1. d \in Nat \ {0} /\ n \in Nat /\ n >= d
    BY <1>1, <1>2
  <2> HIDE DEF d, n
  <2>2. q \in Nat /\ n < d * q + d
    BY <2>1
  <2> HIDE DEF q
  <2>3. q # 0
    BY <2>1, <2>2
  <2> QED BY <2>2, <2>3 DEF d, n, q
<1>5. Size!FrameSize(st, w, 1) = w
  <2>1. (2 * w + 1) \div (2 * 1) = w
    BY <1>2
  <2> QED BY <2>1 DEF Size!FrameSize
<1>6. ASSUME NEW f \in Nat, w = f * z PROVE (2 * w + z) \div (2 * z) = f
  <2> DEFINE d == 2 * z  n == 2 * w + z  q == n \div d
  <2>1. d \in Nat \ {0} /\ n \in Nat /\ n = d * f + z /\ z < d /\ z >= 0
    BY <1>1, <1>2, <1>6
  <2> HIDE DEF d, n
  <2>2. q \in Nat /\ d * q <= n /\ n < d * q + d
    BY <2>1
  <2> HIDE DEF q
  <2>3. d * q < d * (f + 1) /\ d * f < d * (q + 1)
    BY <1>1, <2>1, <2>2
  <2>4. q < f + 1 /\ f < q + 1
    BY <2>1, <2>2, <2>3
  <2>5. q = f
    BY <2>2, <2>4
  <2> QED BY <2>5 DEF d, n, q
<1> QED BY <1>3, <1>4, <1>5, <1>6

\* What a window of the desktop may measure.
LEMMA ClampedFits ==
  ASSUME Size!SizeTalkAssumption, NEW w \in Nat
  PROVE  Size!Clamped(w) \in Least..Area /\ (w \in Least..Area => Size!Clamped(w) = w)
BY DEF Size!SizeTalkAssumption, Size!Clamped, Size!Larger, Size!Smaller

\* What is on its way to the page comes in order.
LEMMA PageQueue ==
  ASSUME NEW f, NEW w, toPage \in Before(f, w)
  PROVE  /\ toPage # <<>>
         /\ \/ /\ Head(toPage) = <<"window", w>> /\ Tail(toPage) = << <<"bounds", limits[1]>>, <<"frame", f>> >>
            \/ /\ Head(toPage) = <<"bounds", limits[1]>> /\ Tail(toPage) = << <<"frame", f>> >>
            \/ Head(toPage) = <<"frame", f>> /\ Tail(toPage) = <<>>
         /\ \E i \in DOMAIN toPage : toPage[i][1] = "frame"
<1> DEFINE a == <<"frame", f>>  b == <<"bounds", limits[1]>>  c == <<"window", w>>
<1>1. a[1] = "frame"
  OBVIOUS
<1>2. toPage \in {<<a>>, <<b, a>>, <<c, b, a>>}
  BY DEF Before
<1> HIDE DEF a, b, c
<1>3. CASE toPage = <<a>>
  <2>1. 1 \in DOMAIN <<a>> /\ <<a>>[1] = a /\ <<a>> # <<>> /\ Head(<<a>>) = a /\ Tail(<<a>>) = <<>>
    OBVIOUS
  <2> QED BY <1>1, <1>3, <2>1 DEF a
<1>4. CASE toPage = <<b, a>>
  <2>1. 2 \in DOMAIN <<b, a>> /\ <<b, a>>[2] = a /\ <<b, a>> # <<>> /\ Head(<<b, a>>) = b /\ Tail(<<b, a>>) = <<a>>
    OBVIOUS
  <2> QED BY <1>1, <1>4, <2>1 DEF a, b
<1>5. CASE toPage = <<c, b, a>>
  <2>1. 3 \in DOMAIN <<c, b, a>> /\ <<c, b, a>>[3] = a /\ <<c, b, a>> # <<>> /\ Head(<<c, b, a>>) = c /\ Tail(<<c, b, a>>) = <<b, a>>
    OBVIOUS
  <2> QED BY <1>1, <1>5, <2>1 DEF a, b, c
<1> QED BY <1>2, <1>3, <1>4, <1>5

\* The page asks the application to be the size its window has for it.
Asks ==
  /\ winState' # "minimized"
  /\ sizeAsked' = Size!Larger(Box', minKnown)
  /\ scrollable' \in BOOLEAN /\ (scrollable' <=> canvas' > Box')
  /\ \E e \in BOOLEAN : /\ toComp' = Append(toComp, [size |-> sizeAsked', echo |-> e])
                        /\ e => canvas' = sizeAsked'

\* The page asks for nothing, and will when the window is seen or its timer fires.
Waits ==
  /\ UNCHANGED <<sizeAsked, toComp>> /\ scrollable' \in BOOLEAN
  /\ winState' = "minimized" \/ resizeTimer'

\* The page asks for nothing: the window has the size it had. A picture of another size is the
\* one it asked for, or fits the window.
Stays ==
  /\ UNCHANGED <<sizeAsked, toComp>> /\ Box' = Box /\ (Announced' => Announced)
  /\ winState # "minimized" /\ winState' # "minimized" /\ ~resizeTimer
  /\ scrollable' \in BOOLEAN /\ (scrollable' <=> canvas' > Box')
  /\ canvas' = canvas \/ sizeAsked = 0 \/ canvas' = sizeAsked \/ canvas' = Box

\* The values of the variables of the page.
PageTypes ==
  /\ winState \in {"normal", "maximized", "minimized"}
  /\ outer \in Least..Area /\ restoreOuter \in Least..Area /\ unclaimed \in Least..Area
  /\ zoom \in Zooms /\ minKnown \in {0, limits[1]} /\ canvas \in Fits \cup {0}
  /\ resizeTimer \in BOOLEAN /\ acts \in Nat

\* What a step of the page does.
PageDoes == PageTypes' /\ PicturesInv' /\ UNCHANGED <<Size!appSide, choices>> /\ (Asks \/ Waits \/ Stays)

\* pushSize asks, unless the window is minimized.
LEMMA PushAsks ==
  ASSUME Size!SizeTalkAssumption, scrollable \in BOOLEAN, canvas' \in Nat,
         NEW st, NEW w \in Least..Area, NEW own, NEW z \in Zooms, Size!PushesSize(st, w, own, z),
         winState' = st, outer' = w, zoom' = z
  PROVE  Asks \/ (winState' = "minimized" /\ UNCHANGED <<sizeAsked, scrollable, toComp>>)
<1> DEFINE T == Size!FrameSize(st, w, z)  ask == Size!Larger(T, minKnown)
           e == Size!IsEcho(ask, canvas', Size!Unclaimed(st, w, own))
<1>1. Box' = T
  BY DEF Box
<1>2. CASE st = "minimized"
  BY <1>2 DEF Size!PushesSize, Size!FrameSize
<1>3. CASE st # "minimized"
  <2>1. T \in Nat \ {0}
    BY <1>3, BoxIsPositive
  <2>2. /\ scrollable' = Size!Scrolls(T, canvas') /\ sizeAsked' = ask
        /\ toComp' = Append(toComp, [size |-> ask, echo |-> e])
    BY <2>1 DEF Size!PushesSize
  <2>3. e \in BOOLEAN /\ (e => canvas' = ask)
    BY Zenon DEF Size!IsEcho
  <2> HIDE DEF e, T, ask
  <2>4. scrollable' \in BOOLEAN /\ (scrollable' <=> Size!Scrolls(T, canvas'))
    BY <2>2, Zenon DEF Size!Scrolls
  <2>5. Size!Scrolls(T, canvas') <=> canvas' > T
    BY <2>1 DEF Size!Scrolls
  <2>6. \E d \in BOOLEAN : toComp' = Append(toComp, [size |-> sizeAsked', echo |-> d]) /\ (d => canvas' = sizeAsked')
    BY <2>2, <2>3
  <2>7. sizeAsked' = Size!Larger(Box', minKnown) /\ winState' # "minimized"
    BY <1>1, <1>3, <2>2 DEF ask
  <2>8. scrollable' <=> canvas' > Box'
    BY <1>1, <2>4, <2>5
  <2> QED BY <2>4, <2>6, <2>7, <2>8 DEF Asks
<1> QED BY <1>2, <1>3

\* adoptSize asks, too, of a window that follows the picture if it still does.
LEMMA AdoptAsks ==
  ASSUME Size!SizeTalkAssumption, PageTypes, scrollable \in BOOLEAN, canvas' \in Nat,
         NEW n \in Nat, Size!Adopts(n), UNCHANGED <<winState, zoom>>
  PROVE  /\ outer' \in Least..Area /\ unclaimed' \in Least..Area /\ resizeTimer' \in BOOLEAN
         /\ Asks \/ (winState' = "minimized" /\ UNCHANGED <<sizeAsked, scrollable, toComp>>)
<1>1. zoom \in Nat /\ n * zoom \in Nat
  BY DEF PageTypes, Size!SizeTalkAssumption
<1>2. CASE ~Size!Unclaimed(winState, outer, unclaimed)
  <2>1. Size!PushesSize(winState, outer, unclaimed, zoom) /\ UNCHANGED <<outer, unclaimed, resizeTimer>>
    BY <1>2 DEF Size!Adopts
  <2>2. outer \in Least..Area /\ unclaimed \in Least..Area /\ resizeTimer \in BOOLEAN /\ zoom \in Zooms
    BY DEF PageTypes
  <2>3. Asks \/ (winState' = "minimized" /\ UNCHANGED <<sizeAsked, scrollable, toComp>>)
    BY <2>1, <2>2, PushAsks
  <2> QED BY <2>1, <2>2, <2>3
<1>3. CASE Size!Unclaimed(winState, outer, unclaimed)
  <2> DEFINE width == Size!Clamped(n * zoom)
  <2>1. /\ outer' = width /\ unclaimed' = width /\ resizeTimer' = (resizeTimer \/ width # outer)
        /\ Size!PushesSize(winState, width, width, zoom)
    BY <1>3 DEF Size!Adopts
  <2>2. width \in Least..Area
    BY <1>1, ClampedFits
  <2> HIDE DEF width
  <2>3. resizeTimer' \in BOOLEAN
    BY <2>1, Zenon
  <2>4. zoom \in Zooms
    BY DEF PageTypes
  <2>5. Asks \/ (winState' = "minimized" /\ UNCHANGED <<sizeAsked, scrollable, toComp>>)
    BY <2>1, <2>2, <2>4, PushAsks
  <2> QED BY <2>1, <2>2, <2>3, <2>5
<1> QED BY <1>2, <1>3

\* A step of the page that takes no message and leaves the picture alone leaves what is on its way.
LEMMA PicturesStay ==
  ASSUME PicturesInv, UNCHANGED <<toPage, canvas, pendingFrame, drawn, limits>>
  PROVE  PicturesInv' /\ (Announced' <=> Announced)
<1>1. Fits' = Fits /\ \A f, w : Before(f, w)' = Before(f, w)
  BY DEF Fits, Before, Size!Within
<1> QED BY <1>1 DEF PicturesInv, Announced

\* The page takes a message, of a picture f or of what goes before it.
LEMMA PageTakes ==
  ASSUME NEW kind \in {"window", "bounds", "frame"}, PicturesInv, Size!Takes(kind)
  PROVE  /\ UNCHANGED <<winState, restoreOuter, zoom, Size!appSide, acts, choices>>
         /\ Announced' /\ (~Announced <=> kind = "window")
         /\ \E f \in Fits, w \in Fits :
              /\ ~pendingFrame => f = drawn
              /\ \/ kind = "window" /\ Head(toPage)[2] = w /\ toPage' \in Before(f, w)
                 \/ kind = "bounds" /\ Head(toPage)[2] = limits[1] /\ toPage' \in Before(f, w)
                 \/ kind = "frame" /\ Head(toPage)[2] = f /\ toPage' = <<>>
<1>1. /\ toPage # <<>> /\ Head(toPage)[1] = kind /\ toPage' = Tail(toPage)
      /\ UNCHANGED <<winState, restoreOuter, zoom, Size!appSide, acts, choices>>
  BY DEF Size!Takes
<1>2. PICK f \in Fits, w \in Fits : toPage \in Before(f, w) /\ (~pendingFrame => f = drawn)
  BY <1>1 DEF PicturesInv
<1>3. \/ /\ Head(toPage) = <<"window", w>> /\ Tail(toPage) = << <<"bounds", limits[1]>>, <<"frame", f>> >>
      \/ /\ Head(toPage) = <<"bounds", limits[1]>> /\ Tail(toPage) = << <<"frame", f>> >>
      \/ Head(toPage) = <<"frame", f>> /\ Tail(toPage) = <<>>
  BY <1>2, PageQueue
<1>4. /\ <<"window", w>>[1] = "window" /\ <<"window", w>>[2] = w
      /\ <<"bounds", limits[1]>>[1] = "bounds" /\ <<"bounds", limits[1]>>[2] = limits[1]
      /\ <<"frame", f>>[1] = "frame" /\ <<"frame", f>>[2] = f
  OBVIOUS
<1>5. /\ kind = "window" => Head(toPage)[2] = w /\ toPage' = << <<"bounds", limits[1]>>, <<"frame", f>> >>
      /\ kind = "bounds" => Head(toPage)[2] = limits[1] /\ toPage' = << <<"frame", f>> >>
      /\ kind = "frame" => Head(toPage)[2] = f /\ toPage' = <<>>
  BY <1>1, <1>3, <1>4
<1>6. /\ << <<"bounds", limits[1]>>, <<"frame", f>> >> \in Before(f, w) /\ << <<"frame", f>> >> \in Before(f, w)
      /\ Head(<< <<"bounds", limits[1]>>, <<"frame", f>> >>)[1] = "bounds" /\ Head(<< <<"frame", f>> >>)[1] = "frame"
  BY DEF Before
<1>7. Announced'
  BY <1>5, <1>6 DEF Announced
<1>8. ~Announced <=> kind = "window"
  BY <1>1 DEF Announced
<1> QED BY <1>1, <1>2, <1>5, <1>6, <1>7, <1>8

\* The application's side stays, and with it what can be drawn.
LEMMA AppStays ==
  ASSUME UNCHANGED Size!appSide
  PROVE  /\ UNCHANGED <<toApp, wish, notices, isX, limits, cfg, drawn, pendingFrame, wanted>>
         /\ Fits' = Fits /\ \A f, w : Before(f, w)' = Before(f, w)
         /\ \A s : Size!Within(s)' = Size!Within(s)
BY DEF Size!appSide, Fits, Before, Size!Within

\* What the page does when it takes a message.
LEMMA PageReads ==
  ASSUME Size!SizeTalkAssumption, SizeTypes, PicturesInv, ScrollInv,
         Size!HandleWindow \/ Size!HandleBounds \/ Size!HandleFrame
  PROVE  PageDoes
<1>1. /\ PageTypes /\ scrollable \in BOOLEAN /\ limits \in Limits /\ sizeAsked \in Nat /\ Size!SizeTalkAssumption
      /\ \A f \in Fits : f \in Nat \ {0}
  BY DEF SizeTypes, PageTypes, Fits
<1>2. canvas \in Nat
  BY <1>1 DEF PageTypes
<1>3. CASE Size!HandleWindow
  <2>1. Size!Takes("window") /\ UNCHANGED <<canvas, minKnown>> /\ Size!Adopts(Head(toPage)[2])
    BY <1>3 DEF Size!HandleWindow
  <2>2. PICK f \in Fits, w \in Fits : /\ ~pendingFrame => f = drawn
                                      /\ Head(toPage)[2] = w /\ toPage' \in Before(f, w)
    BY <2>1, PageTakes
  <2>3. UNCHANGED <<winState, restoreOuter, zoom, Size!appSide, acts, choices>>
    BY <2>1, PageTakes
  <2>4. w \in Nat /\ Size!Adopts(w) /\ canvas' \in Nat
    BY <1>1, <1>2, <2>1, <2>2
  <2>5. /\ outer' \in Least..Area /\ unclaimed' \in Least..Area /\ resizeTimer' \in BOOLEAN
        /\ Asks \/ (winState' = "minimized" /\ UNCHANGED <<sizeAsked, scrollable, toComp>>)
    BY <1>1, <2>3, <2>4, AdoptAsks
  <2>6. PicturesInv'
    BY <2>2, <2>3, AppStays DEF PicturesInv
  <2>7. PageTypes'
    BY <1>1, <2>1, <2>3, <2>5, AppStays DEF PageTypes
  <2> QED BY <1>1, <2>3, <2>5, <2>6, <2>7 DEF PageDoes, Waits
<1>4. CASE Size!HandleBounds
  <2>1. /\ Size!Takes("bounds") /\ minKnown' = Head(toPage)[2]
        /\ UNCHANGED <<outer, unclaimed, sizeAsked, canvas, scrollable, resizeTimer, toComp>>
    BY <1>4 DEF Size!HandleBounds
  <2>2. PICK f \in Fits, w \in Fits : /\ ~pendingFrame => f = drawn
                                      /\ Head(toPage)[2] = limits[1] /\ toPage' \in Before(f, w)
    BY <2>1, PageTakes
  <2>3. UNCHANGED <<winState, restoreOuter, zoom, Size!appSide, acts, choices>> /\ Announced
    BY <2>1, PageTakes
  <2>4. PicturesInv'
    BY <2>2, <2>3, AppStays DEF PicturesInv
  <2>5. PageTypes'
    BY <1>1, <2>1, <2>2, <2>3, AppStays DEF PageTypes
  <2>6. Box' = Box
    BY <2>1, <2>3 DEF Box
  <2>7. CASE ~resizeTimer /\ winState # "minimized"
    <3>1. scrollable' <=> canvas' > Box'
      BY <2>1, <2>6, <2>7 DEF ScrollInv
    <3>2. Stays
      BY <1>1, <2>1, <2>3, <2>6, <2>7, <3>1 DEF Stays
    <3> QED BY <2>3, <2>4, <2>5, <3>2 DEF PageDoes
  <2>8. CASE resizeTimer \/ winState = "minimized"
    <3>1. Waits
      BY <1>1, <2>1, <2>3, <2>8 DEF Waits
    <3> QED BY <2>3, <2>4, <2>5, <3>1 DEF PageDoes
  <2> QED BY <2>7, <2>8
<1>5. CASE Size!HandleFrame
  <2>1. Size!Takes("frame") /\ UNCHANGED minKnown
    BY <1>5 DEF Size!HandleFrame
  <2>2. PICK f \in Fits, w \in Fits : /\ ~pendingFrame => f = drawn
                                      /\ Head(toPage)[2] = f /\ toPage' = <<>>
    BY <2>1, PageTakes
  <2>3. UNCHANGED <<winState, restoreOuter, zoom, Size!appSide, acts, choices>> /\ Announced
    BY <2>1, PageTakes
  <2> DEFINE b == Size!FrameSize(winState, outer, 1)
  <2>4. canvas' = f
    BY <1>5, <2>2 DEF Size!HandleFrame
  <2>5. \/ Size!Adopts(f)
        \/ /\ f = canvas \/ sizeAsked = 0 \/ f = sizeAsked \/ b = 0 \/ b = f * zoom
           /\ scrollable' = Size!Scrolls(Size!FrameSize(winState, outer, zoom), f)
           /\ UNCHANGED <<outer, unclaimed, sizeAsked, resizeTimer, toComp>>
    BY <1>5, <2>2 DEF Size!HandleFrame, Size!AppChose
  <2>6. PicturesInv'
    BY <2>2, <2>3, <2>4, AppStays DEF PicturesInv
  <2>7. CASE Size!Adopts(f)
    <3>1. f \in Nat /\ canvas' \in Nat
      BY <1>1, <2>4
    <3>2. /\ outer' \in Least..Area /\ unclaimed' \in Least..Area /\ resizeTimer' \in BOOLEAN
          /\ Asks \/ (winState' = "minimized" /\ UNCHANGED <<sizeAsked, scrollable, toComp>>)
      BY <1>1, <2>3, <2>7, <3>1, AdoptAsks
    <3>3. PageTypes'
      BY <1>1, <2>1, <2>3, <2>4, <3>2, AppStays DEF PageTypes
    <3> QED BY <1>1, <2>3, <2>6, <3>2, <3>3 DEF PageDoes, Waits
  <2>8. CASE /\ f = canvas \/ sizeAsked = 0 \/ f = sizeAsked \/ b = 0 \/ b = f * zoom
             /\ scrollable' = Size!Scrolls(Size!FrameSize(winState, outer, zoom), f)
             /\ UNCHANGED <<outer, unclaimed, sizeAsked, resizeTimer, toComp>>
    <3>1. PageTypes'
      BY <1>1, <2>1, <2>3, <2>4, <2>8, AppStays DEF PageTypes
    <3>2. Box' = Box
      BY <2>3, <2>8 DEF Box
    <3>3. scrollable' \in BOOLEAN /\ (scrollable' <=> Size!Scrolls(Box, f))
      BY <2>8, Zenon DEF Size!Scrolls, Box
    <3>4. CASE ~resizeTimer /\ winState # "minimized"
      <4>1. outer \in Least..Area /\ zoom \in Zooms
        BY <1>1 DEF PageTypes
      <4>2. Box \in Nat \ {0} /\ b = outer /\ outer # 0 /\ (outer = f * zoom => Box = f)
        <5>1. Least \in Nat \ {0} /\ Area \in Nat
          BY DEF Size!SizeTalkAssumption
        <5>2. f \in Nat
          BY <1>1
        <5>3. /\ Size!FrameSize(winState, outer, zoom) \in Nat \ {0} /\ Size!FrameSize(winState, outer, 1) = outer
              /\ outer = f * zoom => Size!FrameSize(winState, outer, zoom) = f
          BY <3>4, <4>1, <5>2, BoxIsPositive
        <5> QED BY <4>1, <5>1, <5>3 DEF Box
      <4>3. scrollable' <=> canvas' > Box'
        BY <2>4, <3>2, <3>3, <4>2 DEF Size!Scrolls
      <4>4. canvas' = canvas \/ sizeAsked = 0 \/ canvas' = sizeAsked \/ canvas' = Box
        BY <2>4, <2>8, <4>2
      <4>5. Stays
        BY <2>3, <2>8, <3>2, <3>3, <3>4, <4>3, <4>4 DEF Stays
      <4> QED BY <2>3, <2>6, <3>1, <4>5 DEF PageDoes
    <3>5. CASE resizeTimer \/ winState = "minimized"
      <4>1. Waits
        BY <2>3, <2>8, <3>3, <3>5 DEF Waits
      <4> QED BY <2>3, <2>6, <3>1, <4>1 DEF PageDoes
    <3> QED BY <1>1, <3>4, <3>5 DEF PageTypes
  <2> QED BY <2>5, <2>7, <2>8
<1> QED BY <1>3, <1>4, <1>5

\* What the page does when the person does something, or its timer fires.
LEMMA PageActs ==
  ASSUME Size!SizeTalkAssumption, SizeTypes, PicturesInv, ScrollInv,
         \/ Size!ResizeSettles \/ Size!Resize(FALSE) \/ Size!Resize(TRUE)
         \/ Size!Maximize \/ Size!Minimize \/ Size!Restore \/ Size!SetZoom
  PROVE  PageDoes
<1>1. PageTypes /\ scrollable \in BOOLEAN /\ limits \in Limits /\ sizeAsked \in Nat /\ acts \in Nat /\ canvas \in Nat
  BY DEF SizeTypes, PageTypes, Fits
<1>2. Least \in Nat \ {0} /\ Area \in Least..Area
  BY DEF Size!SizeTalkAssumption
<1>3. /\ canvas' = canvas /\ UNCHANGED <<toPage, minKnown, Size!appSide, choices, unclaimed>> /\ acts' \in Nat
  BY <1>1 DEF Size!ResizeSettles, Size!Resize, Size!Maximize, Size!Minimize, Size!Restore,
     Size!SetZoom, Size!Acts
<1>4. PicturesInv' /\ (Announced' <=> Announced)
  BY <1>3, AppStays, PicturesStay
<1>5. ASSUME winState' \in {"normal", "maximized", "minimized"}, outer' \in Least..Area,
             restoreOuter' \in Least..Area, zoom' \in Zooms, resizeTimer' \in BOOLEAN, Asks \/ Waits \/ Stays
      PROVE  PageDoes
  <2>1. PageTypes'
    BY <1>1, <1>3, <1>5, AppStays DEF PageTypes
  <2> QED BY <1>3, <1>4, <1>5, <2>1 DEF PageDoes
<1>6. /\ winState \in {"normal", "maximized", "minimized"} /\ outer \in Least..Area
      /\ restoreOuter \in Least..Area /\ zoom \in Zooms /\ resizeTimer \in BOOLEAN
  BY <1>1 DEF PageTypes
<1>7. CASE Size!ResizeSettles
  <2>1. /\ resizeTimer' = FALSE /\ UNCHANGED <<winState, outer, restoreOuter, zoom>>
        /\ Size!PushesSize(winState, outer, unclaimed, zoom)
    BY <1>7 DEF Size!ResizeSettles
  <2>2. Asks \/ (winState' = "minimized" /\ UNCHANGED <<sizeAsked, scrollable, toComp>>)
    BY <1>1, <1>3, <1>6, <2>1, PushAsks
  <2>3. Asks \/ Waits
    BY <1>1, <2>2 DEF Waits
  <2> QED BY <1>5, <1>6, <2>1, <2>3
<1>8. ASSUME NEW atOnce \in BOOLEAN, Size!Resize(atOnce) PROVE PageDoes
  <2>1. PICK w \in Least..Area :
          /\ outer' = w /\ resizeTimer' = TRUE /\ winState = "normal"
          /\ IF atOnce THEN Size!PushesSize(winState, w, unclaimed, zoom) ELSE UNCHANGED <<sizeAsked, scrollable, toComp>>
    BY <1>8 DEF Size!Resize
  <2>2. UNCHANGED <<winState, restoreOuter, zoom>>
    BY <1>8 DEF Size!Resize
  <2>3. CASE atOnce
    <3>1. Asks \/ (winState' = "minimized" /\ UNCHANGED <<sizeAsked, scrollable, toComp>>)
      BY <1>1, <1>3, <1>6, <2>1, <2>2, <2>3, PushAsks
    <3>2. Asks
      BY <2>1, <2>2, <3>1
    <3> QED BY <1>5, <1>6, <2>1, <2>2, <3>2
  <2>4. CASE ~atOnce
    <3>1. Waits
      BY <1>1, <2>1, <2>4 DEF Waits
    <3> QED BY <1>5, <1>6, <2>1, <2>2, <3>1
  <2> QED BY <2>3, <2>4
<1>9. CASE Size!Maximize
  <2>1. /\ winState = "normal" /\ winState' = "maximized" /\ restoreOuter' = outer /\ outer' = Area
        /\ resizeTimer' = (resizeTimer \/ outer # Area) /\ UNCHANGED <<zoom, sizeAsked, scrollable, toComp>>
    BY <1>9 DEF Size!Maximize
  <2>2. resizeTimer' \in BOOLEAN /\ (resizeTimer' <=> resizeTimer \/ outer # Area)
    BY <2>1, Zenon
  <2>3. CASE resizeTimer'
    <3>1. Waits
      BY <1>1, <2>1, <2>3 DEF Waits
    <3> QED BY <1>2, <1>5, <1>6, <2>1, <2>2, <3>1
  <2>4. CASE ~resizeTimer'
    <3>1. ~resizeTimer /\ outer' = outer
      BY <2>1, <2>2, <2>4
    <3>2. Box' = Box
      BY <2>1, <3>1 DEF Box, Size!FrameSize
    <3>3. scrollable' <=> canvas' > Box'
      BY <1>3, <2>1, <3>1, <3>2 DEF ScrollInv
    <3>4. Stays
      BY <1>1, <1>3, <1>4, <2>1, <3>1, <3>2, <3>3 DEF Stays
    <3> QED BY <1>2, <1>5, <1>6, <2>1, <2>2, <3>4
  <2> QED BY <2>3, <2>4
<1>10. CASE Size!Minimize
  <2>1. /\ winState' = "minimized" /\ restoreOuter' = outer /\ resizeTimer' = TRUE
        /\ UNCHANGED <<outer, zoom, sizeAsked, scrollable, toComp>>
    BY <1>10 DEF Size!Minimize
  <2>2. Waits
    BY <1>1, <2>1 DEF Waits
  <2> QED BY <1>5, <1>6, <2>1, <2>2
<1>11. CASE Size!Restore
  <2>1. /\ winState' = "normal" /\ outer' = Size!Clamped(restoreOuter) /\ resizeTimer' = TRUE
        /\ IF winState = "minimized" THEN Size!PushesSize("normal", outer', unclaimed, zoom)
           ELSE UNCHANGED <<sizeAsked, scrollable, toComp>>
        /\ UNCHANGED <<restoreOuter, zoom>>
    BY <1>11 DEF Size!Restore
  <2>2. outer' \in Least..Area
    <3>1. restoreOuter \in Nat
      BY <1>2, <1>6
    <3> QED BY <2>1, <3>1, ClampedFits
  <2>3. CASE winState = "minimized"
    <3>1. Asks \/ (winState' = "minimized" /\ UNCHANGED <<sizeAsked, scrollable, toComp>>)
      BY <1>1, <1>3, <1>6, <2>1, <2>2, <2>3, PushAsks
    <3>2. Asks
      BY <2>1, <3>1
    <3> QED BY <1>5, <1>6, <2>1, <2>2, <3>2
  <2>4. CASE winState # "minimized"
    <3>1. Waits
      BY <1>1, <2>1, <2>4 DEF Waits
    <3> QED BY <1>5, <1>6, <2>1, <2>2, <3>1
  <2> QED BY <2>3, <2>4
<1>12. CASE Size!SetZoom
  <2>1. PICK z \in Zooms \ {zoom} : zoom' = z /\ Size!PushesSize(winState, outer, unclaimed, z)
    BY <1>12 DEF Size!SetZoom
  <2>2. UNCHANGED <<winState, outer, restoreOuter, resizeTimer>>
    BY <1>12 DEF Size!SetZoom
  <2>3. Asks \/ (winState' = "minimized" /\ UNCHANGED <<sizeAsked, scrollable, toComp>>)
    BY <1>1, <1>3, <1>6, <2>1, <2>2, PushAsks
  <2>4. Asks \/ Waits
    BY <1>1, <2>3 DEF Waits
  <2> QED BY <1>5, <1>6, <2>1, <2>2, <2>4
<1> QED BY <1>7, <1>8, <1>9, <1>10, <1>11, <1>12

\* What the page does keeps the invariant of the sizes.
LEMMA PageKeeps ==
  ASSUME Size!SizeTalkAssumption, SizeInv, PageDoes
  PROVE  SizeInv'
<1>1. /\ SizeTypes /\ PicturesInv /\ ScrollInv /\ AskedInv /\ ConfiguredInv /\ FollowsInv
      /\ PageTypes' /\ PicturesInv' /\ UNCHANGED <<Size!appSide, choices>> /\ (Asks \/ Waits \/ Stays)
  BY DEF SizeInv, PageDoes
<1>2. /\ UNCHANGED <<toApp, wish, notices, isX, limits, cfg, drawn, pendingFrame, wanted, choices>>
      /\ Fits' = Fits
  BY <1>1, AppStays
<1>3. /\ limits \in Limits /\ canvas \in Fits \cup {0} /\ sizeAsked \in Nat /\ toComp \in Seq(Configures)
      /\ minKnown \in {0, limits[1]} /\ scrollable \in BOOLEAN
  BY <1>1 DEF SizeTypes
<1>4. ASSUME scrollable' \in BOOLEAN, sizeAsked' \in Nat, toComp' \in Seq(Configures) PROVE SizeTypes'
  <2>1. Configures' = Configures
    BY DEF Configures
  <2> QED BY <1>1, <1>2, <1>4, <2>1 DEF SizeTypes, PageTypes
<1>5. CASE Asks
  <2> DEFINE n == Len(toComp)  T == Size!FrameSize(winState', outer', zoom')
  <2>1. PICK e \in BOOLEAN : /\ toComp' = Append(toComp, [size |-> sizeAsked', echo |-> e])
                             /\ e => canvas' = sizeAsked'
    BY <1>5 DEF Asks
  <2>2. T \in Nat \ {0} /\ Box' = T
    <3>1. winState' # "minimized" /\ outer' \in Least..Area /\ zoom' \in Zooms
      BY <1>1, <1>5 DEF Asks, PageTypes
    <3> QED BY <3>1, BoxIsPositive DEF Box
  <2>3. sizeAsked' = Size!Larger(T, minKnown)
    BY <1>5, <2>2 DEF Asks
  <2> HIDE DEF T
  <2>4. sizeAsked' \in Nat \ {0} /\ Size!Within(sizeAsked') = Size!Within(T)
    BY <1>3, <2>2, <2>3, WithinFits
  <2> DEFINE c == [size |-> sizeAsked', echo |-> e]
  <2>5. c \in Configures /\ c.size = sizeAsked' /\ c.echo = e
    BY <2>4 DEF Configures
  <2> HIDE DEF c
  <2>6. /\ toComp' \in Seq(Configures) /\ Len(toComp') = n + 1 /\ toComp'[n + 1] = c /\ n \in Nat
        /\ \A i \in 1..n : toComp'[i] = toComp[i]
    BY <1>3, <2>1, <2>5, AppendProperties DEF c
  <2> HIDE DEF n
  <2>7. SizeTypes'
    BY <1>4, <1>5, <2>4, <2>6 DEF Asks
  <2>8. ScrollInv'
    BY <1>5 DEF Asks, ScrollInv
  <2>9. AskedInv'
    <3>1. Size!Within(sizeAsked)' = Size!Within(sizeAsked') /\ Size!Within(Box)' = Size!Within(T)
      BY <1>2, <2>2 DEF Size!Within
    <3> QED BY <2>4, <3>1 DEF AskedInv
  <2>10. ConfiguredInv'
    <3>1. toComp' # <<>> /\ toComp'[Len(toComp')].size = sizeAsked'
      BY <2>5, <2>6
    <3> QED BY <1>1, <1>2, <3>1 DEF ConfiguredInv
  <2>11. FollowsInv'
    <3>1. CASE e
      BY <2>1, <3>1 DEF FollowsInv
    <3>2. CASE ~e
      <4>1. PICK m \in Nat : m = n + 1
        BY <2>6
      <4>2. m \in 1..Len(toComp') /\ ~toComp'[m].echo /\ \A j \in (m + 1)..Len(toComp') : toComp'[j].echo
        BY <2>5, <2>6, <3>2, <4>1
      <4>3. Size!Within(toComp[m].size)' = Size!Within(sizeAsked)'
        BY <2>5, <2>6, <4>1 DEF Size!Within
      <4>4. EndsAt(Size!Within(sizeAsked))'
        BY <4>2, <4>3 DEF EndsAt
      <4> QED BY <4>4 DEF FollowsInv
    <3> QED BY <2>1, <3>1, <3>2
  <2> QED BY <1>1, <2>7, <2>8, <2>9, <2>10, <2>11 DEF SizeInv
<1>6. CASE Waits
  <2>1. SizeTypes'
    BY <1>3, <1>4, <1>6 DEF Waits
  <2>2. ScrollInv' /\ AskedInv' /\ FollowsInv'
    BY <1>6 DEF Waits, ScrollInv, AskedInv, FollowsInv, Settled
  <2>3. ConfiguredInv'
    BY <1>1, <1>2, <1>6 DEF ConfiguredInv, Waits, Size!Within
  <2> QED BY <1>1, <2>1, <2>2, <2>3 DEF SizeInv
<1>7. CASE Stays
  <2>1. UNCHANGED <<sizeAsked, toComp>> /\ Box' = Box /\ (Announced' => Announced)
    BY <1>7 DEF Stays
  <2>2. SizeTypes'
    BY <1>3, <1>4, <1>7, <2>1 DEF Stays
  <2>3. ScrollInv'
    BY <1>7 DEF Stays, ScrollInv
  <2>4. ConfiguredInv'
    BY <1>1, <1>2, <2>1 DEF ConfiguredInv, Size!Within
  <2>5. Settled' => Settled
    BY <1>7, <2>1 DEF Settled, Stays
  <2>6. Size!Within(sizeAsked)' = Size!Within(sizeAsked) /\ Size!Within(Box)' = Size!Within(Box)
    BY <1>2, <2>1 DEF Size!Within
  <2>7. AskedInv'
    BY <1>1, <2>1, <2>5, <2>6 DEF AskedInv
  <2>8. FollowsInv'
    <3>1. SUFFICES ASSUME isX, choices = 0, Settled
                   PROVE  canvas' = sizeAsked \/ EndsAt(Size!Within(sizeAsked))'
      BY <1>2, <2>1, <2>5 DEF FollowsInv
    <3>2. sizeAsked # 0 /\ Size!Within(sizeAsked) = Size!Within(Box)
      BY <1>1, <3>1 DEF AskedInv
    <3>3. CASE EndsAt(Size!Within(sizeAsked))
      <4>1. \A i : Size!Within(toComp[i].size)' = Size!Within(toComp[i].size)
        BY <1>2, <2>1 DEF Size!Within
      <4> QED BY <1>2, <2>1, <2>6, <3>3, <4>1 DEF EndsAt
    <3>4. CASE canvas = sizeAsked
      <4>1. CASE canvas' = Box
        <5>1. Box \in Fits /\ sizeAsked \in Fits
          <6>1. winState' # "minimized" /\ outer' \in Least..Area /\ zoom' \in Zooms /\ canvas' \in Fits \cup {0}
            BY <1>1, <1>2, <1>7 DEF Stays, PageTypes
          <6>2. Size!FrameSize(winState', outer', zoom') \in Nat \ {0}
            BY <6>1, BoxIsPositive
          <6>3. Box' = Size!FrameSize(winState', outer', zoom')
            BY DEF Box
          <6> QED BY <1>3, <2>1, <3>2, <3>4, <4>1, <6>1, <6>2, <6>3
        <5>2. Size!Within(Box) = Box /\ Size!Within(sizeAsked) = sizeAsked
          BY <5>1 DEF Fits
        <5> QED BY <3>2, <4>1, <5>2
      <4>2. CASE canvas' = canvas \/ canvas' = sizeAsked
        BY <3>4, <4>2
      <4> QED BY <1>7, <3>2, <4>1, <4>2 DEF Stays
    <3> QED BY <1>1, <3>1, <3>3, <3>4 DEF FollowsInv
  <2> QED BY <1>1, <2>2, <2>3, <2>4, <2>7, <2>8 DEF SizeInv
<1> QED BY <1>1, <1>5, <1>6, <1>7

\* The first and the last of a sequence, and what is left without the first.
LEMMA WithoutFirst ==
  ASSUME NEW S, NEW q \in Seq(S), q # <<>>
  PROVE  /\ Head(q) \in S /\ Head(q) = q[1] /\ Tail(q) \in Seq(S) /\ Len(q) \in Nat \ {0}
         /\ Len(Tail(q)) = Len(q) - 1 /\ \A i \in 1..(Len(q) - 1) : Tail(q)[i] = q[i + 1]
         /\ Tail(q) = <<>> => q[Len(q)] = Head(q)
         /\ Tail(q) # <<>> => Tail(q)[Len(Tail(q))] = q[Len(q)]
<1>1. /\ Head(q) \in S /\ Tail(q) \in Seq(S) /\ Len(Tail(q)) = Len(q) - 1
      /\ \A i \in 1..Len(Tail(q)) : Tail(q)[i] = q[i + 1]
  BY HeadTailProperties
<1>2. Len(q) \in Nat /\ Len(q) # 0 /\ Head(q) = q[1]
  BY EmptySeq, LenProperties
<1>3. Len(<<>>) = 0 /\ (Len(Tail(q)) = 0 => Tail(q) = <<>>)
  BY <1>1, EmptySeq
<1> DEFINE n == Len(q)  t == Tail(q)
<1>4. n \in Nat \ {0} /\ Len(t) = n - 1 /\ \A i \in 1..(n - 1) : t[i] = q[i + 1]
  BY <1>1, <1>2
<1>5. t = <<>> => n = 1
  <2> HIDE DEF n, t
  <2>1. t = <<>> => Len(t) = 0
    BY <1>3
  <2> QED BY <1>4, <2>1
<1>6. ASSUME t # <<>> PROVE t[Len(t)] = q[n]
  <2>1. n # 1
    BY <1>3, <1>4, <1>6
  <2> HIDE DEF n, t
  <2>2. n - 1 \in 1..(n - 1) /\ (n - 1) + 1 = n
    BY <1>4, <2>1
  <2> QED BY <1>4, <2>2
<1> QED BY <1>1, <1>2, <1>4, <1>5, <1>6

\* The page's side stays, and with it the size of the window.
LEMMA PageStays ==
  ASSUME UNCHANGED Size!pageSide, UNCHANGED <<isX, limits>>
  PROVE  /\ UNCHANGED <<winState, outer, restoreOuter, zoom, unclaimed, sizeAsked, canvas, minKnown,
                        scrollable, resizeTimer>>
         /\ Fits' = Fits /\ Configures' = Configures /\ Box' = Box
         /\ \A f, w : Before(f, w)' = Before(f, w)
         /\ \A s : Size!Within(s)' = Size!Within(s)
BY DEF Size!pageSide, Fits, Configures, Box, Before, Size!Within

\* A step of the compositor or the application that sends no picture keeps what concerns the page.
LEMMA PageSees ==
  ASSUME SizeInv, UNCHANGED Size!pageSide, UNCHANGED <<isX, limits, toPage>>,
         ~pendingFrame' => ~pendingFrame /\ drawn' = drawn
  PROVE  PicturesInv' /\ ScrollInv' /\ AskedInv' /\ (Settled' <=> Settled)
<1>1. PicturesInv /\ ScrollInv /\ AskedInv
  BY DEF SizeInv
<1>2. /\ UNCHANGED <<winState, outer, restoreOuter, zoom, unclaimed, sizeAsked, canvas, minKnown,
                     scrollable, resizeTimer>>
      /\ Fits' = Fits /\ Box' = Box /\ \A f, w : Before(f, w)' = Before(f, w)
      /\ Size!Within(sizeAsked)' = Size!Within(sizeAsked) /\ Size!Within(Box)' = Size!Within(Box)
  BY PageStays DEF Size!Within
<1>3. PicturesInv'
  BY <1>1, <1>2 DEF PicturesInv
<1>4. Settled' <=> Settled
  BY <1>2 DEF Settled, Announced
<1>5. ScrollInv'
  BY <1>1, <1>2 DEF ScrollInv
<1>6. AskedInv'
  BY <1>1, <1>2, <1>4 DEF AskedInv
<1> QED BY <1>3, <1>4, <1>5, <1>6

\* A configure that is handled leaves an X window to end at the size it would have ended at.
LEMMA EndStays ==
  ASSUME toComp \in Seq(Configures), toComp # <<>>, toComp' = Tail(toComp), isX, UNCHANGED limits,
         NEW s, EndsAt(s),
         IF Size!Within(Head(toComp).size) = drawn \/ Head(toComp).echo THEN drawn' = drawn
         ELSE drawn' = Size!Within(Head(toComp).size)
  PROVE  \/ \E i \in 1..Len(toComp') : /\ ~toComp'[i].echo /\ Size!Within(toComp'[i].size) = s
                                       /\ \A j \in (i + 1)..Len(toComp') : toComp'[j].echo
         \/ drawn' = s /\ \A j \in 1..Len(toComp') : toComp'[j].echo
<1> DEFINE n == Len(toComp)  t == Tail(toComp)  c == Head(toComp)
<1>1. /\ c = toComp[1] /\ n \in Nat \ {0} /\ Len(t) = n - 1
      /\ \A i \in 1..(n - 1) : t[i] = toComp[i + 1]
  BY WithoutFirst
<1>2. toComp' = t
  OBVIOUS
<1> HIDE DEF n, t, c
<1>3. CASE drawn = s /\ \A j \in 1..n : toComp[j].echo
  <2>1. c.echo
    BY <1>1, <1>3
  <2>2. drawn' = s
    BY <1>3, <2>1 DEF c
  <2>3. \A j \in 1..(n - 1) : t[j].echo
    <3>1. \A j \in 1..(n - 1) : j + 1 \in 1..n /\ t[j] = toComp[j + 1]
      BY <1>1
    <3> QED BY <1>3, <3>1
  <2> QED BY <1>1, <1>2, <2>2, <2>3
<1>4. ASSUME NEW i \in 1..n, ~toComp[i].echo, Size!Within(toComp[i].size) = s, \A j \in (i + 1)..n : toComp[j].echo
      PROVE  \/ \E k \in 1..Len(toComp') : /\ ~toComp'[k].echo /\ Size!Within(toComp'[k].size) = s
                                           /\ \A j \in (k + 1)..Len(toComp') : toComp'[j].echo
             \/ drawn' = s /\ \A j \in 1..Len(toComp') : toComp'[j].echo
  <2>1. CASE i = 1
    <3>1. ~c.echo /\ Size!Within(c.size) = s
      BY <1>1, <1>4, <2>1
    <3>2. drawn' = s
      BY <3>1 DEF c
    <3>3. \A j \in 1..(n - 1) : t[j].echo
      <4>1. \A j \in 1..(n - 1) : j + 1 \in (i + 1)..n /\ t[j] = toComp[j + 1]
        BY <1>1, <2>1
      <4> QED BY <1>4, <4>1
    <3> QED BY <1>1, <1>2, <3>2, <3>3
  <2>2. CASE i # 1
    <3>1. PICK k \in 1..(n - 1) : i = k + 1
      BY <1>1, <2>2
    <3>2. t[k] = toComp[i] /\ \A j \in (k + 1)..(n - 1) : t[j].echo
      <4>1. \A j \in k..(n - 1) : j \in 1..(n - 1) /\ t[j] = toComp[j + 1]
        BY <1>1, <3>1
      <4>2. k \in k..(n - 1) /\ \A j \in (k + 1)..(n - 1) : j + 1 \in (i + 1)..n /\ j \in k..(n - 1)
        BY <1>1, <3>1
      <4> QED BY <1>4, <3>1, <4>1, <4>2
    <3> QED BY <1>1, <1>2, <1>4, <3>1, <3>2
  <2> QED BY <2>1, <2>2
<1> QED BY <1>3, <1>4 DEF EndsAt, n

\* What the compositor does with a configure keeps the invariant.
LEMMA ConfigureKeeps ==
  ASSUME Size!SizeTalkAssumption, ~Crossing, SizeInv, Size!HandleConfigure
  PROVE  SizeInv'
<1> DEFINE c == Head(toComp)  w == Size!Within(Head(toComp).size)
<1>1. /\ toComp # <<>> /\ toComp' = Tail(toComp) /\ notices = <<>>
      /\ UNCHANGED <<Size!pageSide, toPage, wish, isX, limits, wanted, acts, choices>>
  BY DEF Size!HandleConfigure
<1>2. IF w = cfg \/ ~Size!Forces(c) THEN UNCHANGED <<cfg, toApp, notices, drawn, pendingFrame>>
      ELSE /\ cfg' = w
           /\ IF isX
              THEN /\ drawn' = w /\ pendingFrame' = (pendingFrame \/ w # drawn) /\ UNCHANGED toApp
                   /\ notices' = IF w # drawn THEN Append(notices, w) ELSE notices
              ELSE toApp' = Append(toApp, w) /\ UNCHANGED <<notices, drawn, pendingFrame>>
  BY DEF Size!HandleConfigure
<1>3. /\ SizeTypes /\ PicturesInv /\ ConfiguredInv /\ FollowsInv
      /\ isX \in BOOLEAN /\ limits \in Limits /\ toComp \in Seq(Configures) /\ toApp \in Seq(Fits)
      /\ pendingFrame \in BOOLEAN
  BY DEF SizeInv, SizeTypes
<1>4. /\ c \in Configures /\ Tail(toComp) \in Seq(Configures)
      /\ Tail(toComp) = <<>> => toComp[Len(toComp)] = c
      /\ Tail(toComp) # <<>> => Tail(toComp)[Len(Tail(toComp))] = toComp[Len(toComp)]
  BY <1>1, <1>3, WithoutFirst
<1>5. c.size \in Nat \ {0} /\ c.echo \in BOOLEAN
  BY <1>4 DEF Configures
<1>6. w \in Fits
  BY <1>3, <1>5, WithinFits
<1>7. Size!Forces(c) <=> ~(isX /\ c.echo)
  BY Zenon DEF Size!Forces
<1> HIDE DEF w, c
<1>8. /\ UNCHANGED <<winState, outer, restoreOuter, zoom, unclaimed, sizeAsked, canvas, minKnown,
                     scrollable, resizeTimer>>
      /\ Fits' = Fits /\ Configures' = Configures
  BY <1>1, PageStays
<1>9. isX => cfg = drawn /\ toApp = <<>>
  BY <1>1, <1>3 DEF ConfiguredInv
<1>10. /\ pendingFrame' \in BOOLEAN
       /\ ~pendingFrame' => ~pendingFrame /\ drawn' = drawn
  <2>1. CASE pendingFrame' = pendingFrame /\ drawn' = drawn
    BY <1>3, <2>1
  <2>2. CASE pendingFrame' = (pendingFrame \/ w # drawn) /\ drawn' = w
    <3>1. pendingFrame' \in BOOLEAN /\ (pendingFrame' <=> pendingFrame \/ w # drawn)
      BY <2>2, Zenon
    <3> QED BY <2>2, <3>1
  <2> QED BY <1>2, <2>1, <2>2
<1>11. PicturesInv' /\ ScrollInv' /\ AskedInv' /\ (Settled' <=> Settled)
  BY <1>1, <1>10, PageSees
<1>12. /\ toApp' = toApp \/ (~isX /\ toApp' = Append(toApp, w) /\ cfg' = w)
       /\ notices' = notices \/ (isX /\ notices' = <<w>> /\ drawn' = w /\ cfg' = w)
       /\ drawn' = drawn \/ drawn' = w
       /\ cfg' = cfg \/ cfg' = w
  BY <1>1, <1>2
<1>13. Append(toApp, w) \in Seq(Fits) /\ Append(toApp, w) # <<>> /\ Append(toApp, w)[Len(Append(toApp, w))] = w
  BY <1>3, <1>6, AppendProperties
<1>14. <<w>> \in Seq(Fits) /\ <<w>> # <<>> /\ <<w>>[Len(<<w>>)] = w
  BY <1>6
<1>15. SizeTypes'
  <2>1. toApp' \in Seq(Fits) /\ notices' \in Seq(Fits) /\ drawn' \in Fits /\ cfg' \in Fits
    BY <1>3, <1>6, <1>12, <1>13, <1>14 DEF SizeTypes
  <2>2. /\ toComp' \in Seq(Configures) /\ wish' = wish /\ wanted' = wanted /\ isX' = isX /\ limits' = limits
        /\ acts' = acts /\ choices' = choices
    BY <1>1, <1>4
  <2> HIDE DEF Fits, Configures
  <2> QED BY <1>3, <1>8, <1>10, <2>1, <2>2 DEF SizeTypes
<1>16. ConfiguredInv'
  <2>1. (choices = 0 => wish = 0)' /\ UNCHANGED <<isX, wish, choices, sizeAsked, limits>>
    BY <1>1, <1>3, <1>8 DEF ConfiguredInv
  <2>2. isX => /\ toApp' = <<>>
               /\ IF notices' = <<>> THEN cfg' = drawn' ELSE notices'[Len(notices')] = drawn'
    <3>1. SUFFICES ASSUME isX PROVE /\ toApp' = <<>>
                                    /\ IF notices' = <<>> THEN cfg' = drawn' ELSE notices'[Len(notices')] = drawn'
      OBVIOUS
    <3>2. CASE w = cfg \/ ~Size!Forces(c)
      BY <1>1, <1>2, <1>9, <3>1, <3>2
    <3>3. CASE ~(w = cfg \/ ~Size!Forces(c))
      <4>1. w # drawn /\ cfg' = w /\ drawn' = w /\ toApp' = toApp /\ notices' = Append(notices, w)
        BY <1>2, <1>9, <3>1, <3>3
      <4>2. notices' = <<w>>
        BY <1>1, <4>1
      <4> QED BY <1>9, <1>14, <3>1, <4>1, <4>2
    <3> QED BY <3>2, <3>3
  <2>3. ~isX => /\ notices' = <<>> /\ wish' = 0
                /\ choices = 0 => IF toApp' = <<>> THEN drawn' = cfg' ELSE toApp'[Len(toApp')] = cfg'
    <3>1. SUFFICES ASSUME ~isX
                   PROVE  /\ notices' = <<>> /\ wish' = 0
                          /\ choices = 0 => IF toApp' = <<>> THEN drawn' = cfg' ELSE toApp'[Len(toApp')] = cfg'
      OBVIOUS
    <3>2. wish' = 0 /\ notices' = <<>> /\ (choices = 0 => IF toApp = <<>> THEN drawn = cfg ELSE toApp[Len(toApp)] = cfg)
      BY <1>1, <1>3, <1>12, <3>1 DEF ConfiguredInv
    <3>3. CASE w = cfg \/ ~Size!Forces(c)
      BY <1>2, <3>2, <3>3
    <3>4. CASE ~(w = cfg \/ ~Size!Forces(c))
      <4>1. cfg' = w /\ toApp' = Append(toApp, w)
        BY <1>2, <3>1, <3>4
      <4> QED BY <1>13, <3>2, <4>1
    <3> QED BY <3>3, <3>4
  <2>4. IF toComp' # <<>> THEN toComp'[Len(toComp')].size = sizeAsked
        ELSE sizeAsked = 0 \/ isX \/ cfg' = Size!Within(sizeAsked)
    <3>1. toComp[Len(toComp)].size = sizeAsked
      BY <1>1, <1>3 DEF ConfiguredInv
    <3>2. CASE Tail(toComp) # <<>>
      BY <1>1, <1>4, <3>1, <3>2
    <3>3. CASE Tail(toComp) = <<>>
      <4>1. c.size = sizeAsked
        BY <1>4, <3>1, <3>3
      <4>2. w = Size!Within(sizeAsked)
        BY <4>1 DEF w, c
      <4>3. ~isX => cfg' = w
        BY <1>2, <1>7
      <4> QED BY <1>1, <3>3, <4>2, <4>3
    <3> QED BY <3>2, <3>3
  <2>5. Size!Within(sizeAsked)' = Size!Within(sizeAsked)
    BY <1>1, <1>8 DEF Size!Within
  <2> QED BY <2>1, <2>2, <2>3, <2>4, <2>5 DEF ConfiguredInv
<1>17. FollowsInv'
  <2>1. SUFFICES ASSUME isX, choices = 0, Settled
                 PROVE  canvas = sizeAsked \/ EndsAt(Size!Within(sizeAsked))'
    BY <1>1, <1>8, <1>11 DEF FollowsInv
  <2>2. SUFFICES ASSUME EndsAt(Size!Within(sizeAsked)) PROVE EndsAt(Size!Within(sizeAsked))'
    BY <1>3, <2>1 DEF FollowsInv
  <2>3. IF w = drawn \/ c.echo THEN drawn' = drawn ELSE drawn' = w
    BY <1>2, <1>7, <1>9, <2>1
  <2> DEFINE s == Size!Within(sizeAsked)
  <2>4. \/ \E i \in 1..Len(toComp') : /\ ~toComp'[i].echo /\ Size!Within(toComp'[i].size) = s
                                      /\ \A j \in (i + 1)..Len(toComp') : toComp'[j].echo
        \/ drawn' = s /\ \A j \in 1..Len(toComp') : toComp'[j].echo
    BY <1>1, <1>3, <2>1, <2>2, <2>3, EndStays DEF w, c
  <2>5. /\ Size!Within(sizeAsked)' = Size!Within(sizeAsked)
        /\ \A i : Size!Within(toComp[i].size)' = Size!Within(toComp'[i].size)
    BY <1>1, <1>8 DEF Size!Within
  <2> QED BY <2>4, <2>5 DEF EndsAt
<1> QED BY <1>11, <1>15, <1>16, <1>17 DEF SizeInv

\* The other steps of the compositor and the application keep the invariant: only one that
\* handles a configure changes what an X window which has chosen nothing will be.
LEMMA AppKeeps ==
  ASSUME Size!SizeTalkAssumption, SizeInv, UNCHANGED Size!pageSide, UNCHANGED <<isX, limits, toComp, toPage>>,
         SizeTypes', ConfiguredInv', ~pendingFrame' => ~pendingFrame /\ drawn' = drawn,
         isX /\ choices' = 0 => choices = 0 /\ drawn' = drawn
  PROVE  SizeInv'
<1>1. PicturesInv' /\ ScrollInv' /\ AskedInv' /\ (Settled' <=> Settled)
  BY PageSees
<1>2. UNCHANGED <<sizeAsked, canvas>>
  BY DEF Size!pageSide
<1>3. /\ Size!Within(sizeAsked)' = Size!Within(sizeAsked)
      /\ \A i : Size!Within(toComp[i].size)' = Size!Within(toComp[i].size)
  BY <1>2 DEF Size!Within
<1>4. isX /\ drawn' = drawn /\ EndsAt(Size!Within(sizeAsked)) => EndsAt(Size!Within(sizeAsked))'
  BY <1>3 DEF EndsAt
<1>5. FollowsInv'
  BY <1>1, <1>2, <1>4 DEF FollowsInv, SizeInv
<1> QED BY <1>1, <1>5 DEF SizeInv

\* What is kept when neither the page nor a queue to it or from it is touched.
LEMMA AppTypes ==
  ASSUME SizeInv, UNCHANGED Size!pageSide, UNCHANGED <<isX, limits, toComp, acts>>,
         pendingFrame' \in BOOLEAN, toApp' \in Seq(Fits), notices' \in Seq(Fits), drawn' \in Fits,
         cfg' \in Fits, wish' \in Fits \cup {0}, wanted' \in Fits, choices' \in Nat
  PROVE  SizeTypes'
<1>1. SizeTypes
  BY DEF SizeInv
<1>2. /\ UNCHANGED <<winState, outer, restoreOuter, zoom, unclaimed, sizeAsked, canvas, minKnown,
                     scrollable, resizeTimer>>
      /\ Fits' = Fits /\ Configures' = Configures
  BY PageStays
<1> HIDE DEF Fits, Configures
<1> QED BY <1>1, <1>2 DEF SizeTypes

\* An X client is given the size it asked for.
LEMMA WishKeeps == ASSUME Size!SizeTalkAssumption, SizeInv, Size!GrantWish PROVE SizeInv'
<1>1. /\ wish # 0 /\ wish' = 0 /\ drawn' = wish /\ pendingFrame' = (pendingFrame \/ wish # drawn)
      /\ notices' = IF wish # drawn THEN Append(notices, wish) ELSE notices
      /\ UNCHANGED <<Size!pageSide, toComp, toPage, toApp, isX, limits, cfg, wanted, acts, choices>>
  BY DEF Size!GrantWish
<1>2. /\ ConfiguredInv /\ isX \in BOOLEAN /\ wish \in Fits \cup {0} /\ notices \in Seq(Fits) /\ toApp \in Seq(Fits)
      /\ cfg \in Fits /\ wanted \in Fits /\ choices \in Nat
  BY DEF SizeInv, SizeTypes
<1>3. wish \in Fits /\ isX /\ choices # 0
  BY <1>1, <1>2 DEF ConfiguredInv
<1>4. pendingFrame' \in BOOLEAN /\ (pendingFrame' <=> pendingFrame \/ wish # drawn)
  BY <1>1, Zenon
<1>5. /\ Append(notices, wish) \in Seq(Fits) /\ Append(notices, wish) # <<>>
      /\ Append(notices, wish)[Len(Append(notices, wish))] = wish
  BY <1>2, <1>3, AppendProperties
<1>6. UNCHANGED sizeAsked
  BY <1>1 DEF Size!pageSide
<1>7. ConfiguredInv'
  <2>1. /\ choices' # 0 /\ isX' = isX /\ toApp' = <<>>
        /\ IF notices' = <<>> THEN cfg' = drawn' ELSE notices'[Len(notices')] = drawn'
    <3>1. toApp = <<>> /\ IF notices = <<>> THEN cfg = drawn ELSE notices[Len(notices)] = drawn
      BY <1>2, <1>3 DEF ConfiguredInv
    <3>2. CASE wish = drawn
      BY <1>1, <1>3, <3>1, <3>2
    <3>3. CASE wish # drawn
      BY <1>1, <1>3, <1>5, <3>1, <3>3
    <3> QED BY <3>2, <3>3
  <2>2. IF toComp' # <<>> THEN toComp'[Len(toComp')].size = sizeAsked' ELSE isX
    BY <1>1, <1>2, <1>3, <1>6 DEF ConfiguredInv
  <2> QED BY <1>3, <2>1, <2>2 DEF ConfiguredInv
<1>8. SizeTypes'
  <2>1. 0 \in Fits \cup {0} /\ notices' \in Seq(Fits)
    BY <1>1, <1>2, <1>5
  <2> QED BY <1>1, <1>2, <1>3, <1>4, <2>1, AppTypes
<1>9. ~pendingFrame' => ~pendingFrame /\ drawn' = drawn
  BY <1>1, <1>4
<1> QED BY <1>1, <1>3, <1>7, <1>8, <1>9, AppKeeps

\* The X server tells the compositor of a window.
LEMMA NoticeKeeps == ASSUME Size!SizeTalkAssumption, SizeInv, Size!HandleNotice PROVE SizeInv'
<1>1. /\ notices # <<>> /\ notices' = Tail(notices) /\ cfg' = Head(notices)
      /\ UNCHANGED <<Size!pageSide, toComp, toPage, toApp, wish, isX, limits, drawn, pendingFrame, wanted, acts, choices>>
  BY DEF Size!HandleNotice
<1>2. /\ ConfiguredInv /\ isX \in BOOLEAN /\ wish \in Fits \cup {0} /\ notices \in Seq(Fits) /\ toApp \in Seq(Fits)
      /\ drawn \in Fits /\ wanted \in Fits /\ choices \in Nat /\ pendingFrame \in BOOLEAN
  BY DEF SizeInv, SizeTypes
<1>3. isX
  BY <1>1, <1>2 DEF ConfiguredInv
<1>4. /\ Head(notices) \in Fits /\ Tail(notices) \in Seq(Fits)
      /\ Tail(notices) = <<>> => notices[Len(notices)] = Head(notices)
      /\ Tail(notices) # <<>> => Tail(notices)[Len(Tail(notices))] = notices[Len(notices)]
  BY <1>1, <1>2, WithoutFirst
<1>5. UNCHANGED sizeAsked
  BY <1>1 DEF Size!pageSide
<1>6. ConfiguredInv'
  <2>1. notices[Len(notices)] = drawn /\ toApp = <<>>
    BY <1>1, <1>2, <1>3 DEF ConfiguredInv
  <2>2. IF notices' = <<>> THEN cfg' = drawn' ELSE notices'[Len(notices')] = drawn'
    BY <1>1, <1>4, <2>1
  <2>3. choices' = 0 => wish' = 0
    BY <1>1, <1>2 DEF ConfiguredInv
  <2>4. IF toComp' # <<>> THEN toComp'[Len(toComp')].size = sizeAsked' ELSE isX
    BY <1>1, <1>2, <1>3, <1>5 DEF ConfiguredInv
  <2> QED BY <1>1, <1>3, <2>1, <2>2, <2>3, <2>4 DEF ConfiguredInv
<1>7. SizeTypes'
  BY <1>1, <1>2, <1>4, AppTypes
<1> QED BY <1>1, <1>6, <1>7, AppKeeps

\* A Wayland client draws what it is configured to.
LEMMA HearsKeeps == ASSUME Size!SizeTalkAssumption, SizeInv, Size!AppHears PROVE SizeInv'
<1>1. /\ toApp # <<>> /\ toApp' = Tail(toApp) /\ drawn' = Head(toApp)
      /\ pendingFrame' = (pendingFrame \/ drawn # Head(toApp))
      /\ UNCHANGED <<Size!pageSide, toComp, toPage, wish, notices, isX, limits, cfg, wanted, acts, choices>>
  BY DEF Size!AppHears
<1>2. /\ ConfiguredInv /\ isX \in BOOLEAN /\ wish \in Fits \cup {0} /\ notices \in Seq(Fits) /\ toApp \in Seq(Fits)
      /\ cfg \in Fits /\ wanted \in Fits /\ choices \in Nat
  BY DEF SizeInv, SizeTypes
<1>3. ~isX
  BY <1>1, <1>2 DEF ConfiguredInv
<1>4. /\ Head(toApp) \in Fits /\ Tail(toApp) \in Seq(Fits)
      /\ Tail(toApp) = <<>> => toApp[Len(toApp)] = Head(toApp)
      /\ Tail(toApp) # <<>> => Tail(toApp)[Len(Tail(toApp))] = toApp[Len(toApp)]
  BY <1>1, <1>2, WithoutFirst
<1>5. pendingFrame' \in BOOLEAN /\ (pendingFrame' <=> pendingFrame \/ drawn # Head(toApp))
  BY <1>1, Zenon
<1>6. UNCHANGED sizeAsked /\ Size!Within(sizeAsked)' = Size!Within(sizeAsked)
  BY <1>1 DEF Size!pageSide, Size!Within
<1>7. ConfiguredInv'
  <2>1. choices = 0 => toApp[Len(toApp)] = cfg
    BY <1>1, <1>2, <1>3 DEF ConfiguredInv
  <2>2. choices' = 0 => IF toApp' = <<>> THEN drawn' = cfg' ELSE toApp'[Len(toApp')] = cfg'
    BY <1>1, <1>4, <2>1
  <2>3. notices' = <<>> /\ wish' = 0
    BY <1>1, <1>2, <1>3 DEF ConfiguredInv
  <2>4. IF toComp' # <<>> THEN toComp'[Len(toComp')].size = sizeAsked'
        ELSE sizeAsked' = 0 \/ isX' \/ cfg' = Size!Within(sizeAsked)'
    BY <1>1, <1>2, <1>6 DEF ConfiguredInv
  <2> QED BY <1>1, <1>3, <2>2, <2>3, <2>4 DEF ConfiguredInv
<1>8. SizeTypes'
  BY <1>1, <1>2, <1>4, <1>5, AppTypes
<1>9. ~pendingFrame' => ~pendingFrame /\ drawn' = drawn
  BY <1>1, <1>5
<1> QED BY <1>1, <1>3, <1>7, <1>8, <1>9, AppKeeps

\* The application chooses another size.
LEMMA ChoiceKeeps == ASSUME Size!SizeTalkAssumption, SizeInv, Size!AppChooses PROVE SizeInv'
<1>1. /\ choices' = choices + 1 /\ wish = 0
      /\ UNCHANGED <<Size!pageSide, toComp, toPage, toApp, notices, isX, limits, cfg, acts>>
  BY DEF Size!AppChooses
<1>2. PICK s \in Sizes : /\ s # drawn /\ Size!Within(s) = s /\ wanted' = s
                         /\ IF isX THEN wish' = s /\ UNCHANGED <<drawn, pendingFrame>>
                            ELSE drawn' = s /\ pendingFrame' = TRUE /\ UNCHANGED wish
  BY DEF Size!AppChooses
<1>3. s \in Fits
  BY <1>2 DEF Fits, Size!SizeTalkAssumption
<1>4. /\ ConfiguredInv /\ isX \in BOOLEAN /\ wish \in Fits \cup {0} /\ notices \in Seq(Fits) /\ toApp \in Seq(Fits)
      /\ cfg \in Fits /\ drawn \in Fits /\ choices \in Nat /\ pendingFrame \in BOOLEAN
  BY DEF SizeInv, SizeTypes
<1>5. choices' \in Nat /\ choices' # 0
  BY <1>1, <1>4
<1>6. UNCHANGED sizeAsked /\ Size!Within(sizeAsked)' = Size!Within(sizeAsked)
  BY <1>1 DEF Size!pageSide, Size!Within
<1>7. ConfiguredInv'
  <2>1. IF toComp' # <<>> THEN toComp'[Len(toComp')].size = sizeAsked'
        ELSE sizeAsked' = 0 \/ isX' \/ cfg' = Size!Within(sizeAsked)'
    BY <1>1, <1>4, <1>6 DEF ConfiguredInv
  <2>2. isX => /\ toApp' = <<>>
               /\ IF notices' = <<>> THEN cfg' = drawn' ELSE notices'[Len(notices')] = drawn'
    BY <1>1, <1>2, <1>4 DEF ConfiguredInv
  <2>3. ~isX => notices' = <<>> /\ wish' = 0
    BY <1>1, <1>2, <1>4 DEF ConfiguredInv
  <2> QED BY <1>1, <1>5, <2>1, <2>2, <2>3 DEF ConfiguredInv
<1>8. SizeTypes'
  BY <1>1, <1>2, <1>3, <1>4, <1>5, AppTypes
<1>9. ~pendingFrame' => ~pendingFrame /\ drawn' = drawn
  BY <1>2
<1> QED BY <1>1, <1>5, <1>7, <1>8, <1>9, AppKeeps

\* A picture is sent when none is on its way.
LEMMA SendKeeps == ASSUME SizeInv, Size!SendFrame PROVE SizeInv'
<1>1. /\ ~\E i \in DOMAIN toPage : toPage[i][1] = "frame"
      /\ pendingFrame' = FALSE /\ toPage' = Append(toPage, <<"frame", drawn>>)
      /\ UNCHANGED <<Size!pageSide, toComp, toApp, wish, notices, isX, limits, cfg, drawn, wanted, acts, choices>>
  BY DEF Size!SendFrame
<1>2. SizeTypes /\ PicturesInv /\ ScrollInv /\ AskedInv /\ ConfiguredInv /\ FollowsInv /\ drawn \in Fits
  BY DEF SizeInv, SizeTypes
<1>3. toPage = <<>>
  BY <1>1, <1>2, PageQueue DEF PicturesInv
<1>4. toPage' = << <<"frame", drawn>> >> /\ toPage' # <<>> /\ Head(toPage') = <<"frame", drawn>>
  BY <1>1, <1>3
<1>5. <<"frame", drawn>>[1] # "window"
  OBVIOUS
<1>6. Announced' /\ Announced
  BY <1>3, <1>4, <1>5 DEF Announced
<1>7. /\ UNCHANGED <<winState, outer, restoreOuter, zoom, unclaimed, sizeAsked, canvas, minKnown,
                     scrollable, resizeTimer>>
      /\ Fits' = Fits /\ Configures' = Configures /\ Box' = Box
      /\ Size!Within(sizeAsked)' = Size!Within(sizeAsked) /\ Size!Within(Box)' = Size!Within(Box)
      /\ \A i : Size!Within(toComp[i].size)' = Size!Within(toComp[i].size)
  BY <1>1, PageStays DEF Size!Within
<1>8. PicturesInv'
  <2>1. toPage' \in Before(drawn, drawn)'
    BY <1>1, <1>4 DEF Before
  <2> QED BY <1>1, <1>2, <1>7, <2>1 DEF PicturesInv
<1>9. SizeTypes'
  <2>1. pendingFrame' \in BOOLEAN
    BY <1>1
  <2> HIDE DEF Fits, Configures
  <2> QED BY <1>1, <1>2, <1>7, <2>1 DEF SizeTypes
<1>10. ScrollInv' /\ ConfiguredInv'
  BY <1>1, <1>2, <1>7 DEF ScrollInv, ConfiguredInv
<1>11. Settled' <=> Settled
  BY <1>6, <1>7 DEF Settled
<1>12. AskedInv'
  BY <1>2, <1>7, <1>11 DEF AskedInv
<1>13. EndsAt(Size!Within(sizeAsked)) => EndsAt(Size!Within(sizeAsked))'
  BY <1>1, <1>7 DEF EndsAt
<1>14. FollowsInv'
  BY <1>1, <1>2, <1>7, <1>11, <1>13 DEF FollowsInv
<1> QED BY <1>8, <1>9, <1>10, <1>12, <1>14 DEF SizeInv

\* The invariant of the sizes holds at first and is kept.
LEMMA SizeInitInv == ASSUME Size!SizeTalkAssumption, Size!Init PROVE SizeInv
<1>1. /\ isX \in BOOLEAN /\ limits \in Limits /\ wanted \in Sizes /\ Size!Within(wanted) = wanted
      /\ drawn = wanted /\ cfg = wanted /\ pendingFrame = FALSE
      /\ toPage = << <<"window", wanted>>, <<"bounds", limits[1]>>, <<"frame", wanted>> >>
      /\ toComp = <<>> /\ toApp = <<>> /\ wish = 0 /\ notices = <<>>
      /\ winState = "normal" /\ outer = Default /\ restoreOuter = Default /\ unclaimed = Default
      /\ zoom = 1 /\ sizeAsked = 0 /\ canvas = 0 /\ minKnown = 0
      /\ scrollable = FALSE /\ resizeTimer = FALSE /\ acts = 0 /\ choices = 0
  BY DEF Size!Init
<1>2. wanted \in Fits /\ Default \in Least..Area /\ 1 \in Zooms
  BY <1>1 DEF Fits, Size!SizeTalkAssumption
<1>3. SizeTypes
  <2>1. /\ winState \in {"normal", "maximized", "minimized"} /\ minKnown \in {0, limits[1]}
        /\ scrollable \in BOOLEAN /\ resizeTimer \in BOOLEAN /\ pendingFrame \in BOOLEAN
    BY <1>1
  <2>2. toComp \in Seq(Configures) /\ toApp \in Seq(Fits) /\ notices \in Seq(Fits)
    BY <1>1, EmptySeq
  <2>3. outer \in Least..Area /\ restoreOuter \in Least..Area /\ unclaimed \in Least..Area /\ zoom \in Zooms
    BY <1>1, <1>2
  <2>4. drawn \in Fits /\ cfg \in Fits /\ wish \in Fits \cup {0} /\ wanted \in Fits /\ canvas \in Fits \cup {0}
    BY <1>1, <1>2
  <2>5. sizeAsked \in Nat /\ acts \in Nat /\ choices \in Nat
    BY <1>1
  <2> QED BY <1>1, <2>1, <2>2, <2>3, <2>4, <2>5, Zenon DEF SizeTypes
<1>4. toPage \in Before(wanted, wanted)
  BY <1>1 DEF Before
<1>5. PicturesInv
  BY <1>1, <1>2, <1>4 DEF PicturesInv
<1>6. ~Announced
  BY <1>1 DEF Announced
<1>7. ScrollInv
  <2>1. Box \in Nat
    BY <1>1, <1>2, BoxIsPositive DEF Box
  <2> QED BY <1>1, <2>1 DEF ScrollInv
<1>8. AskedInv /\ FollowsInv
  BY <1>6 DEF AskedInv, FollowsInv, Settled
<1>9. ConfiguredInv
  BY <1>1 DEF ConfiguredInv
<1> QED BY <1>3, <1>5, <1>7, <1>8, <1>9 DEF SizeInv

\* Every step of the three keeps it, when what the X server tells is heard first.
LEMMA SizeStepInv ==
  ASSUME Size!SizeTalkAssumption, ~Crossing, SizeInv, [Size!Next]_sizeVars
  PROVE  SizeInv'
<1>1. SizeTypes /\ PicturesInv /\ ScrollInv
  BY DEF SizeInv
<1>2. CASE \/ Size!HandleWindow \/ Size!HandleBounds \/ Size!HandleFrame \/ Size!ResizeSettles
           \/ Size!Resize(FALSE) \/ Size!Resize(TRUE)
           \/ Size!Maximize \/ Size!Minimize \/ Size!Restore \/ Size!SetZoom
  BY <1>1, <1>2, PageReads, PageActs, PageKeeps
<1>3. CASE Size!HandleConfigure
  BY <1>3, ConfigureKeeps
<1>4. CASE Size!GrantWish
  BY <1>4, WishKeeps
<1>5. CASE Size!HandleNotice
  BY <1>5, NoticeKeeps
<1>6. CASE Size!AppHears
  BY <1>6, HearsKeeps
<1>7. CASE Size!AppChooses
  BY <1>7, ChoiceKeeps
<1>8. CASE Size!SendFrame
  BY <1>8, SendKeeps
<1>9. CASE UNCHANGED sizeVars
  BY <1>9 DEF sizeVars, SizeInv, SizeTypes, PicturesInv, ScrollInv, AskedInv, ConfiguredInv,
     FollowsInv, EndsAt,
     Settled, Announced, Box, Fits, Configures, Before, Size!Within
<1> QED BY <1>2, <1>3, <1>4, <1>5, <1>6, <1>7, <1>8, <1>9 DEF Size!Next

\* A window that follows the picture asks for the size it has, as an echo once the page shows it.
LEMMA PushFollows ==
  ASSUME Size!SizeTalkAssumption, limits \in Limits, minKnown \in {0, limits[1]},
         NEW w \in Fits, w \in Least..Area, Size!PushesSize("normal", w, w, 1)
  PROVE  /\ sizeAsked' = w
         /\ \E e \in BOOLEAN : toComp' = Append(toComp, [size |-> w, echo |-> e]) /\ (canvas' = w => e)
<1> DEFINE T == Size!FrameSize("normal", w, 1)  ask == Size!Larger(T, minKnown)
           e == Size!IsEcho(ask, canvas', Size!Unclaimed("normal", w, w))
<1>1. 1 \in Zooms
  BY DEF Size!SizeTalkAssumption
<1>2. T = w /\ w \in Nat \ {0}
  BY <1>1, BoxIsPositive DEF Fits
<1>3. Size!Larger(w, minKnown) = w
  BY FitsAreWithin
<1>4. ask = w
  BY <1>2, <1>3
<1>5. sizeAsked' = ask /\ toComp' = Append(toComp, [size |-> ask, echo |-> e])
  BY <1>2 DEF Size!PushesSize
<1>6. e \in BOOLEAN /\ (e <=> Size!Unclaimed("normal", w, w) /\ canvas' # 0 /\ canvas' = ask)
  BY Zenon DEF Size!IsEcho
<1>7. Size!Unclaimed("normal", w, w)
  BY DEF Size!Unclaimed
<1> HIDE DEF e, ask, T
<1>8. canvas' = w => e
  BY <1>2, <1>4, <1>6, <1>7
<1>9. toComp' = Append(toComp, [size |-> w, echo |-> e]) /\ sizeAsked' = w
  BY <1>4, <1>5
<1> QED BY <1>6, <1>8, <1>9

\* What a window that asks for the size w it has keeps of an X client nobody has touched.
LEMMA FollowsOn ==
  ASSUME SizeInv, isX, acts = 0, ChoiceInv, NEW w \in Fits, toComp \in Seq(Configures),
         winState = "normal", zoom = 1, UNCHANGED <<winState, zoom, Size!appSide, choices>>,
         outer' = w, unclaimed' = w, sizeAsked' = w,
         NEW e \in BOOLEAN, toComp' = Append(toComp, [size |-> w, echo |-> e]),
         Announced', canvas' \in {0, w}, IF choices = 0 THEN w = wanted ELSE e /\ canvas' # 0,
         \/ UNCHANGED toPage
         \/ toPage' # <<>> => \E f \in Fits \cap Sizes : toPage' \in Before(f, f) /\ (choices = 0 => f = wanted)
  PROVE  ChoiceInv'
<1> DEFINE c == [size |-> w, echo |-> e]
<1>1. WindowFollows /\ ClientDraws /\ ClientIsLeft
  BY DEF ChoiceInv
<1>2. c \in Configures /\ c.size = w /\ c.echo = e
  BY DEF Configures, Fits
<1> HIDE DEF c
<1>3. /\ Len(toComp') = Len(toComp) + 1 /\ toComp'[Len(toComp) + 1] = c /\ Len(toComp) \in Nat
      /\ \A i \in 1..Len(toComp) : toComp'[i] = toComp[i]
  BY <1>2, AppendProperties DEF c
<1>4. /\ UNCHANGED <<toApp, wish, notices, isX, limits, cfg, drawn, pendingFrame, wanted>>
      /\ Fits' = Fits /\ \A f, v : Before(f, v)' = Before(f, v)
  BY AppStays
<1>5. WindowFollows'
  BY <1>4 DEF WindowFollows
<1>6. ClientDraws'
  <2>1. toPage' # <<>> => \E f \in Fits \cap Sizes : toPage' \in Before(f, f) /\ (choices = 0 => f = wanted)
    BY <1>1 DEF ClientDraws
  <2>2. /\ drawn' \in Sizes /\ wanted' \in Sizes /\ (IF wish' = 0 THEN drawn' = wanted' ELSE wish' = wanted')
        /\ choices' = choices /\ wanted' = wanted
    BY <1>1, <1>4 DEF ClientDraws
  <2> QED BY <1>4, <2>1, <2>2 DEF ClientDraws
<1>7. ClientIsLeft'
  <2>1. \A i \in 1..Len(toComp') : i \in 1..Len(toComp) \/ toComp'[i] = c
    BY <1>3
  <2>2. CASE choices = 0
    <3>1. cfg' = wanted' /\ notices' = <<>> /\ outer' = wanted'
      BY <1>1, <1>4, <2>2 DEF ClientIsLeft
    <3>2. \A i \in 1..Len(toComp') : toComp'[i].size = wanted'
      BY <1>1, <1>2, <1>3, <1>4, <2>1, <2>2 DEF ClientIsLeft
    <3> QED BY <2>2, <3>1, <3>2 DEF ClientIsLeft
  <2>3. CASE choices # 0
    <3>1. \A i \in 1..Len(toComp') : toComp'[i].echo
      BY <1>1, <1>2, <1>3, <2>1, <2>3 DEF ClientIsLeft
    <3> QED BY <2>3, <3>1 DEF ClientIsLeft
  <2> QED BY <2>2, <2>3
<1> QED BY <1>5, <1>6, <1>7 DEF ChoiceInv

\* A picture the window follows gives it its size.
LEMMA AdoptFollows ==
  ASSUME Size!SizeTalkAssumption, limits \in Limits, minKnown \in {0, limits[1]},
         winState = "normal", zoom = 1, outer = unclaimed, NEW w \in Fits, w \in Least..Area, Size!Adopts(w)
  PROVE  outer' = w /\ unclaimed' = w /\ Size!PushesSize("normal", w, w, 1)
<1>1. w \in Nat /\ w * zoom = w
  BY DEF Fits
<1>2. Size!Clamped(w * zoom) = w
  BY <1>1, ClampedFits
<1>3. Size!Unclaimed(winState, outer, unclaimed)
  BY DEF Size!Unclaimed
<1> QED BY <1>2, <1>3 DEF Size!Adopts

\* The messages for the page keep what is wanted of an X client nobody has touched.
LEMMA ReadsFollow ==
  ASSUME Size!SizeTalkAssumption, Sizes \subseteq Least..Area, SizeInv, isX, acts = 0, ChoiceInv,
         Size!HandleWindow \/ Size!HandleBounds \/ Size!HandleFrame
  PROVE  ChoiceInv'
<1>1. WindowFollows /\ ClientDraws /\ ClientIsLeft /\ SizeTypes /\ ConfiguredInv
  BY DEF ChoiceInv, SizeInv
<1>2. /\ limits \in Limits /\ minKnown \in {0, limits[1]} /\ toComp \in Seq(Configures) /\ choices \in Nat
      /\ outer \in Least..Area /\ canvas \in Fits \cup {0}
  BY <1>1 DEF SizeTypes
<1>3. PICK kind \in {"window", "bounds", "frame"} : /\ Size!Takes(kind)
                                                    /\ kind = "window" => Size!HandleWindow
                                                    /\ kind = "bounds" => Size!HandleBounds
                                                    /\ kind = "frame" => Size!HandleFrame
  BY DEF Size!HandleWindow, Size!HandleBounds, Size!HandleFrame
<1>4. /\ toPage # <<>> /\ Head(toPage)[1] = kind /\ toPage' = Tail(toPage)
      /\ UNCHANGED <<winState, restoreOuter, zoom, Size!appSide, acts, choices>>
  BY <1>3 DEF Size!Takes
<1>5. PICK f \in Fits \cap Sizes : toPage \in Before(f, f) /\ (choices = 0 => f = wanted)
  BY <1>1, <1>4 DEF ClientDraws
<1>6. \/ /\ Head(toPage) = <<"window", f>> /\ Tail(toPage) = << <<"bounds", limits[1]>>, <<"frame", f>> >>
      \/ /\ Head(toPage) = <<"bounds", limits[1]>> /\ Tail(toPage) = << <<"frame", f>> >>
      \/ Head(toPage) = <<"frame", f>> /\ Tail(toPage) = <<>>
  BY <1>5, PageQueue
<1>7. /\ <<"window", f>>[1] = "window" /\ <<"window", f>>[2] = f
      /\ <<"bounds", limits[1]>>[1] = "bounds" /\ <<"bounds", limits[1]>>[2] = limits[1]
      /\ <<"frame", f>>[1] = "frame" /\ <<"frame", f>>[2] = f
  OBVIOUS
<1>8. /\ kind = "window" => Head(toPage)[2] = f /\ toPage' = << <<"bounds", limits[1]>>, <<"frame", f>> >>
      /\ kind = "bounds" => Head(toPage)[2] = limits[1] /\ toPage' = << <<"frame", f>> >>
      /\ kind = "frame" => Head(toPage)[2] = f /\ toPage' = <<>>
  BY <1>4, <1>6, <1>7
<1>9. toPage' # <<>> => \E g \in Fits \cap Sizes : toPage' \in Before(g, g) /\ (choices = 0 => g = wanted)
  <2>1. /\ << <<"bounds", limits[1]>>, <<"frame", f>> >> \in Before(f, f)
        /\ << <<"frame", f>> >> \in Before(f, f)
    BY DEF Before
  <2>2. toPage' = <<>> \/ toPage' \in Before(f, f)
    BY <1>8, <2>1
  <2> QED BY <1>5, <2>2
<1>10. Announced' /\ (~Announced <=> kind = "window")
  BY <1>1, <1>3, PageTakes DEF SizeInv
<1>11. /\ winState = "normal" /\ zoom = 1 /\ outer = unclaimed
       /\ Announced => outer \in Fits /\ sizeAsked = outer /\ canvas \in {0, outer}
  BY <1>1 DEF WindowFollows
<1>12. f \in Fits /\ f \in Least..Area /\ f # 0
  BY <1>5 DEF Fits
<1>13. CASE Size!Adopts(f) /\ canvas' \in {0, f} /\ (canvas' = 0 => choices = 0)
  <2>1. outer' = f /\ unclaimed' = f /\ Size!PushesSize("normal", f, f, 1)
    BY <1>2, <1>11, <1>12, <1>13, AdoptFollows
  <2>2. sizeAsked' = f
    BY <1>2, <1>12, <2>1, PushFollows
  <2>3. PICK e \in BOOLEAN : toComp' = Append(toComp, [size |-> f, echo |-> e]) /\ (canvas' = f => e)
    BY <1>2, <1>12, <2>1, PushFollows
  <2>4. IF choices = 0 THEN f = wanted ELSE e /\ canvas' # 0
    BY <1>5, <1>13, <2>3
  <2> QED BY <1>2, <1>4, <1>9, <1>10, <1>11, <1>12, <1>13, <2>1, <2>2, <2>3, <2>4, FollowsOn
<1>14. CASE /\ UNCHANGED <<outer, unclaimed, sizeAsked, toComp>> /\ Announced
            /\ canvas' \in {0, outer} /\ (canvas' = 0 => choices = 0)
  <2>1. /\ UNCHANGED <<toApp, wish, notices, isX, limits, cfg, drawn, pendingFrame, wanted>>
        /\ Fits' = Fits /\ \A g, v : Before(g, v)' = Before(g, v)
    BY <1>4, AppStays
  <2>2. WindowFollows'
    BY <1>4, <1>10, <1>11, <1>14, <2>1 DEF WindowFollows
  <2>3. ClientDraws'
    BY <1>1, <1>4, <1>9, <2>1 DEF ClientDraws
  <2>4. ClientIsLeft'
    BY <1>1, <1>4, <1>14, <2>1 DEF ClientIsLeft
  <2> QED BY <2>2, <2>3, <2>4 DEF ChoiceInv
<1>15. CASE kind = "window"
  <2>1. Size!Adopts(f) /\ canvas' = canvas
    BY <1>3, <1>8, <1>15 DEF Size!HandleWindow
  <2>2. canvas = 0 /\ choices = 0
    BY <1>1, <1>10, <1>15 DEF WindowFollows
  <2> QED BY <1>13, <2>1, <2>2
<1>16. CASE kind = "bounds"
  <2>1. UNCHANGED <<outer, unclaimed, sizeAsked, canvas, toComp>> /\ Announced
    BY <1>3, <1>10, <1>16 DEF Size!HandleBounds
  <2>2. canvas = 0 => choices = 0
    BY <1>1 DEF ClientIsLeft
  <2> QED BY <1>11, <1>14, <2>1, <2>2
<1>17. CASE kind = "frame"
  <2> DEFINE b == Size!FrameSize(winState, outer, 1)
  <2>1. canvas' = f
    BY <1>3, <1>8, <1>17 DEF Size!HandleFrame
  <2>2. \/ Size!Adopts(f)
        \/ /\ f = canvas \/ sizeAsked = 0 \/ f = sizeAsked \/ b = 0 \/ b = f * zoom
           /\ UNCHANGED <<outer, unclaimed, sizeAsked, toComp>>
    BY <1>3, <1>8, <1>17 DEF Size!HandleFrame, Size!AppChose
  <2>3. Announced /\ outer # 0 /\ outer \in Fits
    BY <1>10, <1>11, <1>17 DEF Fits
  <2>4. b = outer
    <3>1. winState # "minimized" /\ 1 \in Zooms
      BY <1>11 DEF Size!SizeTalkAssumption
    <3> QED BY <1>2, <3>1, BoxIsPositive
  <2>5. f * zoom = f
    BY <1>11, <1>12 DEF Fits
  <2>6. Size!Adopts(f) \/ (f = outer /\ UNCHANGED <<outer, unclaimed, sizeAsked, toComp>>)
    <3> HIDE DEF b
    <3> QED BY <1>11, <1>12, <2>2, <2>3, <2>4, <2>5
  <2> QED BY <1>12, <1>13, <1>14, <2>1, <2>3, <2>6
<1> QED BY <1>15, <1>16, <1>17

\* So does the timer of a window that has been given another size.
LEMMA TimerFollows ==
  ASSUME Size!SizeTalkAssumption, SizeInv, isX, acts = 0, ChoiceInv, Size!ResizeSettles
  PROVE  ChoiceInv'
<1>1. WindowFollows /\ ClientDraws /\ ClientIsLeft /\ SizeTypes
  BY DEF ChoiceInv, SizeInv
<1>2. /\ limits \in Limits /\ minKnown \in {0, limits[1]} /\ toComp \in Seq(Configures)
      /\ outer \in Least..Area
  BY <1>1 DEF SizeTypes
<1>3. /\ resizeTimer /\ Size!PushesSize(winState, outer, unclaimed, zoom)
      /\ UNCHANGED <<canvas, winState, outer, restoreOuter, zoom, unclaimed, minKnown, toPage, Size!appSide, acts, choices>>
  BY DEF Size!ResizeSettles
<1>4. /\ winState = "normal" /\ zoom = 1 /\ outer = unclaimed
      /\ Announced /\ outer \in Fits /\ sizeAsked = outer /\ canvas \in {0, outer}
  BY <1>1, <1>3 DEF WindowFollows
<1> DEFINE w == outer
<1>5. w \in Fits /\ w \in Least..Area /\ Size!PushesSize("normal", w, w, 1) /\ outer' = w /\ unclaimed' = w
  BY <1>2, <1>3, <1>4
<1>6. Announced'
  BY <1>3, <1>4 DEF Announced
<1>7. IF choices = 0 THEN w = wanted ELSE canvas' # 0
  BY <1>1, <1>3, <1>4 DEF ClientIsLeft
<1>8. canvas' \in {0, w}
  BY <1>3, <1>4
<1> HIDE DEF w
<1>9. sizeAsked' = w
  BY <1>2, <1>5, PushFollows
<1>10. PICK e \in BOOLEAN : toComp' = Append(toComp, [size |-> w, echo |-> e]) /\ (canvas' = w => e)
  BY <1>2, <1>5, PushFollows
<1>11. IF choices = 0 THEN w = wanted ELSE e /\ canvas' # 0
  BY <1>7, <1>8, <1>10
<1> QED BY <1>2, <1>3, <1>4, <1>5, <1>6, <1>8, <1>9, <1>10, <1>11, FollowsOn

\* What the compositor and the client do keeps it, if the page, and what is sent to it, stay.
LEMMA ClientFollows ==
  ASSUME Size!SizeTalkAssumption, ~Crossing, ~Early, SizeInv, isX, acts = 0, ChoiceInv,
         Size!HandleConfigure \/ Size!GrantWish \/ Size!HandleNotice \/ Size!AppHears \/ Size!AppChooses \/ Size!SendFrame
  PROVE  ChoiceInv'
<1>1. WindowFollows /\ ClientDraws /\ ClientIsLeft /\ SizeTypes /\ ConfiguredInv /\ PicturesInv
  BY DEF ChoiceInv, SizeInv
<1>2. /\ limits \in Limits /\ toComp \in Seq(Configures) /\ choices \in Nat /\ drawn \in Fits /\ wanted \in Fits
      /\ wish \in Fits \cup {0}
  BY <1>1 DEF SizeTypes
<1>3. UNCHANGED <<Size!pageSide, isX, limits, acts>>
  BY DEF Size!HandleConfigure, Size!GrantWish, Size!HandleNotice, Size!AppHears, Size!AppChooses,
     Size!SendFrame
<1>4. /\ UNCHANGED <<winState, outer, zoom, unclaimed, sizeAsked, canvas, resizeTimer>>
      /\ Fits' = Fits /\ \A f, w : Before(f, w)' = Before(f, w)
  BY <1>3, PageStays
<1>5. CASE Size!HandleConfigure
  <2> DEFINE n == Len(toComp)
  <2>1. /\ toComp # <<>> /\ toComp' = Tail(toComp) /\ UNCHANGED <<toPage, wish, wanted, choices>>
        /\ IF Size!Within(Head(toComp).size) = cfg \/ ~Size!Forces(Head(toComp))
           THEN UNCHANGED <<cfg, notices, drawn>> ELSE TRUE
    BY <1>5 DEF Size!HandleConfigure
  <2>2. /\ Head(toComp) = toComp[1] /\ n \in Nat \ {0} /\ Len(Tail(toComp)) = n - 1
        /\ \A i \in 1..(n - 1) : Tail(toComp)[i] = toComp[i + 1]
    BY <1>2, <2>1, WithoutFirst
  <2>3. Size!Within(Head(toComp).size) = cfg \/ ~Size!Forces(Head(toComp))
    <3>1. 1 \in 1..n
      BY <2>2
    <3>2. CASE choices = 0
      <4>1. Head(toComp).size = wanted /\ cfg = wanted
        BY <1>1, <2>2, <3>1, <3>2 DEF ClientIsLeft
      <4> QED BY <1>2, <4>1 DEF Fits
    <3>3. CASE choices # 0
      <4>1. Head(toComp).echo
        BY <1>1, <2>2, <3>1, <3>3 DEF ClientIsLeft
      <4> QED BY <4>1 DEF Size!Forces
    <3> QED BY <3>2, <3>3
  <2>4. UNCHANGED <<cfg, notices, drawn>>
    BY <2>1, <2>3
  <2>5. Announced /\ Announced'
    <3>1. Announced
      BY <1>1, <2>1 DEF WindowFollows
    <3> QED BY <2>1, <3>1 DEF Announced
  <2>6. WindowFollows'
    BY <1>1, <1>4, <2>5 DEF WindowFollows
  <2>7. ClientDraws'
    BY <1>1, <1>4, <2>1, <2>4 DEF ClientDraws
  <2>8. ClientIsLeft'
    <3>1. \A i \in 1..Len(toComp') : i + 1 \in 1..n /\ toComp'[i] = toComp[i + 1]
      BY <2>1, <2>2
    <3>2. CASE choices = 0
      <4>1. \A i \in 1..Len(toComp') : toComp'[i].size = wanted
        BY <1>1, <3>1, <3>2 DEF ClientIsLeft
      <4> QED BY <1>1, <1>4, <2>1, <2>4, <2>5, <3>2, <4>1 DEF ClientIsLeft
    <3>3. CASE choices # 0
      <4>1. \A i \in 1..Len(toComp') : toComp'[i].echo
        BY <1>1, <3>1, <3>3 DEF ClientIsLeft
      <4> QED BY <1>1, <1>4, <2>1, <3>3, <4>1 DEF ClientIsLeft
    <3> QED BY <3>2, <3>3
  <2> QED BY <2>6, <2>7, <2>8 DEF ChoiceInv
<1>6. CASE Size!GrantWish
  <2>1. /\ wish # 0 /\ wish' = 0 /\ drawn' = wish
        /\ UNCHANGED <<toComp, toPage, cfg, wanted, choices>>
    BY <1>6 DEF Size!GrantWish
  <2>2. choices # 0
    BY <1>1, <2>1 DEF ConfiguredInv
  <2>3. WindowFollows'
    BY <1>1, <1>4, <2>1 DEF WindowFollows, Announced
  <2>4. ClientDraws'
    BY <1>1, <1>4, <2>1 DEF ClientDraws
  <2>5. ClientIsLeft'
    BY <1>1, <1>4, <2>1, <2>2 DEF ClientIsLeft
  <2> QED BY <2>3, <2>4, <2>5 DEF ChoiceInv
<1>7. CASE Size!HandleNotice
  <2>1. notices # <<>> /\ UNCHANGED <<toComp, toPage, wish, drawn, wanted, choices>>
    BY <1>7 DEF Size!HandleNotice
  <2>2. choices # 0
    BY <1>1, <2>1 DEF ClientIsLeft
  <2>3. WindowFollows'
    BY <1>1, <1>4, <2>1 DEF WindowFollows, Announced
  <2>4. ClientDraws'
    BY <1>1, <1>4, <2>1 DEF ClientDraws
  <2>5. ClientIsLeft'
    BY <1>1, <1>4, <2>1, <2>2 DEF ClientIsLeft
  <2> QED BY <2>3, <2>4, <2>5 DEF ChoiceInv
<1>8. CASE Size!AppHears
  <2>1. toApp # <<>> /\ toApp = <<>>
    BY <1>1, <1>8 DEF Size!AppHears, ConfiguredInv
  <2> QED BY <2>1
<1>9. CASE Size!AppChooses
  <2>1. /\ choices' = choices + 1 /\ wish = 0 /\ (choices > 0 \/ (canvas # 0 /\ toComp = <<>>))
        /\ UNCHANGED <<toComp, toPage, drawn>>
        /\ wish' \in Sizes /\ wanted' = wish'
    BY <1>9 DEF Size!AppChooses
  <2>2. choices' # 0 /\ wish' # 0
    BY <1>2, <2>1 DEF Size!SizeTalkAssumption
  <2>3. canvas # 0 /\ \A i \in 1..Len(toComp) : toComp[i].echo
    <3>1. CASE choices > 0
      BY <1>1, <1>2, <3>1 DEF ClientIsLeft
    <3>2. CASE canvas # 0 /\ toComp = <<>>
      <4>1. Len(<<>>) = 0
        BY EmptySeq
      <4> QED BY <3>2, <4>1
    <3> QED BY <2>1, <3>1, <3>2
  <2>4. Announced /\ (Announced' <=> Announced)
    BY <1>1, <2>1, <2>3 DEF WindowFollows, Announced
  <2>5. WindowFollows'
    BY <1>1, <1>4, <2>4 DEF WindowFollows
  <2>6. ClientDraws'
    BY <1>1, <1>4, <2>1, <2>2 DEF ClientDraws
  <2>7. ClientIsLeft'
    BY <1>4, <2>1, <2>2, <2>3 DEF ClientIsLeft
  <2> QED BY <2>5, <2>6, <2>7 DEF ChoiceInv
<1>10. CASE Size!SendFrame
  <2>1. /\ ~\E i \in DOMAIN toPage : toPage[i][1] = "frame"
        /\ toPage' = Append(toPage, <<"frame", drawn>>)
        /\ UNCHANGED <<toComp, wish, notices, cfg, drawn, wanted, choices>>
    BY <1>10 DEF Size!SendFrame
  <2>2. toPage = <<>>
    BY <1>1, <2>1, PageQueue DEF PicturesInv
  <2>3. toPage' = << <<"frame", drawn>> >> /\ Head(toPage') = <<"frame", drawn>> /\ <<"frame", drawn>>[1] # "window"
    BY <2>1, <2>2
  <2>4. Announced /\ Announced'
    BY <2>2, <2>3 DEF Announced
  <2>5. WindowFollows'
    BY <1>1, <1>4, <2>4 DEF WindowFollows
  <2>6. toPage' \in Before(drawn, drawn) /\ drawn \in Fits \cap Sizes
    BY <1>1, <1>2, <2>3 DEF Before, ClientDraws
  <2>7. choices = 0 => drawn = wanted
    BY <1>1 DEF ConfiguredInv, ClientDraws
  <2>8. ClientDraws'
    BY <1>1, <1>4, <2>1, <2>6, <2>7 DEF ClientDraws
  <2>9. ClientIsLeft'
    BY <1>1, <1>4, <2>1, <2>4 DEF ClientIsLeft
  <2> QED BY <2>5, <2>8, <2>9 DEF ChoiceInv
<1> QED BY <1>5, <1>6, <1>7, <1>8, <1>9, <1>10

\* What is wanted of an X client nobody has touched is kept; an act of the person's ends it.
LEMMA ChoiceStepInv ==
  ASSUME Size!SizeTalkAssumption, ~Crossing, ~Early, Sizes \subseteq Least..Area, SizeInv, ChoiceInv,
         [Size!Next]_sizeVars
  PROVE  ChoiceInv'
<1>1. acts \in Nat
  BY DEF SizeInv, SizeTypes
<1>2. CASE UNCHANGED sizeVars
  BY <1>2 DEF sizeVars, ChoiceInv, WindowFollows, ClientDraws, ClientIsLeft, Announced, Fits,
     Before, Size!Within
<1>3. CASE Size!Resize(FALSE) \/ Size!Resize(TRUE) \/ Size!Maximize \/ Size!Minimize \/ Size!Restore \/ Size!SetZoom
  <2>1. acts' = acts + 1
    BY <1>3 DEF Size!Resize, Size!Maximize, Size!Minimize, Size!Restore, Size!SetZoom, Size!Acts
  <2>2. acts' # 0
    BY <1>1, <2>1
  <2> QED BY <2>2 DEF ChoiceInv
<1>4. ASSUME \/ Size!HandleWindow \/ Size!HandleBounds \/ Size!HandleFrame \/ Size!ResizeSettles
             \/ Size!HandleConfigure \/ Size!GrantWish \/ Size!HandleNotice \/ Size!AppHears
             \/ Size!AppChooses \/ Size!SendFrame
      PROVE  ChoiceInv'
  <2>1. isX' = isX /\ acts' = acts
    BY <1>4 DEF Size!HandleWindow, Size!HandleBounds, Size!HandleFrame, Size!Takes,
       Size!ResizeSettles, Size!appSide,
       Size!HandleConfigure, Size!GrantWish, Size!HandleNotice, Size!AppHears, Size!AppChooses, Size!SendFrame
  <2>2. CASE isX /\ acts = 0
    BY <1>4, <2>2, ReadsFollow, TimerFollows, ClientFollows
  <2>3. CASE ~(isX /\ acts = 0)
    BY <2>1, <2>3 DEF ChoiceInv
  <2> QED BY <2>2, <2>3
<1> QED BY <1>2, <1>3, <1>4 DEF Size!Next

\* It holds of an application whose window has not been opened yet.
LEMMA ChoiceInitInv == ASSUME Size!SizeTalkAssumption, Size!Init PROVE ChoiceInv
<1>1. /\ limits \in Limits /\ wanted \in Sizes /\ Size!Within(wanted) = wanted /\ drawn = wanted /\ cfg = wanted
      /\ toPage = << <<"window", wanted>>, <<"bounds", limits[1]>>, <<"frame", wanted>> >>
      /\ toComp = <<>> /\ wish = 0 /\ notices = <<>> /\ winState = "normal" /\ outer = Default /\ unclaimed = Default
      /\ zoom = 1 /\ sizeAsked = 0 /\ canvas = 0 /\ resizeTimer = FALSE /\ choices = 0
  BY DEF Size!Init
<1>2. wanted \in Fits \cap Sizes
  BY <1>1 DEF Fits, Size!SizeTalkAssumption
<1>3. toPage \in Before(wanted, wanted)
  BY <1>1 DEF Before
<1>4. ~Announced /\ Len(toComp) = 0
  BY <1>1, EmptySeq DEF Announced
<1>5. WindowFollows
  BY <1>1, <1>4 DEF WindowFollows
<1>6. ClientDraws
  BY <1>1, <1>2, <1>3 DEF ClientDraws
<1>7. ClientIsLeft
  BY <1>1, <1>4 DEF ClientIsLeft
<1> QED BY <1>5, <1>6, <1>7 DEF ChoiceInv

\* What is left when nothing is on its way.
LEMMA QuietFits ==
  ASSUME Size!SizeTalkAssumption, SizeInv
  PROVE  Size!PictureFits /\ Size!PersonsSizeStands
<1>1. SizeTypes /\ PicturesInv /\ ScrollInv /\ AskedInv /\ ConfiguredInv /\ FollowsInv
  BY DEF SizeInv
<1>2. SUFFICES ASSUME Size!Quiet
               PROVE  /\ winState # "minimized" => /\ canvas = drawn
                                                   /\ scrollable = (drawn > Size!FrameSize(winState, outer, zoom))
                      /\ choices = 0 /\ winState # "minimized" /\ ~Size!Unclaimed(winState, outer, unclaimed) =>
                           drawn = Size!Within(Size!FrameSize(winState, outer, zoom))
  BY DEF Size!PictureFits, Size!PersonsSizeStands
<1>3. toComp = <<>> /\ toPage = <<>> /\ toApp = <<>> /\ wish = 0 /\ notices = <<>> /\ ~pendingFrame /\ ~resizeTimer
  BY <1>2 DEF Size!Quiet
<1>4. canvas = drawn /\ canvas \in Fits
  BY <1>1, <1>3, PageQueue DEF PicturesInv
<1>5. Announced
  BY <1>3 DEF Announced
<1>6. ASSUME winState # "minimized" PROVE scrollable = (drawn > Size!FrameSize(winState, outer, zoom))
  <2>1. scrollable <=> drawn > Size!FrameSize(winState, outer, zoom)
    BY <1>1, <1>3, <1>4, <1>6 DEF ScrollInv, Box
  <2>2. scrollable \in BOOLEAN
    BY <1>1 DEF SizeTypes
  <2> QED BY <2>1, <2>2
<1>8. ASSUME choices = 0, winState # "minimized" PROVE drawn = Size!Within(Box)
  <2>1. Settled
    BY <1>3, <1>5, <1>8 DEF Settled
  <2>2. sizeAsked # 0 /\ Size!Within(sizeAsked) = Size!Within(Box)
    BY <1>1, <2>1 DEF AskedInv
  <2>3. CASE isX
    <3>1. canvas = sizeAsked \/ EndsAt(Size!Within(sizeAsked))
      BY <1>1, <1>8, <2>1, <2>3 DEF FollowsInv
    <3>2. CASE canvas = sizeAsked
      BY <1>4, <2>2, <3>2 DEF Fits
    <3>3. CASE EndsAt(Size!Within(sizeAsked))
      <4>1. Len(toComp) = 0
        BY <1>3, EmptySeq
      <4>2. drawn = Size!Within(sizeAsked)
        BY <3>3, <4>1 DEF EndsAt
      <4> QED BY <2>2, <4>2
    <3> QED BY <3>1, <3>2, <3>3
  <2>4. CASE ~isX
    BY <1>1, <1>3, <1>8, <2>2, <2>4 DEF ConfiguredInv
  <2> QED BY <2>3, <2>4
<1> QED BY <1>4, <1>6, <1>8 DEF Box

\* And of the last choice.
LEMMA QuietFollows ==
  ASSUME Size!SizeTalkAssumption, SizeInv, ChoiceInv
  PROVE  Size!LastChoiceStands
<1>1. PicturesInv
  BY DEF SizeInv
<1>2. SUFFICES ASSUME Size!Quiet, isX, acts = 0 PROVE drawn = wanted /\ outer = wanted
  BY DEF Size!LastChoiceStands
<1>3. toComp = <<>> /\ toPage = <<>> /\ wish = 0 /\ notices = <<>>
  BY <1>2 DEF Size!Quiet
<1>4. canvas = drawn /\ canvas \in Fits
  BY <1>1, <1>3, <1>2, PageQueue DEF PicturesInv, Size!Quiet
<1>5. Announced
  BY <1>3 DEF Announced
<1>6. WindowFollows /\ ClientDraws
  BY <1>2 DEF ChoiceInv
<1>7. drawn = wanted
  BY <1>2, <1>3, <1>6 DEF ClientDraws
<1>8. canvas \in {0, outer} /\ canvas # 0
  BY <1>2, <1>4, <1>5, <1>6 DEF WindowFollows, Fits
<1> QED BY <1>4, <1>7, <1>8

\* When nothing is on its way the page shows what the application has drawn, scrolls exactly when
\* that is larger than the window, and an application that has not changed its mind has the size
\* the person made its window, within its limits: for any sizes, limits, zooms and changes, where
\* no configure of an X window overtakes what the X server tells of the one before (~Crossing)
\* (client/src/apps/wayland/index.ts, compositor/src/wdcomp.c).
THEOREM PicturesFit ==
  ASSUME ~Crossing
  PROVE  Spec => [](Size!PictureFits /\ Size!PersonsSizeStands)
<1>1. Size!SizeTalkAssumption
  BY ConstantsAssumption
<1>2. Size!Init => SizeInv
  BY <1>1, SizeInitInv
<1>3. SizeInv /\ [Size!Next]_sizeVars => SizeInv'
  BY <1>1, SizeStepInv
<1>4. SizeInv => Size!PictureFits /\ Size!PersonsSizeStands
  BY <1>1, QuietFits
<1> QED BY <1>2, <1>3, <1>4, SizeRuns, PTL

\* When nothing is on its way the page shows what the application has drawn, and the application
\* is the size that was chosen for it last (client/src/apps/wayland/index.ts).
LEMMA SizesAreRight ==
  ASSUME ~Early, ~Crossing, Sizes \subseteq Least..Area
  PROVE  Spec => []Size!SizesAgree
<1>1. Size!SizeTalkAssumption
  BY ConstantsAssumption
<1>2. Size!Init => SizeInv /\ ChoiceInv
  BY <1>1, SizeInitInv, ChoiceInitInv
<1>3. SizeInv /\ ChoiceInv /\ [Size!Next]_sizeVars => (SizeInv /\ ChoiceInv)'
  BY <1>1, SizeStepInv, ChoiceStepInv
<1>4. SizeInv /\ ChoiceInv => Size!SizesAgree
  BY <1>1, QuietFits, QuietFollows DEF Size!SizesAgree
<1> QED BY <1>2, <1>3, <1>4, SizeRuns, PTL

\* Windows keep their places and native applications their sizes, under the conditions of the two
\* theorems above (~Careless, ~Crossing), and where an application chooses no other size before its
\* first is answered (~Early) and only sizes a window can have (Sizes within Least..Area): these
\* last two are what the size an X client has chosen for itself needs in order to stand.
THEOREM PlacesAreKept ==
  ASSUME ~Careless, ~Early, ~Crossing, Sizes \subseteq Least..Area
  PROVE  Spec => []KeepsItsPlace
<1>1. Spec => []Frame!KeepsItsPlace
  BY FrameIsRight
<1>2. Spec => []Size!SizesAgree
  BY SizesAreRight
<1>3. Frame!KeepsItsPlace /\ Size!SizesAgree => KeepsItsPlace
  BY DEF KeepsItsPlace
<1> QED BY <1>1, <1>2, <1>3, PTL

---------------------------------------------------------------------------
(* The windows and the session *)

\* Of a behaviour of the desktop, its windows and their session are one of DesktopSession.
LEMMA SessionRuns == Spec => Session!Init /\ [][Session!Next]_sessionVars
<1>1. Init => Session!Init
  BY DEF Init
<1>2. [Next]_vars => [Session!Next]_sessionVars
  BY DEF Next, vars, SessionSteps, FrameSteps, DialogSteps, CatalogueSteps, TokenSteps, SizeSteps,
     RelaySteps, ClipSteps, Only
<1> QED BY <1>1, <1>2, PTL DEF Spec

\* A stack: no window is in it twice.
Stack(st) == st \in Seq(SessionApps) /\ \A i, j \in 1..Len(st) : st[i] = st[j] => i = j

\* The focus is with the uppermost window of all, which is shown, or no window is.
FocusIsOnTop(s) ==
  \/ s.focus = NoApp /\ \A i \in 1..Len(s.stack) : s.stack[i] \in s.mini
  \/ /\ Len(s.stack) # 0 /\ s.focus = s.stack[Len(s.stack)]
     /\ s.focus \in SessionApps /\ s.focus \notin s.mini

\* A stack with its focus and what is minimized.
Neat(s) ==
  /\ s = [stack |-> s.stack, focus |-> s.focus, mini |-> s.mini]
  /\ Stack(s.stack) /\ s.mini \subseteq SessionApps /\ FocusIsOnTop(s)

\* What is left of a stack without one of its windows.
LEMMA TakenOut ==
  ASSUME NEW st, Stack(st), NEW w \in Session!Members(st), NEW r, r = Session!Without(st, w)
  PROVE  /\ Stack(r) /\ Len(r) = Len(st) - 1 /\ Len(st) \in Nat \ {0} /\ w \in SessionApps
         /\ Session!Members(r) = Session!Members(st) \ {w}
         /\ \A x, y \in SessionApps \ {w} : Session!Below(r, x, y) <=> Session!Below(st, x, y)
         /\ st[Len(st)] # w => Len(r) # 0 /\ r[Len(r)] = st[Len(st)]
<1> DEFINE n == Len(st)
<1>1. st \in Seq(SessionApps) /\ DOMAIN st = 1..n /\ n \in Nat /\ \A i \in 1..n : st[i] \in SessionApps
  BY ElementOfSeq, LenProperties DEF Stack
<1>2. \E i \in 1..n : st[i] = w
  BY <1>1 DEF Session!Members
<1> DEFINE at == CHOOSE i \in 1..n : st[i] = w
<1>3. at \in 1..n /\ st[at] = w
  BY <1>2
<1>4. r = [i \in 1..(n - 1) |-> st[IF i < at THEN i ELSE i + 1]]
  BY <1>1 DEF Session!Without
<1> HIDE DEF at
<1>5. n \in Nat \ {0} /\ at \in 1..n /\ \A i \in 1..(n - 1) : (IF i < at THEN i ELSE i + 1) \in 1..n
  <2> HIDE DEF n
  <2> QED BY <1>1, <1>3
<1> HIDE DEF n
<1>6. r \in Seq(SessionApps) /\ Len(r) = n - 1 /\ DOMAIN r = 1..(n - 1)
  <2>1. \A i \in 1..(n - 1) : st[IF i < at THEN i ELSE i + 1] \in SessionApps
    BY <1>1, <1>5
  <2>2. n - 1 \in Nat
    BY <1>5
  <2> QED BY <1>4, <2>1, <2>2
<1>7. \A i \in 1..(n - 1) : r[i] = st[IF i < at THEN i ELSE i + 1]
  BY <1>4
<1>8. \A i, j \in 1..n : st[i] = st[j] => i = j
  BY DEF Stack, n
<1>9. \A k \in 1..n : k # at => \E i \in 1..(n - 1) : k = IF i < at THEN i ELSE i + 1
  <2> SUFFICES ASSUME NEW k \in 1..n, k # at PROVE \E i \in 1..(n - 1) : k = IF i < at THEN i ELSE i + 1
    OBVIOUS
  <2>1. CASE k < at
    BY <1>5, <2>1
  <2>2. CASE k > at
    <3>1. k - 1 \in 1..(n - 1) /\ ~(k - 1 < at) /\ k = (k - 1) + 1
      BY <1>5, <2>2
    <3> QED BY <3>1
  <2> QED BY <1>5, <2>1, <2>2
<1> DEFINE p(i) == IF i < at THEN i ELSE i + 1
<1>10. /\ \A i \in 1..(n - 1) : p(i) \in 1..n /\ p(i) # at
       /\ \A i, j \in 1..(n - 1) : (p(i) <= p(j) <=> i <= j) /\ (p(i) = p(j) => i = j)
  BY <1>5
<1>11. \A i \in 1..(n - 1) : r[i] = st[p(i)]
  BY <1>7
<1>12. \A k \in 1..n : k # at => \E i \in 1..(n - 1) : k = p(i)
  BY <1>9
<1> HIDE DEF p
<1>13. Stack(r)
  <2> SUFFICES ASSUME NEW i \in 1..(n - 1), NEW j \in 1..(n - 1), r[i] = r[j] PROVE i = j
    BY <1>6 DEF Stack
  <2> QED BY <1>8, <1>10, <1>11
<1>14. Session!Members(r) = Session!Members(st) \ {w}
  <2>1. ASSUME NEW x \in Session!Members(r) PROVE x \in Session!Members(st) \ {w}
    <3>1. PICK i \in 1..(n - 1) : x = r[i]
      BY <1>6 DEF Session!Members
    <3> QED BY <1>1, <1>3, <1>8, <1>10, <1>11, <3>1 DEF Session!Members, n
  <2>2. ASSUME NEW x \in Session!Members(st) \ {w} PROVE x \in Session!Members(r)
    <3>1. PICK k \in 1..n : x = st[k]
      BY <1>1 DEF Session!Members
    <3>2. k # at
      BY <1>3, <3>1
    <3>3. PICK i \in 1..(n - 1) : k = p(i)
      BY <1>12, <3>2
    <3> QED BY <1>6, <1>11, <3>1, <3>3 DEF Session!Members
  <2> QED BY <2>1, <2>2
<1>15. ASSUME NEW x \in SessionApps \ {w}, NEW y \in SessionApps \ {w}
       PROVE  Session!Below(r, x, y) <=> Session!Below(st, x, y)
  <2>1. ASSUME Session!Below(r, x, y) PROVE Session!Below(st, x, y)
    <3>1. PICK i \in 1..(n - 1), j \in 1..(n - 1) : i <= j /\ r[i] = x /\ r[j] = y
      BY <1>6, <2>1 DEF Session!Below
    <3>2. p(i) \in 1..n /\ p(j) \in 1..n /\ p(i) <= p(j) /\ st[p(i)] = x /\ st[p(j)] = y
      BY <1>10, <1>11, <3>1
    <3> QED BY <1>1, <3>2 DEF Session!Below, n
  <2>2. ASSUME Session!Below(st, x, y) PROVE Session!Below(r, x, y)
    <3>1. PICK k \in 1..n, l \in 1..n : k <= l /\ st[k] = x /\ st[l] = y
      BY <1>1, <2>2 DEF Session!Below, n
    <3>2. k # at /\ l # at
      BY <1>3, <3>1
    <3>3. PICK i \in 1..(n - 1) : k = p(i)
      BY <1>12, <3>2
    <3>4. PICK j \in 1..(n - 1) : l = p(j)
      BY <1>12, <3>2
    <3>5. i <= j /\ r[i] = x /\ r[j] = y
      BY <1>10, <1>11, <3>1, <3>3, <3>4
    <3> QED BY <1>6, <3>5 DEF Session!Below
  <2> QED BY <2>1, <2>2
<1>16. ASSUME st[n] # w PROVE Len(r) # 0 /\ r[Len(r)] = st[n]
  <2>1. n # at
    BY <1>3, <1>16
  <2>2. n - 1 \in 1..(n - 1) /\ p(n - 1) = n /\ n - 1 # 0
    BY <1>5, <2>1 DEF p
  <2> QED BY <1>6, <1>11, <2>2
<1>17. w \in SessionApps
  BY <1>1, <1>3 DEF n
<1> QED BY <1>5, <1>6, <1>13, <1>14, <1>15, <1>16, <1>17 DEF n

\* A window that comes on top of a stack it was not in.
LEMMA PutOnTop ==
  ASSUME NEW st, Stack(st), NEW w \in SessionApps, w \notin Session!Members(st), NEW r, r = Append(st, w)
  PROVE  /\ Stack(r) /\ Len(r) = Len(st) + 1 /\ Len(st) \in Nat /\ r[Len(r)] = w
         /\ Session!Members(r) = Session!Members(st) \cup {w}
         /\ \A x, y \in SessionApps \ {w} : Session!Below(r, x, y) <=> Session!Below(st, x, y)
<1> DEFINE n == Len(st)
<1>1. st \in Seq(SessionApps) /\ DOMAIN st = 1..n /\ n \in Nat /\ \A i \in 1..n : st[i] \in SessionApps
  BY ElementOfSeq, LenProperties DEF Stack
<1>2. /\ r \in Seq(SessionApps) /\ Len(r) = n + 1 /\ DOMAIN r = 1..(n + 1)
      /\ \A i \in 1..n : r[i] = st[i] /\ r[n + 1] = w
  BY <1>1, AppendProperties
<1>3. r[n + 1] = w
  BY <1>1, AppendProperties
<1>4. \A i \in 1..n : st[i] # w
  BY <1>1 DEF Session!Members
<1>5. \A i, j \in 1..n : st[i] = st[j] => i = j
  BY DEF Stack
<1> HIDE DEF n
<1>6. \A i \in 1..(n + 1) : i \in 1..n \/ i = n + 1
  BY <1>1
<1>7. n + 1 \in 1..(n + 1) /\ \A i \in 1..n : i \in 1..(n + 1)
  BY <1>1
<1>8. Stack(r)
  <2> SUFFICES ASSUME NEW i \in 1..(n + 1), NEW j \in 1..(n + 1), r[i] = r[j] PROVE i = j
    BY <1>2 DEF Stack
  <2> QED BY <1>2, <1>3, <1>4, <1>5, <1>6
<1>9. Session!Members(r) = Session!Members(st) \cup {w}
  <2>1. ASSUME NEW x \in Session!Members(r) PROVE x \in Session!Members(st) \cup {w}
    <3>1. PICK i \in 1..(n + 1) : x = r[i]
      BY <1>2 DEF Session!Members
    <3> QED BY <1>1, <1>2, <1>3, <1>6, <3>1 DEF Session!Members
  <2>2. ASSUME NEW x \in Session!Members(st) PROVE x \in Session!Members(r)
    <3>1. PICK i \in 1..n : x = st[i]
      BY <1>1 DEF Session!Members
    <3> QED BY <1>2, <1>7, <3>1 DEF Session!Members
  <2>3. w \in Session!Members(r)
    BY <1>2, <1>3, <1>7 DEF Session!Members
  <2> QED BY <2>1, <2>2, <2>3
<1>10. ASSUME NEW x \in SessionApps \ {w}, NEW y \in SessionApps \ {w}
       PROVE  Session!Below(r, x, y) <=> Session!Below(st, x, y)
  <2>1. ASSUME Session!Below(r, x, y) PROVE Session!Below(st, x, y)
    <3>1. PICK i \in 1..(n + 1), j \in 1..(n + 1) : i <= j /\ r[i] = x /\ r[j] = y
      BY <1>2, <2>1 DEF Session!Below
    <3>2. i \in 1..n /\ j \in 1..n
      BY <1>3, <1>6, <3>1
    <3> QED BY <1>1, <1>2, <3>1, <3>2 DEF Session!Below
  <2>2. ASSUME Session!Below(st, x, y) PROVE Session!Below(r, x, y)
    <3>1. PICK i \in 1..n, j \in 1..n : i <= j /\ st[i] = x /\ st[j] = y
      BY <1>1, <2>2 DEF Session!Below
    <3> QED BY <1>2, <1>7, <3>1 DEF Session!Below
  <2> QED BY <2>1, <2>2
<1> QED BY <1>1, <1>2, <1>3, <1>8, <1>9, <1>10 DEF n

\* The window at the top is over every window, and under none but itself.
LEMMA LastIsTop ==
  ASSUME NEW st, Stack(st), Len(st) # 0
  PROVE  /\ st[Len(st)] \in Session!Members(st)
         /\ \A x \in Session!Members(st) : Session!Below(st, x, st[Len(st)])
<1> DEFINE n == Len(st)
<1>1. DOMAIN st = 1..n /\ n \in Nat /\ n # 0
  BY LenProperties DEF Stack
<1> HIDE DEF n
<1>2. n \in 1..n /\ \A i \in 1..n : i <= n
  BY <1>1
<1> QED BY <1>1, <1>2 DEF Session!Members, Session!Below, n

\* Of two windows one is over the other, and not the other over the one.
LEMMA OneIsBelow ==
  ASSUME NEW st, Stack(st)
  PROVE  /\ \A x, y : Session!Below(st, x, y) /\ Session!Below(st, y, x) => x = y
         /\ \A x, y \in Session!Members(st) : Session!Below(st, x, y) \/ Session!Below(st, y, x)
         /\ \A x, y : Session!Below(st, x, y) =>
                        x \in Session!Members(st) /\ y \in Session!Members(st)
<1> DEFINE n == Len(st)
<1>1. DOMAIN st = 1..n /\ n \in Nat /\ \A i, j \in 1..n : st[i] = st[j] => i = j
  BY LenProperties DEF Stack
<1> HIDE DEF n
<1>2. ASSUME NEW x, NEW y, Session!Below(st, x, y), Session!Below(st, y, x) PROVE x = y
  <2>1. PICK i \in 1..n, j \in 1..n : i <= j /\ st[i] = x /\ st[j] = y
    BY <1>1, <1>2 DEF Session!Below
  <2>2. PICK k \in 1..n, l \in 1..n : k <= l /\ st[k] = y /\ st[l] = x
    BY <1>1, <1>2 DEF Session!Below
  <2>3. k = j /\ l = i
    BY <1>1, <2>1, <2>2
  <2>4. i = j
    BY <1>1, <2>1, <2>2, <2>3
  <2> QED BY <2>1, <2>4
<1>3. ASSUME NEW x \in Session!Members(st), NEW y \in Session!Members(st)
      PROVE  Session!Below(st, x, y) \/ Session!Below(st, y, x)
  <2>1. PICK i \in 1..n : st[i] = x
    BY <1>1 DEF Session!Members
  <2>2. PICK j \in 1..n : st[j] = y
    BY <1>1 DEF Session!Members
  <2>3. i <= j \/ j <= i
    BY <1>1
  <2> QED BY <1>1, <2>1, <2>2, <2>3 DEF Session!Below
<1>4. ASSUME NEW x, NEW y, Session!Below(st, x, y)
      PROVE  x \in Session!Members(st) /\ y \in Session!Members(st)
  BY <1>1, <1>4 DEF Session!Below, Session!Members
<1> QED BY <1>2, <1>3, <1>4

\* topmostVisible(): a window that is shown, over all others that are, or there is none.
LEMMA Topmost ==
  ASSUME NEW s, Stack(s.stack), NEW x, x = Session!TopmostVisible(s)
  PROVE  \/ x = NoApp /\ \A i \in 1..Len(s.stack) : s.stack[i] \in s.mini
         \/ /\ x \in Session!Members(s.stack) /\ x \in SessionApps /\ x \notin s.mini
            /\ \A y \in Session!Members(s.stack) \ s.mini : Session!Below(s.stack, y, x)
<1> DEFINE st == s.stack  n == Len(st)  T == Session!Visible(s)
<1>1. DOMAIN st = 1..n /\ n \in Nat /\ \A i \in 1..n : st[i] \in SessionApps
  BY ElementOfSeq, LenProperties DEF Stack
<1>2. T = {i \in 1..n : st[i] \notin s.mini}
  BY <1>1 DEF Session!Visible
<1>3. CASE T = {}
  BY <1>2, <1>3 DEF Session!TopmostVisible
<1>4. CASE T # {}
  <2> DEFINE U == {k \in 0..n : (n - k) \in T}
  <2>1. U \subseteq Nat /\ U # {}
    <3>1. PICK i \in T : TRUE
      BY <1>4
    <3>2. i \in 1..n
      BY <1>2, <3>1
    <3> HIDE DEF T, n
    <3>3. n - i \in 0..n /\ n - (n - i) = i
      BY <1>1, <3>2
    <3> QED BY <1>1, <3>1, <3>3
  <2>2. PICK k \in U : \A m \in U : k <= m
    <3> HIDE DEF U
    <3> QED BY <2>1, LeastNumber
  <2>3. \E i \in T : \A j \in T : j <= i
    <3>1. k \in 0..n /\ n - k \in T
      BY <2>2
    <3>2. ASSUME NEW j \in T PROVE j <= n - k
      <4>1. j \in 1..n
        BY <1>2
      <4> HIDE DEF T, n
      <4>2. n - j \in 0..n /\ n - (n - j) = j
        BY <1>1, <4>1
      <4>3. n - j \in U
        BY <4>2
      <4>4. k <= n - j
        BY <2>2, <4>3
      <4> QED BY <1>1, <3>1, <4>1, <4>4
    <3> QED BY <3>1, <3>2
  <2> DEFINE top == CHOOSE i \in T : \A j \in T : j <= i
  <2>4. top \in T /\ \A j \in T : j <= top
    BY <2>3
  <2>5. x = st[top]
    BY <1>4 DEF Session!TopmostVisible
  <2> HIDE DEF top
  <2>6. top \in 1..n /\ x \notin s.mini
    BY <1>2, <2>4, <2>5
  <2>7. x \in Session!Members(st) /\ x \in SessionApps
    BY <1>1, <2>5, <2>6 DEF Session!Members
  <2>8. ASSUME NEW y \in Session!Members(st) \ s.mini PROVE Session!Below(st, y, x)
    <3>1. PICK j \in 1..n : st[j] = y
      BY <1>1 DEF Session!Members
    <3>2. j <= top
      BY <1>2, <2>4, <3>1
    <3> HIDE DEF n
    <3> QED BY <1>1, <2>5, <2>6, <3>1, <3>2 DEF Session!Below
  <2> QED BY <2>6, <2>7, <2>8
<1> QED BY <1>3, <1>4

\* setFocus() of a window puts it on top of all others and leaves those as they were.
LEMMA FocusMoved ==
  ASSUME NoApp \notin SessionApps, NEW s, Stack(s.stack), s.mini \subseteq SessionApps,
         s = [stack |-> s.stack, focus |-> s.focus, mini |-> s.mini],
         NEW w \in Session!Members(s.stack), s.focus = w => s.stack[Len(s.stack)] = w,
         NEW t, t = Session!SetFocus(s, w)
  PROVE  /\ Neat(t) /\ Session!Members(t.stack) = Session!Members(s.stack) /\ w \in SessionApps
         /\ t.focus = w /\ t.mini = s.mini \ {w} /\ Len(t.stack) # 0 /\ t.stack[Len(t.stack)] = w
         /\ \A x, y \in SessionApps \ {w} :
              Session!Below(t.stack, x, y) <=> Session!Below(s.stack, x, y)
<1>1. w \in SessionApps /\ Len(s.stack) # 0 /\ Len(s.stack) \in Nat
  <2>1. Len(s.stack) \in Nat \ {0} /\ w \in SessionApps
    BY TakenOut
  <2> QED BY <2>1
<1>2. CASE s.focus = w
  <2>1. t = [s EXCEPT !.mini = @ \ {w}]
    BY <1>1, <1>2 DEF Session!SetFocus
  <2>2. t.stack = s.stack /\ t.focus = s.focus /\ t.mini = s.mini \ {w}
    BY <2>1
  <2>3. t = [stack |-> t.stack, focus |-> t.focus, mini |-> t.mini]
    BY <2>1
  <2>4. FocusIsOnTop(t)
    BY <1>1, <1>2, <2>2 DEF FocusIsOnTop
  <2> QED BY <1>1, <1>2, <2>2, <2>3, <2>4 DEF Neat
<1>3. CASE s.focus # w
  <2> DEFINE r == Session!Without(s.stack, w)
  <2>1. t = [stack |-> Append(r, w), focus |-> w, mini |-> s.mini \ {w}]
    BY <1>1, <1>3 DEF Session!SetFocus
  <2>2. /\ Stack(r) /\ Session!Members(r) = Session!Members(s.stack) \ {w}
        /\ \A x, y \in SessionApps \ {w} : Session!Below(r, x, y) <=> Session!Below(s.stack, x, y)
    BY TakenOut
  <2> HIDE DEF r
  <2> DEFINE q == Append(r, w)
  <2>3. /\ Stack(q) /\ Len(q) = Len(r) + 1 /\ Len(r) \in Nat /\ q[Len(q)] = w
        /\ Session!Members(q) = Session!Members(r) \cup {w}
        /\ \A x, y \in SessionApps \ {w} : Session!Below(q, x, y) <=> Session!Below(r, x, y)
    BY <1>1, <2>2, PutOnTop
  <2>4. t.stack = q /\ t.focus = w /\ t.mini = s.mini \ {w}
    BY <2>1
  <2>5. t = [stack |-> t.stack, focus |-> t.focus, mini |-> t.mini]
    BY <2>1
  <2> HIDE DEF q
  <2>6. Len(q) # 0
    BY <2>3
  <2>7. Session!Members(q) = Session!Members(s.stack)
    BY <2>2, <2>3
  <2>8. FocusIsOnTop(t)
    BY <1>1, <2>3, <2>4, <2>6 DEF FocusIsOnTop
  <2>9. Neat(t)
    BY <2>3, <2>4, <2>5, <2>8 DEF Neat
  <2> QED BY <1>1, <2>2, <2>3, <2>4, <2>6, <2>7, <2>9
<1> QED BY <1>2, <1>3

\* The windows that are shown are in the same order in two stacks.
SameOrder(r, st, m) ==
  \A x, y \in SessionApps \ m : Session!Below(r, x, y) <=> Session!Below(st, x, y)

\* Raising the window that is over all others that are shown changes nothing of what is seen.
LEMMA OrderKept ==
  ASSUME NEW st, Stack(st), NEW r, Stack(r), Session!Members(r) = Session!Members(st),
         NEW w \in Session!Members(st), NEW m, Len(r) # 0, r[Len(r)] = w,
         \A y \in Session!Members(st) \ m : Session!Below(st, y, w),
         \A x, y \in SessionApps \ {w} : Session!Below(r, x, y) <=> Session!Below(st, x, y)
  PROVE  SameOrder(r, st, m)
<1> SUFFICES ASSUME NEW x \in SessionApps \ m, NEW y \in SessionApps \ m
             PROVE  Session!Below(r, x, y) <=> Session!Below(st, x, y)
  BY DEF SameOrder
<1>1. \A z \in Session!Members(st) : Session!Below(r, z, w)
  BY LastIsTop
<1>2. CASE y = w
  BY <1>1, <1>2, OneIsBelow
<1>3. CASE x = w /\ y # w
  <2>1. ~Session!Below(r, w, y)
    BY <1>1, <1>3, OneIsBelow
  <2>2. ~Session!Below(st, w, y)
    BY <1>3, OneIsBelow
  <2> QED BY <1>3, <2>1, <2>2
<1>4. CASE x # w /\ y # w
  BY <1>4
<1> QED BY <1>2, <1>3, <1>4

\* minimize(): the focus goes to the uppermost window that is still shown.
LEMMA MinimizedNeat ==
  ASSUME NoApp \notin SessionApps, NEW s, Neat(s), NEW w \in Session!Members(s.stack),
         NEW t, t = Session!Minimized(s, w)
  PROVE  /\ Neat(t) /\ Session!Members(t.stack) = Session!Members(s.stack)
         /\ t.mini = s.mini \cup {w} /\ SameOrder(t.stack, s.stack, t.mini)
<1> DEFINE m == [s EXCEPT !.mini = @ \cup {w}]
<1>0. w \in SessionApps
  BY TakenOut DEF Neat
<1>1. /\ m.stack = s.stack /\ m.focus = s.focus /\ m.mini = s.mini \cup {w}
      /\ m = [stack |-> m.stack, focus |-> m.focus, mini |-> m.mini]
  BY DEF Neat
<1>2. t = IF s.focus = w THEN Session!SetFocus(m, Session!TopmostVisible(m)) ELSE m
  BY DEF Session!Minimized
<1>3. Stack(m.stack) /\ m.mini \subseteq SessionApps
  BY <1>0, <1>1 DEF Neat
<1> HIDE DEF m
<1>4. CASE s.focus # w
  <2>1. t = m
    BY <1>2, <1>4
  <2>2. FocusIsOnTop(t)
    BY <1>1, <1>4, <2>1 DEF Neat, FocusIsOnTop
  <2> QED BY <1>1, <1>3, <2>1, <2>2 DEF Neat, SameOrder
<1>5. CASE s.focus = w
  <2> DEFINE x == Session!TopmostVisible(m)
  <2>1. t = Session!SetFocus(m, x)
    BY <1>2, <1>5
  <2>2. \/ x = NoApp /\ \A i \in 1..Len(m.stack) : m.stack[i] \in m.mini
        \/ /\ x \in Session!Members(m.stack) /\ x \in SessionApps /\ x \notin m.mini
           /\ \A y \in Session!Members(m.stack) \ m.mini : Session!Below(m.stack, y, x)
    BY <1>3, Topmost
  <2> HIDE DEF x
  <2>3. CASE x = NoApp
    <3>1. t = [m EXCEPT !.focus = NoApp]
      BY <2>1, <2>3 DEF Session!SetFocus
    <3>2. /\ t.stack = m.stack /\ t.focus = NoApp /\ t.mini = m.mini
          /\ t = [stack |-> t.stack, focus |-> t.focus, mini |-> t.mini]
      BY <1>1, <3>1
    <3>3. \A i \in 1..Len(m.stack) : m.stack[i] \in m.mini
      BY <2>2, <2>3
    <3>4. FocusIsOnTop(t)
      BY <3>2, <3>3 DEF FocusIsOnTop
    <3> QED BY <1>1, <1>3, <3>2, <3>4 DEF Neat, SameOrder
  <2>4. CASE x # NoApp
    <3>1. /\ x \in Session!Members(m.stack) /\ x \notin m.mini /\ m.focus # x
          /\ \A y \in Session!Members(m.stack) \ m.mini : Session!Below(m.stack, y, x)
      BY <1>1, <1>5, <2>2, <2>4
    <3>2. /\ Neat(t) /\ Session!Members(t.stack) = Session!Members(m.stack)
          /\ t.mini = m.mini \ {x} /\ Len(t.stack) # 0 /\ t.stack[Len(t.stack)] = x
          /\ \A y, z \in SessionApps \ {x} :
               Session!Below(t.stack, y, z) <=> Session!Below(m.stack, y, z)
      BY <1>1, <1>3, <2>1, <3>1, FocusMoved
    <3>3. t.mini = m.mini
      BY <3>1, <3>2
    <3>4. Stack(t.stack)
      BY <3>2 DEF Neat
    <3>5. SameOrder(t.stack, m.stack, m.mini)
      BY <1>3, <3>1, <3>2, <3>4, OrderKept
    <3> QED BY <1>1, <3>2, <3>3, <3>5
  <2> QED BY <2>3, <2>4
<1> QED BY <1>4, <1>5

\* close(): the window is gone, and the focus goes to the uppermost that is shown if it had it.
LEMMA ClosedNeat ==
  ASSUME NoApp \notin SessionApps, NEW s, Neat(s), NEW w \in Session!Members(s.stack),
         NEW u, u = [stack |-> Session!Without(s.stack, w), focus |-> s.focus, mini |-> s.mini \ {w}],
         NEW t, t = IF s.focus = w THEN Session!SetFocus(u, Session!TopmostVisible(u)) ELSE u
  PROVE  Neat(t) /\ Session!Members(t.stack) = Session!Members(s.stack) \ {w}
<1>1. /\ Stack(u.stack) /\ Len(u.stack) = Len(s.stack) - 1 /\ Len(s.stack) \in Nat \ {0}
      /\ Session!Members(u.stack) = Session!Members(s.stack) \ {w}
      /\ s.stack[Len(s.stack)] # w => Len(u.stack) # 0 /\ u.stack[Len(u.stack)] = s.stack[Len(s.stack)]
  <2>1. Stack(s.stack)
    BY DEF Neat
  <2>2. u.stack = Session!Without(s.stack, w)
    OBVIOUS
  <2> QED BY <2>1, <2>2, TakenOut
<1>2. /\ u.focus = s.focus /\ u.mini = s.mini \ {w} /\ u.mini \subseteq SessionApps
      /\ u = [stack |-> u.stack, focus |-> u.focus, mini |-> u.mini]
  BY DEF Neat
<1>3. CASE s.focus # w
  <2>1. t = u
    BY <1>3
  <2>2. CASE s.focus = NoApp /\ \A i \in 1..Len(s.stack) : s.stack[i] \in s.mini
    <3>1. \A i \in 1..Len(u.stack) : u.stack[i] \in Session!Members(u.stack)
      BY <1>1, LenProperties DEF Session!Members, Stack
    <3>2. \A y \in Session!Members(s.stack) : y \in s.mini
      BY <2>2, LenProperties DEF Session!Members, Neat, Stack
    <3>3. \A i \in 1..Len(u.stack) : u.stack[i] \in u.mini
      BY <1>1, <1>2, <3>1, <3>2
    <3> QED BY <1>1, <1>2, <2>1, <2>2, <3>3 DEF Neat, FocusIsOnTop
  <2>3. CASE s.focus = s.stack[Len(s.stack)] /\ s.focus \in SessionApps /\ s.focus \notin s.mini
    <3>1. FocusIsOnTop(u)
      BY <1>1, <1>2, <1>3, <2>3 DEF FocusIsOnTop
    <3> QED BY <1>1, <1>2, <2>1, <3>1 DEF Neat
  <2> QED BY <2>2, <2>3 DEF Neat, FocusIsOnTop
<1>4. CASE s.focus = w
  <2> DEFINE x == Session!TopmostVisible(u)
  <2>1. t = Session!SetFocus(u, x)
    BY <1>4
  <2>2. \/ x = NoApp /\ \A i \in 1..Len(u.stack) : u.stack[i] \in u.mini
        \/ x \in Session!Members(u.stack) /\ x \in SessionApps /\ x \notin u.mini
    BY <1>1, Topmost
  <2> HIDE DEF x
  <2>3. CASE x = NoApp
    <3>1. t = [u EXCEPT !.focus = NoApp]
      BY <2>1, <2>3 DEF Session!SetFocus
    <3>2. /\ t.stack = u.stack /\ t.focus = NoApp /\ t.mini = u.mini
          /\ t = [stack |-> t.stack, focus |-> t.focus, mini |-> t.mini]
      BY <1>2, <3>1
    <3>3. \A i \in 1..Len(u.stack) : u.stack[i] \in u.mini
      BY <2>2, <2>3
    <3>4. FocusIsOnTop(t)
      BY <3>2, <3>3 DEF FocusIsOnTop
    <3> QED BY <1>1, <1>2, <3>2, <3>4 DEF Neat
  <2>4. CASE x # NoApp
    <3>1. x \in Session!Members(u.stack) /\ u.focus # x
      BY <1>1, <1>2, <1>4, <2>2, <2>4
    <3>2. Stack(u.stack) /\ (u.focus = x => u.stack[Len(u.stack)] = x)
      BY <1>1, <3>1
    <3>3. ASSUME NEW v, v = u PROVE Neat(t) /\ Session!Members(t.stack) = Session!Members(v.stack)
      <4>1. /\ Stack(v.stack) /\ v.mini \subseteq SessionApps /\ x \in Session!Members(v.stack)
            /\ v.focus = x => v.stack[Len(v.stack)] = x
        BY <1>2, <3>1, <3>2, <3>3
      <4>2. v = [stack |-> v.stack, focus |-> v.focus, mini |-> v.mini]
        BY <1>2, <3>3
      <4>3. t = Session!SetFocus(v, x)
        BY <2>1, <3>3
      <4> HIDE <3>3
      <4>4. Neat(t)
        BY <4>1, <4>2, <4>3, FocusMoved
      <4>5. Session!Members(t.stack) = Session!Members(v.stack)
        BY <4>1, <4>2, <4>3, FocusMoved
      <4> QED BY <4>4, <4>5
    <3>4. Neat(t) /\ Session!Members(t.stack) = Session!Members(u.stack)
      BY <3>3
    <3> QED BY <1>1, <3>4
  <2> QED BY <2>3, <2>4
<1> QED BY <1>3, <1>4

\* launch(): the new window is on top and has the focus.
LEMMA OpenedNeat ==
  ASSUME NoApp \notin SessionApps, NEW s, Neat(s), NEW w \in SessionApps,
         w \notin Session!Members(s.stack),
         NEW u, u = [stack |-> Append(s.stack, w), focus |-> s.focus, mini |-> s.mini],
         NEW t, t = Session!SetFocus(u, w)
  PROVE  /\ Neat(t)
         /\ \A x : x \in Session!Members(t.stack) <=> x = w \/ x \in Session!Members(s.stack)
         /\ t.mini = s.mini \ {w} /\ Len(t.stack) # 0 /\ t.stack[Len(t.stack)] = w
         /\ \A x, y \in SessionApps \ {w} :
              Session!Below(t.stack, x, y) <=> Session!Below(s.stack, x, y)
<1> DEFINE r == Append(s.stack, w)
<1>1. /\ u.stack = r /\ u.focus = s.focus /\ u.mini = s.mini
      /\ u = [stack |-> u.stack, focus |-> u.focus, mini |-> u.mini]
  BY DEF Neat
<1>2. /\ Stack(r) /\ Len(r) = Len(s.stack) + 1 /\ r[Len(r)] = w
      /\ Session!Members(r) = Session!Members(s.stack) \cup {w}
      /\ \A x, y \in SessionApps \ {w} : Session!Below(r, x, y) <=> Session!Below(s.stack, x, y)
  <2>1. Stack(s.stack)
    BY DEF Neat
  <2>3. Stack(r)
    BY <2>1, PutOnTop
  <2>6. Len(r) = Len(s.stack) + 1
    BY <2>1, PutOnTop
  <2>7. r[Len(r)] = w
    <3>1. s.stack \in Seq(SessionApps)
      BY <2>1 DEF Stack
    <3>2. Len(r) = Len(s.stack) + 1 /\ r[Len(s.stack) + 1] = w
      BY <3>1, AppendProperties
    <3> QED BY <3>2
  <2>4. Session!Members(r) = Session!Members(s.stack) \cup {w}
    BY <2>1, PutOnTop
  <2>5. \A x, y \in SessionApps \ {w} : Session!Below(r, x, y) <=> Session!Below(s.stack, x, y)
    BY <2>1, PutOnTop
  <2> QED BY <2>3, <2>4, <2>5, <2>6, <2>7
<1>3. w \in Session!Members(r) /\ s.mini \subseteq SessionApps /\ (u.focus = w => r[Len(r)] = w)
  BY <1>2 DEF Neat
<1> HIDE DEF r
<1>4. ASSUME NEW v, v = u
      PROVE  /\ Neat(t) /\ Session!Members(t.stack) = Session!Members(v.stack)
             /\ t.mini = v.mini \ {w} /\ Len(t.stack) # 0 /\ t.stack[Len(t.stack)] = w
             /\ \A x, y \in SessionApps \ {w} :
                  Session!Below(t.stack, x, y) <=> Session!Below(v.stack, x, y)
  <2>1. /\ Stack(v.stack) /\ v.mini \subseteq SessionApps /\ w \in Session!Members(v.stack)
        /\ v.focus = w => v.stack[Len(v.stack)] = w
    BY <1>1, <1>2, <1>3, <1>4
  <2>2. v = [stack |-> v.stack, focus |-> v.focus, mini |-> v.mini] /\ t = Session!SetFocus(v, w)
    BY <1>1, <1>4
  <2> HIDE <1>4
  <2>3. Neat(t) /\ Session!Members(t.stack) = Session!Members(v.stack)
    BY <2>1, <2>2, FocusMoved
  <2>4. t.mini = v.mini \ {w}
    BY <2>1, <2>2, FocusMoved
  <2>6. Len(t.stack) # 0
    BY <2>1, <2>2, FocusMoved
  <2>7. t.stack[Len(t.stack)] = w
    BY <2>1, <2>2, FocusMoved
  <2>5. \A x, y \in SessionApps \ {w} :
          Session!Below(t.stack, x, y) <=> Session!Below(v.stack, x, y)
    BY <2>1, <2>2, FocusMoved
  <2> QED BY <2>3, <2>4, <2>5, <2>6, <2>7
<1>5. /\ Neat(t) /\ Session!Members(t.stack) = Session!Members(u.stack)
      /\ t.mini = u.mini \ {w} /\ Len(t.stack) # 0 /\ t.stack[Len(t.stack)] = w
      /\ \A x, y \in SessionApps \ {w} :
           Session!Below(t.stack, x, y) <=> Session!Below(u.stack, x, y)
  BY <1>4
<1>6. Session!Members(t.stack) = Session!Members(s.stack) \cup {w}
  BY <1>1, <1>2, <1>5
<1>7. \A x : x \in Session!Members(t.stack) <=> x = w \/ x \in Session!Members(s.stack)
  BY <1>6
<1>8. t.mini = s.mini \ {w} /\ Neat(t)
  BY <1>1, <1>5
<1>9. \A x, y \in SessionApps \ {w} :
        Session!Below(t.stack, x, y) <=> Session!Below(s.stack, x, y)
  BY <1>1, <1>2, <1>5
<1> QED BY <1>5, <1>7, <1>8, <1>9

\* All windows are minimized at once.
LEMMA AllMinimizedNeat ==
  ASSUME NEW s, Neat(s), NEW t, t = [stack |-> s.stack, focus |-> NoApp, mini |-> Session!Members(s.stack)]
  PROVE  Neat(t) /\ t.stack = s.stack
<1>1. /\ t.stack = s.stack /\ t.focus = NoApp /\ t.mini = Session!Members(s.stack)
      /\ t = [stack |-> t.stack, focus |-> t.focus, mini |-> t.mini]
  BY DEF Neat
<1>2. DOMAIN s.stack = 1..Len(s.stack) /\ \A i \in 1..Len(s.stack) : s.stack[i] \in SessionApps
  BY ElementOfSeq, LenProperties DEF Neat, Stack
<1>3. t.mini \subseteq SessionApps /\ \A i \in 1..Len(t.stack) : t.stack[i] \in t.mini
  BY <1>1, <1>2 DEF Session!Members
<1> QED BY <1>1, <1>3 DEF Neat, FocusIsOnTop

\* What is saved of a window.
WindowRecords == [app : SessionApps, mini : BOOLEAN, focused : BOOLEAN]

\* No window is saved twice.
SavedOnce ==
  /\ sessionSaved \in Seq(WindowRecords)
  /\ \A i, j \in 1..Len(sessionSaved) : sessionSaved[i].app = sessionSaved[j].app => i = j

\* The records still to be reopened are the last ones of those that were saved.
LastOfSaved ==
  /\ todo \in Seq(WindowRecords) /\ Len(todo) <= Len(sessionSaved)
  /\ \A i \in 1..Len(todo) : todo[i] = sessionSaved[(Len(sessionSaved) - Len(todo)) + i]

\* What a page has open, and what it still has to open, is what the person had.
PageInv ==
  \/ /\ page = "starting" /\ open = {} /\ mounting = {} /\ closing = {}
     /\ awaited = Session!NoRecord /\ target = NoApp /\ saveTimer = FALSE
     /\ had = Session!AppsOf(sessionSaved)
  \/ /\ page = "restoring" /\ closing = {} /\ LastOfSaved
     /\ had = open \cup Session!AppsOf(todo) /\ Session!AppsOf(todo) \cap open = {}
     /\ awaited = Session!NoRecord \/ (awaited \in WindowRecords /\ awaited.app \in open)
     /\ target \in open \cup {NoApp}
  \/ page = "up" /\ awaited = Session!NoRecord /\ had = open

\* The inductive invariant of the session.
SessionInv ==
  /\ Neat(Session!Now) /\ Session!Members(stack) = open
  /\ running \subseteq open /\ closing \subseteq open
  /\ SavedOnce /\ PageInv

\* Nothing is left out of what is saved, or reopened, when there is nothing to leave out.
LEMMA AllAmong ==
  ASSUME NEW s, NEW S, Session!Members(s) \subseteq S
  PROVE  Session!Among(s, S) = s
  BY DEF Session!Among

\* serialize() writes a record for each window of the stack, bottom first.
LEMMA SavesTheStack ==
  ASSUME NEW st, Stack(st), NEW f, NEW m, NEW ent, Session!Members(st) = ent,
         Session!Saves(st, f, m, ent)
  PROVE  /\ SavedOnce' /\ Len(sessionSaved') = Len(st) /\ Len(st) \in Nat
         /\ Session!AppsOf(sessionSaved') = ent
         /\ \A i \in 1..Len(st) :
              /\ sessionSaved'[i].app = st[i]
              /\ sessionSaved'[i].mini = (st[i] \in m)
              /\ sessionSaved'[i].focused = (st[i] = f)
<1> DEFINE n == Len(st)
<1>1. Session!Among(st, ent) = st
  BY AllAmong
<1>2. sessionSaved' = [i \in DOMAIN st |-> [app |-> st[i], mini |-> st[i] \in m, focused |-> st[i] = f]]
  BY <1>1 DEF Session!Saves
<1>3. st \in Seq(SessionApps) /\ DOMAIN st = 1..n /\ n \in Nat /\ \A i \in 1..n : st[i] \in SessionApps
  BY ElementOfSeq, LenProperties DEF Stack
<1>4. \A i, j \in 1..n : st[i] = st[j] => i = j
  BY DEF Stack
<1> HIDE DEF n
<1>5. sessionSaved' = [i \in 1..n |-> [app |-> st[i], mini |-> st[i] \in m, focused |-> st[i] = f]]
  BY <1>2, <1>3
<1> DEFINE r(i) == [app |-> st[i], mini |-> st[i] \in m, focused |-> st[i] = f]
<1>6. ASSUME NEW i \in 1..n
      PROVE  /\ r(i) \in WindowRecords /\ r(i).app = st[i]
             /\ r(i).mini = (st[i] \in m) /\ r(i).focused = (st[i] = f)
  <2>1. st[i] \in SessionApps
    BY <1>3
  <2>2. (st[i] \in m) \in BOOLEAN /\ (st[i] = f) \in BOOLEAN
    OBVIOUS
  <2>3. r(i) \in WindowRecords
    BY <2>1, <2>2 DEF WindowRecords
  <2> QED BY <2>3
<1>7. sessionSaved' = [i \in 1..n |-> r(i)]
  BY <1>5
<1> HIDE DEF r
<1>8. sessionSaved' \in Seq(WindowRecords) /\ Len(sessionSaved') = n /\ DOMAIN sessionSaved' = 1..n
  BY <1>3, <1>6, <1>7
<1>9. \A i \in 1..n : sessionSaved'[i] = r(i)
  BY <1>7
<1>10. \A i \in 1..n : sessionSaved'[i].app = st[i]
  BY <1>6, <1>9
<1>11. SavedOnce'
  BY <1>4, <1>8, <1>10 DEF SavedOnce
<1>12. Session!AppsOf(sessionSaved') = ent
  BY <1>3, <1>8, <1>10 DEF Session!AppsOf, Session!Members
<1> QED BY <1>3, <1>6, <1>8, <1>9, <1>10, <1>11, <1>12 DEF n

\* The state of the windows, as a record, before and after a step.
LEMMA NowIs ==
  /\ Session!Now.stack = stack /\ Session!Now.focus = focus /\ Session!Now.mini = mini
  /\ Session!Now = [stack |-> stack, focus |-> focus, mini |-> mini]
  BY DEF Session!Now

\* Windows that become those of a record are as neat.
LEMMA BecomesNeat ==
  ASSUME NEW s, Neat(s), Session!Becomes(s)
  PROVE  Neat(Session!Now)' /\ stack' = s.stack /\ focus' = s.focus /\ mini' = s.mini
<1>1. stack' = s.stack /\ focus' = s.focus /\ mini' = s.mini
  BY DEF Session!Becomes
<1>2. s = [stack |-> s.stack, focus |-> s.focus, mini |-> s.mini]
  BY DEF Neat
<1>3. Session!Now' = [stack |-> stack', focus |-> focus', mini |-> mini']
  BY DEF Session!Now
<1>4. Session!Now' = s
  BY <1>1, <1>2, <1>3
<1>5. Neat(Session!Now')
  BY <1>4
<1>6. Neat(Session!Now)' <=> Neat(Session!Now')
  BY DEF Neat, FocusIsOnTop
<1> QED BY <1>1, <1>5, <1>6

\* A desktop begins without windows.
LEMMA SessionBegins == NoApp \notin SessionApps /\ Session!Init => SessionInv
<1> SUFFICES ASSUME NoApp \notin SessionApps, Session!Init PROVE SessionInv
  OBVIOUS
<1>1. /\ stack = <<>> /\ open = {} /\ focus = NoApp /\ mini = {} /\ running = {} /\ closing = {}
      /\ sessionSaved = <<>> /\ page = "up" /\ awaited = Session!NoRecord /\ had = {}
  BY DEF Session!Init, Session!Empty
<1>2. Len(<<>>) = 0 /\ <<>> \in Seq(SessionApps) /\ <<>> \in Seq(WindowRecords) /\ 1..0 = {}
  OBVIOUS
<1>3. Stack(stack) /\ Len(stack) = 0
  BY <1>1, <1>2 DEF Stack
<1>4. Session!Members(stack) = {}
  BY <1>1 DEF Session!Members
<1>5. Neat(Session!Now)
  BY <1>1, <1>2, <1>3, NowIs DEF Neat, FocusIsOnTop
<1>6. SavedOnce
  BY <1>1, <1>2 DEF SavedOnce
<1> QED BY <1>1, <1>4, <1>5, <1>6 DEF SessionInv, PageInv

\* What is saved of a page that is up is what the person has open; a page that is being
\* restored leaves what was saved as it is.
LEMMA SessionSaves ==
  ASSUME SessionInv, page # "starting", Session!SaveSessionNow
  PROVE  /\ SavedOnce' /\ (page = "restoring" => sessionSaved' = sessionSaved)
         /\ (page = "up" => Session!AppsOf(sessionSaved') = had)
<1>1. CASE page = "restoring"
  BY <1>1 DEF Session!SaveSessionNow, Session!SaveSuppressed, SessionInv, SavedOnce
<1>2. CASE page # "restoring"
  <2>1. Session!Saves(stack, focus, mini, open)
    BY <1>2 DEF Session!SaveSessionNow, Session!SaveSuppressed
  <2>2. Stack(stack) /\ Session!Members(stack) = open
    BY NowIs DEF SessionInv, Neat
  <2>3. SavedOnce' /\ Session!AppsOf(sessionSaved') = open
    BY <2>1, <2>2, SavesTheStack
  <2>4. had = open
    BY <1>2 DEF SessionInv, PageInv
  <2> QED BY <1>2, <2>3, <2>4
<1> QED BY <1>1, <1>2

\* Saving changes nothing else.
LEMMA SessionSaved ==
  ASSUME SessionInv, page # "starting", Session!SaveSessionNow,
         UNCHANGED <<page, Session!windowVars, Session!restoreVars, Session!personVars>>
  PROVE  SessionInv'
<1>1. SavedOnce' /\ (page = "restoring" => sessionSaved' = sessionSaved)
  BY SessionSaves
<1>2. Neat(Session!Now)'
  BY DEF Session!windowVars, Session!Now, SessionInv, Neat, FocusIsOnTop
<1>3. PageInv'
  BY <1>1 DEF SessionInv, PageInv, LastOfSaved, Session!windowVars, Session!restoreVars,
     Session!personVars, Session!NoRecord, Session!AppsOf
<1> QED BY <1>1, <1>2, <1>3 DEF SessionInv, Session!windowVars

\* A window is opened: on top, with the focus, under a name that no window has.
LEMMA SessionOpens ==
  ASSUME NoApp \notin SessionApps, SessionInv, NEW a \in SessionApps, a \notin open, Session!Opens(a)
  PROVE  /\ Neat(Session!Now)' /\ Session!Members(stack)' = open' /\ open' = open \cup {a}
         /\ running' \subseteq open' /\ closing' \subseteq open' /\ closing' = closing
         /\ mini' = mini \ {a} /\ Len(stack') # 0 /\ stack'[Len(stack')] = a
         /\ \A x, y \in SessionApps \ {a} : Session!Below(stack', x, y) <=> Session!Below(stack, x, y)
<1> DEFINE u == [stack |-> Append(stack, a), focus |-> focus, mini |-> mini]
           t == Session!SetFocus(u, a)
<1>1. Session!Becomes(t)
  BY DEF Session!Opens
<1>2. Neat(Session!Now) /\ a \notin Session!Members(stack)
  BY DEF SessionInv
<1>3. u = [stack |-> Append(Session!Now.stack, a), focus |-> Session!Now.focus, mini |-> Session!Now.mini]
  BY NowIs
<1>4. a \notin Session!Members(Session!Now.stack)
  BY <1>2, NowIs
<1> HIDE DEF u, t
<1>5. /\ Neat(t) /\ Session!Members(t.stack) = Session!Members(stack) \cup {a}
      /\ t.mini = mini \ {a} /\ Len(t.stack) # 0 /\ t.stack[Len(t.stack)] = a
      /\ \A x, y \in SessionApps \ {a} : Session!Below(t.stack, x, y) <=> Session!Below(stack, x, y)
  <2> DEFINE s == Session!Now
  <2>1. s.stack = stack /\ s.mini = mini
    BY NowIs
  <2>2. /\ Neat(s) /\ a \notin Session!Members(s.stack)
        /\ u = [stack |-> Append(s.stack, a), focus |-> s.focus, mini |-> s.mini]
    BY <1>2, <1>3, <1>4
  <2>3. t = Session!SetFocus(u, a)
    BY DEF t
  <2> HIDE DEF s
  <2>4. Neat(t)
    BY <2>2, <2>3, OpenedNeat
  <2>9. \A x : x \in Session!Members(t.stack) <=> x = a \/ x \in Session!Members(s.stack)
    BY <2>2, <2>3, OpenedNeat, SMTT(60)
  <2>10. Session!Members(t.stack) = Session!Members(s.stack) \cup {a}
    BY <2>9
  <2>5. t.mini = s.mini \ {a}
    BY <2>2, <2>3, OpenedNeat
  <2>6. Len(t.stack) # 0
    BY <2>2, <2>3, OpenedNeat
  <2>7. t.stack[Len(t.stack)] = a
    BY <2>2, <2>3, OpenedNeat
  <2>8. \A x, y \in SessionApps \ {a} :
          Session!Below(t.stack, x, y) <=> Session!Below(s.stack, x, y)
    BY <2>2, <2>3, OpenedNeat
  <2> QED BY <2>1, <2>4, <2>5, <2>6, <2>7, <2>8, <2>10
<1>6. Neat(Session!Now)' /\ stack' = t.stack /\ mini' = t.mini
  BY <1>1, <1>5, BecomesNeat
<1>7. open' = open \cup {a} /\ running' = running /\ closing' = closing
  BY DEF Session!Opens
<1>8. Session!Members(stack)' = Session!Members(stack')
  BY DEF Session!Members
<1>9. Session!Members(stack)' = open'
  BY <1>5, <1>6, <1>7, <1>8 DEF SessionInv
<1>10. running \subseteq open /\ closing \subseteq open
  BY DEF SessionInv
<1> QED BY <1>5, <1>6, <1>7, <1>9, <1>10

\* The person opens a window.
LEMMA SessionLaunches ==
  ASSUME NoApp \notin SessionApps, ~Impatient, SessionInv, NEW a \in SessionApps, Session!Launch(a)
  PROVE  SessionInv'
<1>1. a \notin open /\ Session!Opens(a) /\ page # "starting" /\ a \notin Session!AppsOf(todo)
  BY DEF Session!Launch, Session!Uses, Session!AppsOf
<1>2. had' = had \cup {a} /\ UNCHANGED <<page, sessionSaved, todo, awaited, target>>
  BY DEF Session!Launch, Session!restoreVars
<1>3. /\ Neat(Session!Now)' /\ Session!Members(stack)' = open' /\ open' = open \cup {a}
      /\ running' \subseteq open' /\ closing' \subseteq open' /\ closing' = closing
  BY <1>1, SessionOpens
<1>4. SavedOnce'
  BY <1>2 DEF SessionInv, SavedOnce
<1>5. Session!AppsOf(todo)' = Session!AppsOf(todo) /\ (LastOfSaved => LastOfSaved')
  BY <1>2 DEF Session!AppsOf, LastOfSaved
<1>6. PageInv'
  <2>1. CASE page = "up"
    BY <1>2, <1>3, <2>1 DEF SessionInv, PageInv, Session!NoRecord
  <2>2. CASE page = "restoring"
    BY <1>1, <1>2, <1>3, <1>5, <2>2 DEF SessionInv, PageInv, Session!NoRecord
  <2> QED BY <1>1, <2>1, <2>2 DEF SessionInv, PageInv
<1> QED BY <1>3, <1>4, <1>6 DEF SessionInv

\* A record of the session is of an application; that of no window is of none.
LEMMA RecordsAre ==
  ASSUME NoApp \notin SessionApps
  PROVE  /\ Session!NoRecord.app = NoApp /\ Session!NoRecord.mini = FALSE
         /\ Session!NoRecord.focused = FALSE
         /\ Session!NoRecord \notin WindowRecords /\ \A r \in WindowRecords : r.app \in SessionApps
  BY DEF Session!NoRecord, WindowRecords

\* A window that was restored minimized is minimized once it has mounted.
LEMMA SessionMinimizesAtLast ==
  ASSUME NoApp \notin SessionApps, SessionInv, NEW a \in SessionApps,
         awaited.app = a => a \in open, Session!MinimizedAtLast(a)
  PROVE  /\ Neat(Session!Now)' /\ Session!Members(stack') = open
         /\ ~(awaited.app = a /\ awaited.mini) => UNCHANGED <<stack, focus, mini>>
         /\ awaited.app = a /\ awaited.mini =>
              mini' = mini \cup {a} /\ SameOrder(stack', stack, mini')
<1>1. CASE awaited.app = a /\ awaited.mini
  <2> DEFINE s == Session!Now  t == Session!Minimized(s, a)
  <2>1. Session!Becomes(t)
    BY <1>1 DEF Session!MinimizedAtLast
  <2>2. Neat(s) /\ s.stack = stack /\ s.mini = mini /\ a \in Session!Members(s.stack)
    BY <1>1, NowIs DEF SessionInv
  <2>3. t = Session!Minimized(s, a)
    OBVIOUS
  <2> HIDE DEF s, t
  <2>4. Neat(t) /\ Session!Members(t.stack) = Session!Members(s.stack)
    BY <2>2, <2>3, MinimizedNeat
  <2>5. t.mini = s.mini \cup {a} /\ SameOrder(t.stack, s.stack, t.mini)
    BY <2>2, <2>3, MinimizedNeat
  <2>6. Neat(Session!Now)' /\ stack' = t.stack /\ mini' = t.mini
    BY <2>1, <2>4, BecomesNeat
  <2> QED BY <1>1, <2>2, <2>4, <2>5, <2>6 DEF SessionInv
<1>2. CASE ~(awaited.app = a /\ awaited.mini)
  <2>1. UNCHANGED <<stack, focus, mini>>
    BY <1>2 DEF Session!MinimizedAtLast
  <2>2. Neat(Session!Now)'
    BY <2>1 DEF Session!Now, SessionInv, Neat, FocusIsOnTop
  <2> QED BY <1>2, <2>1, <2>2 DEF SessionInv
<1> QED BY <1>1, <1>2

\* Who is awaited is open.
LEMMA AwaitedIsOpen ==
  ASSUME NoApp \notin SessionApps, SessionInv, NEW a \in SessionApps, awaited.app = a
  PROVE  page = "restoring" /\ a \in open
  BY RecordsAre DEF SessionInv, PageInv

\* Nothing else is awaited by the session than the window that is being restored.
LEMMA SessionReturns ==
  ASSUME NoApp \notin SessionApps, SessionInv, NEW a \in SessionApps,
         \/ Session!Returned(a)
         \/ awaited' = (IF awaited.app = a THEN Session!NoRecord ELSE awaited) /\ target' = target,
         UNCHANGED <<page, sessionSaved, open, closing, todo, had>>, saveTimer' \in BOOLEAN,
         mounting' = mounting \ {a}, a \in mounting
  PROVE  SavedOnce' /\ PageInv'
<1>1. SavedOnce'
  BY DEF SessionInv, SavedOnce
<1>2. awaited' = awaited \/ awaited' = Session!NoRecord
  BY DEF Session!Returned
<1>3. target' = target \/ (awaited.app = a /\ target' = a)
  BY DEF Session!Returned
<1>4. target' \in open \cup {NoApp} \/ target' = target
  BY <1>3, AwaitedIsOpen
<1>5. Session!AppsOf(todo)' = Session!AppsOf(todo) /\ (LastOfSaved => LastOfSaved')
  BY DEF Session!AppsOf, LastOfSaved
<1>6. PageInv'
  <2>0. page # "starting"
    BY DEF SessionInv, PageInv
  <2>1. CASE page = "up"
    BY <1>2, <2>1 DEF SessionInv, PageInv, Session!NoRecord
  <2>2. CASE page = "restoring"
    <3>1. /\ closing = {} /\ LastOfSaved /\ had = open \cup Session!AppsOf(todo)
          /\ Session!AppsOf(todo) \cap open = {} /\ target \in open \cup {NoApp}
          /\ awaited = Session!NoRecord \/ (awaited \in WindowRecords /\ awaited.app \in open)
      BY <2>2 DEF SessionInv, PageInv
    <3>2. awaited' = Session!NoRecord' \/ (awaited' \in WindowRecords /\ awaited'.app \in open')
      BY <1>2, <3>1 DEF Session!NoRecord
    <3>3. target' \in open' \cup {NoApp}
      BY <1>4, <3>1
    <3>4. page' = "restoring" /\ closing' = {} /\ LastOfSaved' /\ open' = open /\ had' = had
      BY <1>5, <2>2, <3>1
    <3>5. (Session!AppsOf(todo))' = Session!AppsOf(todo)
      BY <1>5
    <3> QED BY <3>1, <3>2, <3>3, <3>4, <3>5 DEF PageInv
  <2> QED BY <2>0, <2>1, <2>2 DEF SessionInv, PageInv
<1> QED BY <1>1, <1>6

\* An application has mounted, or failed to.
LEMMA SessionMounts ==
  ASSUME NoApp \notin SessionApps, SessionInv, NEW a \in SessionApps,
         Session!MountReturns(a) \/ Session!MountThrows(a)
  PROVE  SessionInv'
<1>1. /\ a \in mounting /\ mounting' = mounting \ {a}
      /\ UNCHANGED <<page, sessionSaved, open, closing, todo, had>>
  BY DEF Session!MountReturns, Session!MountThrows, Session!personVars
<1>2. saveTimer' \in BOOLEAN
  BY DEF Session!MountReturns, Session!MountThrows, Session!ScheduleSave
<1>3. \/ Session!Returned(a)
      \/ awaited' = (IF awaited.app = a THEN Session!NoRecord ELSE awaited) /\ target' = target
  BY DEF Session!MountReturns, Session!MountThrows
<1>4. SavedOnce' /\ PageInv'
  BY <1>1, <1>2, <1>3, SessionReturns
<1>5. Session!MinimizedAtLast(a) \/ UNCHANGED <<stack, focus, mini>>
  BY DEF Session!MountReturns, Session!MountThrows
<1>6. Neat(Session!Now)' /\ Session!Members(stack') = open
  <2>1. CASE Session!MinimizedAtLast(a)
    BY <2>1, AwaitedIsOpen, SessionMinimizesAtLast
  <2>2. CASE UNCHANGED <<stack, focus, mini>>
    BY <2>2 DEF Session!Now, SessionInv, Neat, FocusIsOnTop
  <2> QED BY <1>5, <2>1, <2>2
<1>7. running' \subseteq open
  <2>1. running' = running \/ (a \in open /\ running' = running \cup {a})
    BY DEF Session!MountReturns, Session!MountThrows, Session!StillWanted
  <2> QED BY <2>1 DEF SessionInv
<1>8. Session!Members(stack)' = Session!Members(stack')
  BY DEF Session!Members
<1> QED BY <1>1, <1>4, <1>6, <1>7, <1>8 DEF SessionInv

\* A window that is open gets the focus.
LEMMA FocusNeat ==
  ASSUME NoApp \notin SessionApps, NEW s, Neat(s), NEW w \in Session!Members(s.stack),
         NEW t, t = Session!SetFocus(s, w)
  PROVE  /\ Neat(t) /\ Session!Members(t.stack) = Session!Members(s.stack)
         /\ t.focus = w /\ t.mini = s.mini \ {w} /\ Len(t.stack) # 0 /\ t.stack[Len(t.stack)] = w
         /\ \A x, y \in SessionApps \ {w} :
              Session!Below(t.stack, x, y) <=> Session!Below(s.stack, x, y)
<1>1. Stack(s.stack) /\ s.mini \subseteq SessionApps
  BY DEF Neat
<1>2. s = [stack |-> s.stack, focus |-> s.focus, mini |-> s.mini]
  BY DEF Neat
<1>3. w \in SessionApps
  BY <1>1, TakenOut
<1>4. s.focus = w => s.stack[Len(s.stack)] = w
  BY <1>3 DEF Neat, FocusIsOnTop
<1>5. Neat(t) /\ Session!Members(t.stack) = Session!Members(s.stack)
  BY <1>1, <1>2, <1>4, FocusMoved
<1>6. t.focus = w /\ t.mini = s.mini \ {w}
  BY <1>1, <1>2, <1>4, FocusMoved
<1>7. Len(t.stack) # 0 /\ t.stack[Len(t.stack)] = w
  BY <1>1, <1>2, <1>4, FocusMoved
<1>8. \A x, y \in SessionApps \ {w} : Session!Below(t.stack, x, y) <=> Session!Below(s.stack, x, y)
  BY <1>1, <1>2, <1>4, FocusMoved
<1> QED BY <1>5, <1>6, <1>7, <1>8

\* The person restacks the windows.
LEMMA SessionStacks ==
  ASSUME ~Impatient, SessionInv, NEW s, Neat(s), Session!Members(s.stack) = Session!Members(stack),
         Session!Stacks(s)
  PROVE  SessionInv'
<1>1. /\ page # "starting" /\ Session!Becomes(s)
      /\ UNCHANGED <<page, sessionSaved, open, mounting, running, closing, todo, awaited, target, had>>
  BY DEF Session!Stacks, Session!Uses, Session!restoreVars
<1>2. Neat(Session!Now)' /\ stack' = s.stack
  BY <1>1, BecomesNeat
<1>3. Session!Members(stack)' = Session!Members(stack)
  BY <1>2 DEF Session!Members
<1>4. SavedOnce'
  BY <1>1 DEF SessionInv, SavedOnce
<1>5. PageInv'
  BY <1>1 DEF SessionInv, PageInv, LastOfSaved, Session!NoRecord, Session!AppsOf
<1> QED BY <1>1, <1>2, <1>3, <1>4, <1>5 DEF SessionInv

\* The person focuses or minimizes a window.
LEMMA SessionFocuses ==
  ASSUME NoApp \notin SessionApps, ~Impatient, SessionInv, NEW a,
         Session!Focuses(a) \/ Session!Minimizes(a)
  PROVE  SessionInv'
<1> DEFINE s == Session!Now
<1>1. Neat(s) /\ s.stack = stack /\ a \in Session!Members(s.stack)
  BY NowIs DEF SessionInv, Session!Focuses, Session!Minimizes
<1>2. CASE Session!Focuses(a)
  <2> DEFINE t == Session!SetFocus(s, a)
  <2>1. Session!Stacks(t)
    BY <1>2 DEF Session!Focuses
  <2>2. t = Session!SetFocus(s, a)
    OBVIOUS
  <2> HIDE DEF s, t
  <2>3. Neat(t) /\ Session!Members(t.stack) = Session!Members(s.stack)
    BY <1>1, <2>2, FocusNeat
  <2> QED BY <1>1, <2>1, <2>3, SessionStacks
<1>3. CASE Session!Minimizes(a)
  <2> DEFINE t == Session!Minimized(s, a)
  <2>1. Session!Stacks(t)
    BY <1>3 DEF Session!Minimizes
  <2>2. t = Session!Minimized(s, a)
    OBVIOUS
  <2> HIDE DEF s, t
  <2>3. Neat(t) /\ Session!Members(t.stack) = Session!Members(s.stack)
    BY <1>1, <2>2, MinimizedNeat
  <2> QED BY <1>1, <2>1, <2>3, SessionStacks
<1> QED BY <1>2, <1>3

\* The windows are minimized together, or the focus goes round.
LEMMA SessionCycles ==
  ASSUME NoApp \notin SessionApps, ~Impatient, SessionInv, Session!MinimizeAll \/ Session!CycleFocus
  PROVE  SessionInv'
<1> DEFINE s == Session!Now
<1>1. Neat(s) /\ s.stack = stack
  BY NowIs DEF SessionInv
<1>2. CASE Session!MinimizeAll
  <2> DEFINE t == [stack |-> stack, focus |-> NoApp, mini |-> Session!Members(stack)]
  <2>1. Session!Stacks(t)
    BY <1>2 DEF Session!MinimizeAll
  <2>2. t = [stack |-> s.stack, focus |-> NoApp, mini |-> Session!Members(s.stack)]
    BY <1>1
  <2> HIDE DEF s, t
  <2>3. Neat(t) /\ t.stack = s.stack
    BY <1>1, <2>2, AllMinimizedNeat
  <2> QED BY <1>1, <2>1, <2>3, SessionStacks
<1>3. CASE Session!CycleFocus
  <2>1. PICK i \in DOMAIN stack : Session!Stacks(Session!SetFocus(s, stack[i]))
    BY <1>1, <1>3 DEF Session!CycleFocus, Session!Visible
  <2> DEFINE a == stack[i]  t == Session!SetFocus(s, a)
  <2>2. Session!Stacks(t) /\ t = Session!SetFocus(s, a)
    BY <2>1
  <2>3. a \in Session!Members(s.stack)
    BY <1>1 DEF Session!Members
  <2> HIDE DEF s, a, t
  <2>4. Neat(t) /\ Session!Members(t.stack) = Session!Members(s.stack)
    BY <1>1, <2>2, <2>3, FocusNeat
  <2> QED BY <1>1, <2>2, <2>4, SessionStacks
<1> QED BY <1>2, <1>3

\* The person wants a window closed, or its application does not.
LEMMA SessionCloses ==
  ASSUME ~Impatient, ~ClosesEarly, SessionInv, NEW a, Session!Closes(a) \/ Session!Vetoes(a)
  PROVE  SessionInv'
<1>1. /\ page = "up" /\ closing' \subseteq open
      /\ UNCHANGED <<page, sessionSaved, open, stack, focus, mini, mounting, running, todo, awaited,
                     target, had>>
  BY DEF Session!Closes, Session!Vetoes, Session!Uses, Session!restoreVars, Session!personVars,
     SessionInv, PageInv
<1>2. Neat(Session!Now)' /\ Session!Members(stack)' = Session!Members(stack)
  BY <1>1 DEF Session!Now, SessionInv, Neat, FocusIsOnTop, Session!Members
<1>3. SavedOnce'
  BY <1>1 DEF SessionInv, SavedOnce
<1>4. PageInv'
  BY <1>1 DEF SessionInv, PageInv, Session!NoRecord
<1> QED BY <1>1, <1>2, <1>3, <1>4 DEF SessionInv

\* A window is closed.
LEMMA SessionClosed ==
  ASSUME NoApp \notin SessionApps, ~ClosesEarly, SessionInv, NEW a, Session!Closed(a)
  PROVE  SessionInv'
<1> DEFINE s == Session!Now
           u == [stack |-> Session!Without(stack, a), focus |-> focus, mini |-> mini \ {a}]
           t == IF focus = a THEN Session!SetFocus(u, Session!TopmostVisible(u)) ELSE u
<1>1. /\ a \in closing /\ closing' = closing \ {a} /\ open' = open \ {a} /\ running' = running \ {a}
      /\ Session!Becomes(t) /\ had' = had \ {a}
      /\ UNCHANGED <<page, sessionSaved, mounting, todo, awaited, target>>
  BY DEF Session!Closed, Session!restoreVars
<1>2. page = "up" /\ a \in open
  BY <1>1 DEF SessionInv, PageInv
<1>3. /\ Neat(s) /\ s.stack = stack /\ s.focus = focus /\ s.mini = mini
      /\ a \in Session!Members(s.stack)
  BY <1>2, NowIs DEF SessionInv
<1>4. /\ u = [stack |-> Session!Without(s.stack, a), focus |-> s.focus, mini |-> s.mini \ {a}]
      /\ t = IF s.focus = a THEN Session!SetFocus(u, Session!TopmostVisible(u)) ELSE u
  BY <1>3
<1> HIDE DEF s, u, t
<1>5. Neat(t) /\ Session!Members(t.stack) = Session!Members(s.stack) \ {a}
  BY <1>3, <1>4, ClosedNeat
<1>6. Neat(Session!Now)' /\ stack' = t.stack
  BY <1>1, <1>5, BecomesNeat
<1>7. Session!Members(stack)' = open'
  <2>1. Session!Members(stack)' = Session!Members(stack')
    BY DEF Session!Members
  <2> QED BY <1>1, <1>3, <1>5, <1>6, <2>1 DEF SessionInv
<1>8. SavedOnce'
  BY <1>1 DEF SessionInv, SavedOnce
<1>9. PageInv'
  BY <1>1, <1>2 DEF SessionInv, PageInv, Session!NoRecord
<1> QED BY <1>1, <1>6, <1>7, <1>8, <1>9 DEF SessionInv

\* A page that is left, or gone, starts again with what was saved.
LEMMA SessionStartsAgain ==
  ASSUME SavedOnce', Session!NewPage, had' = Session!AppsOf(sessionSaved')
  PROVE  SessionInv'
<1>1. /\ page' = "starting" /\ open' = {} /\ stack' = <<>> /\ focus' = NoApp /\ mini' = {}
      /\ mounting' = {} /\ running' = {} /\ closing' = {} /\ awaited' = Session!NoRecord
      /\ target' = NoApp /\ saveTimer' = FALSE
  BY DEF Session!NewPage
<1>2. Len(<<>>) = 0 /\ <<>> \in Seq(SessionApps) /\ 1..0 = {}
  OBVIOUS
<1> DEFINE s == [stack |-> <<>>, focus |-> NoApp, mini |-> {}]
<1>3. s.stack = <<>> /\ s.focus = NoApp /\ s.mini = {}
  OBVIOUS
<1>4. Stack(s.stack) /\ FocusIsOnTop(s)
  BY <1>2, <1>3 DEF Stack, FocusIsOnTop
<1>5. Neat(s)
  BY <1>3, <1>4 DEF Neat
<1>6. Session!Becomes(s)
  BY <1>1, <1>3 DEF Session!Becomes
<1> HIDE DEF s
<1>7. Neat(Session!Now)'
  BY <1>5, <1>6, BecomesNeat
<1>8. Session!Members(stack)' = {}
  BY <1>1 DEF Session!Members
<1>9. PageInv'
  BY <1>1 DEF PageInv, Session!AppsOf, Session!NoRecord
<1> QED BY <1>1, <1>7, <1>8, <1>9 DEF SessionInv

\* The page is left, or the tab dies.
LEMMA SessionIsLeft ==
  ASSUME ~Impatient, SessionInv, Session!Reload \/ Session!TabDies
  PROVE  SessionInv'
<1>1. CASE Session!Reload
  <2>1. /\ page # "starting" /\ Session!SaveSessionNow /\ Session!NewPage
        /\ had' = IF page = "restoring" THEN Session!AppsOf(sessionSaved) ELSE had
    BY <1>1 DEF Session!Reload
  <2>2. /\ SavedOnce' /\ (page = "restoring" => sessionSaved' = sessionSaved)
        /\ (page = "up" => Session!AppsOf(sessionSaved') = had)
    BY <2>1, SessionSaves
  <2>3. page = "restoring" \/ page = "up"
    BY <2>1 DEF SessionInv, PageInv
  <2>4. had' = Session!AppsOf(sessionSaved')
    BY <2>1, <2>2, <2>3
  <2> QED BY <2>1, <2>2, <2>4, SessionStartsAgain
<1>2. CASE Session!TabDies
  <2>1. Session!NewPage /\ had' = Session!AppsOf(sessionSaved) /\ sessionSaved' = sessionSaved
    BY <1>2 DEF Session!TabDies
  <2>2. SavedOnce'
    BY <2>1 DEF SessionInv, SavedOnce
  <2> QED BY <2>1, <2>2, SessionStartsAgain
<1> QED BY <1>1, <1>2

\* restoreSession() takes all that was saved, for nothing is open yet.
LEMMA SessionReads ==
  ASSUME SessionInv, Session!Ready
  PROVE  SessionInv'
<1>1. /\ page = "starting" /\ page' = (IF sessionSaved = <<>> THEN "up" ELSE "restoring")
      /\ todo' = Session!Among(sessionSaved, {r \in Session!Members(sessionSaved) : r.app \notin open \cup mounting})
      /\ UNCHANGED <<sessionSaved, open, stack, focus, mini, mounting, running, closing, awaited,
                     target, had>>
  BY DEF Session!Ready, Session!windowVars, Session!personVars
<1>2. /\ open = {} /\ mounting = {} /\ closing = {} /\ awaited = Session!NoRecord /\ target = NoApp
      /\ had = Session!AppsOf(sessionSaved)
  BY <1>1 DEF SessionInv, PageInv
<1>3. todo' = sessionSaved
  <2>1. Session!Members(sessionSaved) \subseteq
          {r \in Session!Members(sessionSaved) : r.app \notin open \cup mounting}
    BY <1>2
  <2> QED BY <1>1, <2>1, AllAmong
<1>4. Neat(Session!Now)' /\ Session!Members(stack)' = Session!Members(stack) /\ SavedOnce'
  BY <1>1 DEF Session!Now, SessionInv, Neat, FocusIsOnTop, Session!Members, SavedOnce
<1>5. sessionSaved \in Seq(WindowRecords)
  BY DEF SessionInv, SavedOnce
<1>6. Len(sessionSaved) \in Nat /\ (sessionSaved = <<>> <=> Len(sessionSaved) = 0)
  BY <1>5, EmptySeq, LenProperties
<1>7. PageInv'
  <2>1. CASE sessionSaved = <<>>
    <3>1. Session!AppsOf(sessionSaved) = {}
      BY <2>1 DEF Session!AppsOf
    <3> QED BY <1>1, <1>2, <2>1, <3>1 DEF PageInv, Session!NoRecord
  <2>2. CASE sessionSaved # <<>>
    <3> DEFINE n == Len(sessionSaved)
    <3>1. n \in Nat
      BY <1>6
    <3> HIDE DEF n
    <3>2. \A i \in 1..n : (n - n) + i = i
      BY <3>1
    <3>3. n <= n
      BY <3>1
    <3>4. LastOfSaved'
      BY <1>1, <1>3, <1>5, <3>2, <3>3 DEF LastOfSaved, n
    <3>5. Session!AppsOf(todo)' = had' /\ open' = {}
      BY <1>1, <1>2, <1>3 DEF Session!AppsOf
    <3> QED BY <1>1, <1>2, <2>2, <3>4, <3>5 DEF PageInv, Session!NoRecord
  <2> QED BY <2>1, <2>2
<1> QED BY <1>1, <1>4, <1>7 DEF SessionInv

\* A record and those after it.
LEMMA NextToOpen ==
  ASSUME SavedOnce, LastOfSaved, todo # <<>>, todo' = Tail(todo), UNCHANGED sessionSaved
  PROVE  /\ Head(todo) \in WindowRecords /\ LastOfSaved'
         /\ Head(todo).app \in SessionApps /\ Head(todo).app \notin Session!AppsOf(todo')
         /\ Session!AppsOf(todo) = Session!AppsOf(todo') \cup {Head(todo).app}
         /\ Len(todo) = Len(todo') + 1 /\ Len(todo') \in Nat /\ Len(sessionSaved) \in Nat
         /\ Head(todo) = sessionSaved[Len(sessionSaved) - Len(todo')]
<1> DEFINE n == Len(sessionSaved)  m == Len(todo)  q == Tail(todo)
<1>1. /\ todo \in Seq(WindowRecords) /\ sessionSaved \in Seq(WindowRecords)
      /\ m <= n /\ \A i \in 1..m : todo[i] = sessionSaved[(n - m) + i]
  BY DEF LastOfSaved, SavedOnce
<1>2. m \in Nat /\ n \in Nat /\ m # 0 /\ DOMAIN todo = 1..m
  BY <1>1, EmptySeq, LenProperties
<1>3. /\ q \in Seq(WindowRecords) /\ Len(q) = m - 1 /\ DOMAIN q = 1..(m - 1) /\ Head(todo) = todo[1]
      /\ \A i \in 1..(m - 1) : q[i] = todo[i + 1]
  <2>1. q \in Seq(WindowRecords) /\ Len(q) = m - 1
    BY <1>1, HeadTailProperties
  <2>2. \A i \in 1..Len(q) : q[i] = todo[i + 1]
    BY <1>1, HeadTailProperties
  <2>3. Head(todo) = todo[1]
    BY <1>1
  <2> QED BY <2>1, <2>2, <2>3, LenProperties
<1>4. \A i, j \in 1..n : sessionSaved[i].app = sessionSaved[j].app => i = j
  BY DEF SavedOnce
<1>5. Head(todo) \in WindowRecords
  BY <1>1, <1>2, <1>3, ElementOfSeq
<1> HIDE DEF n, m, q
<1>6. 1 \in 1..m /\ \A i \in 1..(m - 1) : i + 1 \in 1..m /\ i + 1 # 1
  BY <1>2
<1>7. \A i \in 1..m : (n - m) + i \in 1..n
  BY <1>1, <1>2
<1>8. \A i, j \in 1..m : todo[i].app = todo[j].app => i = j
  <2> SUFFICES ASSUME NEW i \in 1..m, NEW j \in 1..m, todo[i].app = todo[j].app PROVE i = j
    OBVIOUS
  <2>1. (n - m) + i \in 1..n /\ (n - m) + j \in 1..n
    BY <1>7
  <2>2. (n - m) + i = (n - m) + j
    BY <1>1, <1>4, <2>1
  <2> QED BY <1>2, <2>2
<1>9. Head(todo).app \notin Session!AppsOf(q)
  <2> SUFFICES ASSUME Head(todo).app \in Session!AppsOf(q) PROVE FALSE
    OBVIOUS
  <2>1. PICK i \in 1..(m - 1) : q[i].app = Head(todo).app
    BY <1>3 DEF Session!AppsOf
  <2>2. i + 1 \in 1..m /\ i + 1 # 1 /\ todo[i + 1].app = todo[1].app
    BY <1>3, <1>6, <2>1
  <2> QED BY <1>6, <1>8, <2>2
<1>10. \A i \in 1..m : i = 1 \/ \E j \in 1..(m - 1) : i = j + 1
  <2> SUFFICES ASSUME NEW i \in 1..m, i # 1 PROVE \E j \in 1..(m - 1) : i = j + 1
    OBVIOUS
  <2>1. i - 1 \in 1..(m - 1) /\ i = (i - 1) + 1
    BY <1>2
  <2> QED BY <2>1
<1>11. Session!AppsOf(todo) = Session!AppsOf(q) \cup {Head(todo).app}
  <2>1. ASSUME NEW x \in Session!AppsOf(todo) PROVE x \in Session!AppsOf(q) \cup {Head(todo).app}
    <3>1. PICK i \in 1..m : x = todo[i].app
      BY <1>2 DEF Session!AppsOf
    <3>2. CASE i = 1
      BY <1>3, <3>1, <3>2
    <3>3. CASE i # 1
      <4>1. PICK j \in 1..(m - 1) : i = j + 1
        BY <1>10, <3>3
      <4> QED BY <1>3, <3>1, <4>1 DEF Session!AppsOf
    <3> QED BY <3>2, <3>3
  <2>2. ASSUME NEW x \in Session!AppsOf(q) PROVE x \in Session!AppsOf(todo)
    <3>1. PICK i \in 1..(m - 1) : x = q[i].app
      BY <1>3 DEF Session!AppsOf
    <3> QED BY <1>2, <1>3, <1>6, <3>1 DEF Session!AppsOf
  <2>3. Head(todo).app \in Session!AppsOf(todo)
    BY <1>2, <1>3, <1>6 DEF Session!AppsOf
  <2> QED BY <2>1, <2>2, <2>3
<1>12. \A i \in 1..(m - 1) : q[i] = sessionSaved[(n - (m - 1)) + i]
  <2> SUFFICES ASSUME NEW i \in 1..(m - 1) PROVE q[i] = sessionSaved[(n - (m - 1)) + i]
    OBVIOUS
  <2>1. i + 1 \in 1..m /\ q[i] = todo[i + 1]
    BY <1>3, <1>6
  <2>2. (n - m) + (i + 1) = (n - (m - 1)) + i
    BY <1>2
  <2>3. todo[i + 1] = sessionSaved[(n - m) + (i + 1)]
    BY <1>1, <2>1
  <2> QED BY <2>1, <2>2, <2>3
<1>13. m - 1 <= n /\ m - 1 \in Nat /\ m = (m - 1) + 1 /\ (n - m) + 1 = n - (m - 1)
  BY <1>1, <1>2
<1>14. todo' = q /\ sessionSaved' = sessionSaved /\ Len(sessionSaved) = n /\ Len(q) = m - 1
  BY <1>3 DEF q, n
<1>15. LastOfSaved'
  BY <1>3, <1>12, <1>13, <1>14 DEF LastOfSaved
<1>16. Head(todo) = sessionSaved[n - (m - 1)]
  BY <1>1, <1>3, <1>6, <1>13
<1>17. Head(todo).app \in SessionApps
  BY <1>5 DEF WindowRecords
<1>18. Len(todo) = m
  BY DEF m
<1> QED BY <1>2, <1>5, <1>9, <1>11, <1>13, <1>14, <1>15, <1>16, <1>17, <1>18

\* restoreSession() opens the window of the next record.
LEMMA SessionReopens ==
  ASSUME NoApp \notin SessionApps, SessionInv, Session!RestoresNext
  PROVE  SessionInv'
<1> DEFINE a == Head(todo).app
<1>1. /\ page = "restoring" /\ todo # <<>> /\ awaited' = Head(todo) /\ todo' = Tail(todo)
      /\ Session!Opens(a) /\ UNCHANGED <<page, sessionSaved, target, had>>
  BY DEF Session!RestoresNext, Session!personVars
<1>2. /\ SavedOnce /\ LastOfSaved /\ closing = {} /\ had = open \cup Session!AppsOf(todo)
      /\ Session!AppsOf(todo) \cap open = {} /\ target \in open \cup {NoApp}
  BY <1>1 DEF SessionInv, PageInv
<1>3. /\ Head(todo) \in WindowRecords /\ LastOfSaved' /\ a \in SessionApps
      /\ a \notin Session!AppsOf(todo') /\ Session!AppsOf(todo) = Session!AppsOf(todo') \cup {a}
  BY <1>1, <1>2, NextToOpen
<1> HIDE DEF a
<1>4. a \notin open
  BY <1>2, <1>3
<1>5. /\ Neat(Session!Now)' /\ Session!Members(stack)' = open' /\ open' = open \cup {a}
      /\ running' \subseteq open' /\ closing' \subseteq open' /\ closing' = closing
  BY <1>1, <1>3, <1>4, SessionOpens
<1>6. SavedOnce'
  BY <1>1, <1>2 DEF SavedOnce
<1>7. (Session!AppsOf(todo))' = Session!AppsOf(todo')
  BY DEF Session!AppsOf
<1>8. awaited' \in WindowRecords /\ awaited'.app \in open' /\ target' \in open' \cup {NoApp}
  BY <1>1, <1>2, <1>3, <1>5 DEF a
<1>9. had' = open' \cup Session!AppsOf(todo') /\ Session!AppsOf(todo') \cap open' = {}
  BY <1>1, <1>2, <1>3, <1>5
<1>10. PageInv'
  BY <1>1, <1>2, <1>3, <1>5, <1>7, <1>8, <1>9 DEF PageInv
<1> QED BY <1>5, <1>6, <1>10 DEF SessionInv

\* All is open again: the focus goes back to the window that had it.
LEMMA SessionEndsRestoring ==
  ASSUME NoApp \notin SessionApps, SessionInv, Session!RestoreEnds
  PROVE  SessionInv'
<1> DEFINE s == Session!Now
           t == IF target = NoApp THEN s ELSE Session!SetFocus(s, target)
<1>1. /\ page = "restoring" /\ awaited = Session!NoRecord /\ todo = <<>> /\ page' = "up"
      /\ Session!Becomes(t) /\ Session!Saves(t.stack, t.focus, t.mini, open)
      /\ UNCHANGED <<open, running, closing, awaited, had>>
  BY DEF Session!RestoreEnds, Session!restoreVars, Session!personVars
<1>2. /\ Neat(s) /\ s.stack = stack /\ Session!Members(s.stack) = open
      /\ target \in open \cup {NoApp} /\ had = open \cup Session!AppsOf(todo)
  BY <1>1, NowIs DEF SessionInv, PageInv
<1>3. Session!AppsOf(todo) = {}
  BY <1>1 DEF Session!AppsOf
<1>4. t = IF target = NoApp THEN s ELSE Session!SetFocus(s, target)
  OBVIOUS
<1> HIDE DEF s, t
<1>5. Neat(t) /\ Session!Members(t.stack) = open
  <2>1. CASE target = NoApp
    BY <1>2, <1>4, <2>1
  <2>2. CASE target # NoApp
    <3>1. t = Session!SetFocus(s, target) /\ target \in Session!Members(s.stack)
      BY <1>2, <1>4, <2>2
    <3> QED BY <1>2, <3>1, FocusNeat
  <2> QED BY <2>1, <2>2
<1>6. Neat(Session!Now)' /\ stack' = t.stack
  BY <1>1, <1>5, BecomesNeat
<1>7. SavedOnce'
  <2>1. Stack(t.stack)
    BY <1>5 DEF Neat
  <2> QED BY <1>1, <1>5, <2>1, SavesTheStack
<1>8. Session!Members(stack)' = open'
  <2>1. Session!Members(stack)' = Session!Members(stack')
    BY DEF Session!Members
  <2> QED BY <1>1, <1>5, <1>6, <2>1
<1>9. PageInv'
  BY <1>1, <1>2, <1>3 DEF PageInv, Session!NoRecord
<1> QED BY <1>1, <1>6, <1>7, <1>8, <1>9 DEF SessionInv

\* No step of the desktop loses a window of its session or shows one twice.
LEMMA SessionGoesOn ==
  ASSUME NoApp \notin SessionApps, ~Impatient, ~ClosesEarly, SessionInv,
         [Session!Next]_sessionVars
  PROVE  SessionInv'
<1>1. CASE UNCHANGED sessionVars
  <2>1. UNCHANGED <<page, sessionSaved, open, stack, focus, mini, mounting, running, closing, todo,
                    awaited, target, saveTimer, had>>
    BY <1>1 DEF sessionVars
  <2>2. Neat(Session!Now)' /\ Session!Members(stack)' = Session!Members(stack) /\ SavedOnce'
    BY <2>1 DEF Session!Now, SessionInv, Neat, FocusIsOnTop, Session!Members, SavedOnce
  <2>3. PageInv'
    BY <2>1 DEF SessionInv, PageInv, LastOfSaved, Session!NoRecord, Session!AppsOf
  <2> QED BY <2>1, <2>2, <2>3 DEF SessionInv
<1>2. ASSUME NEW a \in SessionApps,
             \/ Session!Launch(a) \/ Session!MountReturns(a) \/ Session!MountThrows(a)
             \/ Session!Closes(a) \/ Session!Vetoes(a) \/ Session!Closed(a)
             \/ Session!Focuses(a) \/ Session!Minimizes(a)
      PROVE  SessionInv'
  BY <1>2, SessionLaunches, SessionMounts, SessionCloses, SessionClosed, SessionFocuses
<1>3. CASE Session!MinimizeAll \/ Session!CycleFocus
  BY <1>3, SessionCycles
<1>4. CASE Session!SaveTimerFires \/ Session!Hidden
  <2>1. /\ page # "starting" /\ Session!SaveSessionNow
        /\ UNCHANGED <<page, Session!windowVars, Session!restoreVars, Session!personVars>>
    BY <1>4 DEF Session!SaveTimerFires, Session!Hidden, SessionInv, PageInv
  <2> QED BY <2>1, SessionSaved
<1>5. CASE Session!Reload \/ Session!TabDies
  BY <1>5, SessionIsLeft
<1>6. CASE Session!Ready \/ Session!RestoresNext \/ Session!RestoreEnds
  BY <1>6, SessionReads, SessionReopens, SessionEndsRestoring
<1>7. Session!Next \/ UNCHANGED sessionVars
  OBVIOUS
<1> QED BY <1>1, <1>2, <1>3, <1>4, <1>5, <1>6, <1>7 DEF Session!Next

\* Of the invariant: what comes back is what was open, and the stack is the windows.
LEMMA SessionHolds == NoApp \notin SessionApps /\ SessionInv => SessionSurvives
<1> SUFFICES ASSUME NoApp \notin SessionApps, SessionInv PROVE SessionSurvives
  OBVIOUS
<1> DEFINE n == Len(stack)  T == Session!Visible(Session!Now)
<1>1. /\ Stack(stack) /\ FocusIsOnTop(Session!Now) /\ Session!Members(stack) = open
      /\ running \subseteq open
  BY NowIs DEF SessionInv, Neat
<1>2. DOMAIN stack = 1..n /\ n \in Nat
  BY <1>1, LenProperties DEF Stack
<1>3. T = {i \in 1..n : stack[i] \notin mini}
  BY <1>2, NowIs DEF Session!Visible
<1>4. \/ focus = NoApp /\ \A i \in 1..n : stack[i] \in mini
      \/ n # 0 /\ focus = stack[n] /\ focus \notin mini
  BY <1>1, NowIs DEF FocusIsOnTop
<1> HIDE DEF n
<1>5. n # 0 => n \in 1..n
  BY <1>2
<1>6. IF T = {} THEN focus = NoApp ELSE focus = stack[n] /\ focus \notin mini
  BY <1>3, <1>4, <1>5
<1>7. Session!StackIsTheWindows
  BY <1>1, <1>2, <1>6 DEF Stack, Session!StackIsTheWindows, n
<1>8. Session!SessionSurvives
  BY DEF SessionInv, PageInv, Session!SessionSurvives
<1> QED BY <1>7, <1>8 DEF SessionSurvives

\* What a person had open comes back after a reload, and after a crash of the tab if it was
\* saved; and at every moment the stack holds the open windows, each once, with the focus on
\* top. It is so however often the page is left, also half restored, as long as the page is
\* left alone until its session has been read.
THEOREM SessionsSurvive == ASSUME ~Impatient, ~ClosesEarly PROVE Spec => []SessionSurvives
<1>1. NoApp \notin SessionApps
  BY ConstantsAssumption DEF Session!DesktopSessionAssumption
<1>2. Session!Init => SessionInv
  BY <1>1, SessionBegins
<1>3. SessionInv /\ [Session!Next]_sessionVars => SessionInv'
  BY <1>1, SessionGoesOn
<1>4. SessionInv => SessionSurvives
  BY <1>1, SessionHolds
<1> QED BY <1>2, <1>3, <1>4, SessionRuns, PTL

\* What was on the screen when the page was left is what was saved: the windows that were shown
\* in their order, and the focus with the last of them.
KeptIsSaved ==
  /\ kept.order \subseteq SessionApps \X SessionApps
  /\ \A x, y \in SessionApps :
       <<x, y>> \in kept.order <=>
         \E i, j \in 1..Len(sessionSaved) :
           /\ i <= j /\ sessionSaved[i].app = x /\ sessionSaved[j].app = y
           /\ ~sessionSaved[i].mini /\ ~sessionSaved[j].mini
  /\ \/ /\ kept.focus = NoApp
        /\ \A i \in 1..Len(sessionSaved) : sessionSaved[i].mini /\ ~sessionSaved[i].focused
     \/ \E n \in 1..Len(sessionSaved) :
          /\ kept.focus = sessionSaved[n].app
          /\ ~sessionSaved[n].mini /\ sessionSaved[n].focused
          /\ \A i \in 1..Len(sessionSaved) : i <= n /\ (sessionSaved[i].focused => i = n)

\* The first k windows that were saved are back, in their order, those that were minimized are
\* so again, and the one that had the focus is the target, but for the window that is awaited.
Restored(k) ==
  /\ \A x : x \in Session!Members(stack) <=> \E i \in 1..k : sessionSaved[i].app = x
  /\ \A i \in 1..k : sessionSaved[i].app \in mini <=>
                       sessionSaved[i].mini /\ awaited.app # sessionSaved[i].app
  /\ \A i, j \in 1..k : i <= j /\ ~sessionSaved[i].mini /\ ~sessionSaved[j].mini
                          => Session!Below(stack, sessionSaved[i].app, sessionSaved[j].app)
  /\ awaited = Session!NoRecord \/ \E i \in 1..k : awaited = sessionSaved[i]
  /\ \/ target = NoApp /\ \A i \in 1..k : sessionSaved[i].focused => awaited.app = sessionSaved[i].app
     \/ \E i \in 1..k : target = sessionSaved[i].app /\ sessionSaved[i].focused

\* How many windows are back.
Back == Len(sessionSaved) - Len(todo)

\* The inductive invariant of the stacking.
StackingInv ==
  kept.untouched => /\ page \in {"starting", "restoring"} => KeptIsSaved
                    /\ page = "restoring" => Restored(Back)

\* Where nothing of it changes it holds on.
LEMMA StackingStays ==
  ASSUME StackingInv,
         UNCHANGED <<page, sessionSaved, stack, mini, todo, awaited, target, kept>>
  PROVE  StackingInv'
<1>1. KeptIsSaved => KeptIsSaved'
  BY DEF KeptIsSaved
<1>2. Restored(Back) => Restored(Back)'
  BY DEF Restored, Back, Session!Members, Session!Below, Session!NoRecord
<1> QED BY <1>1, <1>2 DEF StackingInv

\* A page that is up, or on which the person did something, owes nothing.
LEMMA StackingOwesNothing ==
  ASSUME page' = "up" \/ ~kept'.untouched
  PROVE  StackingInv'
  BY DEF StackingInv

\* A page is left: what is saved is what is on the screen.
LEMMA StackingIsSaved ==
  ASSUME NoApp \notin SessionApps, ~Impatient, SessionInv, Session!Reload \/ Session!TabDies
  PROVE  StackingInv'
<1>1. CASE kept' = Session!Touched
  <2>1. ~kept'.untouched
    BY <1>1 DEF Session!Touched
  <2> QED BY <2>1, StackingOwesNothing
<1>2. CASE kept' # Session!Touched
  <2> DEFINE n == Len(stack)
  <2>1. /\ page = "up" /\ Session!SaveSessionNow /\ page' = "starting"
        /\ kept' = [order |-> Session!Order(stack, mini), focus |-> focus, untouched |-> TRUE]
    BY <1>2 DEF Session!Reload, Session!TabDies, Session!NewPage
  <2>2. Session!Saves(stack, focus, mini, open)
    BY <2>1 DEF Session!SaveSessionNow, Session!SaveSuppressed
  <2>3. Stack(stack) /\ Session!Members(stack) = open /\ FocusIsOnTop(Session!Now)
    BY NowIs DEF SessionInv, Neat
  <2>4. Len(sessionSaved') = n /\ n \in Nat
    BY <2>2, <2>3, SavesTheStack
  <2>5. \A i \in 1..n : /\ sessionSaved'[i].app = stack[i]
                        /\ sessionSaved'[i].mini = (stack[i] \in mini)
                        /\ sessionSaved'[i].focused = (stack[i] = focus)
    BY <2>2, <2>3, SavesTheStack
  <2>6. /\ DOMAIN stack = 1..n /\ \A i \in 1..n : stack[i] \in SessionApps
        /\ \A i, j \in 1..n : stack[i] = stack[j] => i = j
    BY <2>3, ElementOfSeq, LenProperties DEF Stack
  <2>7. \/ focus = NoApp /\ \A i \in 1..n : stack[i] \in mini
        \/ n # 0 /\ focus = stack[n] /\ focus \notin mini
    BY <2>3, NowIs DEF FocusIsOnTop
  <2> HIDE DEF n
  <2>8. kept'.order \subseteq SessionApps \X SessionApps
    BY <2>1 DEF Session!Order
  <2>9. ASSUME NEW x \in SessionApps, NEW y \in SessionApps
        PROVE  <<x, y>> \in kept'.order <=>
                 \E i, j \in 1..n :
                   /\ i <= j /\ sessionSaved'[i].app = x /\ sessionSaved'[j].app = y
                   /\ ~sessionSaved'[i].mini /\ ~sessionSaved'[j].mini
    <3>1. <<x, y>> \in kept'.order <=> x \notin mini /\ y \notin mini /\ Session!Below(stack, x, y)
      BY <2>1 DEF Session!Order
    <3>2. Session!Below(stack, x, y) <=> \E i, j \in 1..n : i <= j /\ stack[i] = x /\ stack[j] = y
      BY <2>6 DEF Session!Below
    <3>3. \A i \in 1..n : /\ sessionSaved'[i].app = stack[i]
                          /\ sessionSaved'[i].mini <=> stack[i] \in mini
      BY <2>5
    <3> QED BY <3>1, <3>2, <3>3
  <2>10. \/ /\ kept'.focus = NoApp
            /\ \A i \in 1..n : sessionSaved'[i].mini /\ ~sessionSaved'[i].focused
         \/ \E m \in 1..n :
              /\ kept'.focus = sessionSaved'[m].app
              /\ ~sessionSaved'[m].mini /\ sessionSaved'[m].focused
              /\ \A i \in 1..n : i <= m /\ (sessionSaved'[i].focused => i = m)
    <3>1. kept'.focus = focus
      BY <2>1
    <3>2. \A i \in 1..n : /\ sessionSaved'[i].mini <=> stack[i] \in mini
                          /\ sessionSaved'[i].focused <=> stack[i] = focus
      BY <2>5
    <3>3. CASE focus = NoApp /\ \A i \in 1..n : stack[i] \in mini
      BY <2>6, <3>1, <3>2, <3>3
    <3>4. CASE n # 0 /\ focus = stack[n] /\ focus \notin mini
      <4>1. n \in 1..n /\ \A i \in 1..n : i <= n
        BY <2>4, <3>4
      <4>2. kept'.focus = sessionSaved'[n].app /\ ~sessionSaved'[n].mini /\ sessionSaved'[n].focused
        BY <2>5, <3>1, <3>2, <3>4, <4>1
      <4>3. \A i \in 1..n : sessionSaved'[i].focused => i = n
        BY <2>6, <3>2, <3>4, <4>1
      <4> QED BY <4>1, <4>2, <4>3
    <3> QED BY <2>7, <3>3, <3>4
  <2>11. KeptIsSaved'
    BY <2>4, <2>8, <2>9, <2>10 DEF KeptIsSaved
  <2> QED BY <2>1, <2>11 DEF StackingInv
<1> QED BY <1>1, <1>2

\* The session has been read: no window is back yet.
LEMMA StackingIsRead ==
  ASSUME SessionInv, StackingInv, Session!Ready
  PROVE  StackingInv'
<1>1. /\ page = "starting" /\ (page' = "up" \/ page' = "restoring")
      /\ todo' = Session!Among(sessionSaved, {r \in Session!Members(sessionSaved) : r.app \notin open \cup mounting})
      /\ UNCHANGED <<sessionSaved, open, stack, awaited, target, kept>>
  BY DEF Session!Ready, Session!windowVars, Session!personVars
<1>2. open = {} /\ mounting = {} /\ awaited = Session!NoRecord /\ target = NoApp
  BY <1>1 DEF SessionInv, PageInv
<1>3. todo' = sessionSaved
  <2>1. Session!Members(sessionSaved) \subseteq
          {r \in Session!Members(sessionSaved) : r.app \notin open \cup mounting}
    BY <1>2
  <2> QED BY <1>1, <2>1, AllAmong
<1>4. KeptIsSaved => KeptIsSaved'
  BY <1>1 DEF KeptIsSaved
<1>5. Session!Members(stack)' = {}
  BY <1>1, <1>2 DEF SessionInv, Session!Members
<1>6. Back' = 0 /\ 1..0 = {}
  <2>1. Len(sessionSaved) \in Nat
    BY LenProperties DEF SessionInv, SavedOnce
  <2>2. Back' = Len(sessionSaved) - Len(sessionSaved)
    BY <1>1, <1>3 DEF Back
  <2> QED BY <2>1, <2>2
<1>7. Restored(Back)'
  BY <1>1, <1>2, <1>5, <1>6 DEF Restored, Session!NoRecord
<1> QED BY <1>1, <1>4, <1>7 DEF StackingInv

\* The next window is back, on top of those before it.
LEMMA StackingGrows ==
  ASSUME NoApp \notin SessionApps, SessionInv, StackingInv, Session!RestoresNext
  PROVE  StackingInv'
<1> DEFINE a == Head(todo).app  k == Back
<1>1. /\ page = "restoring" /\ todo # <<>> /\ awaited = Session!NoRecord /\ awaited' = Head(todo)
      /\ todo' = Tail(todo)
      /\ Session!Opens(a) /\ UNCHANGED <<page, sessionSaved, target, kept>>
  BY DEF Session!RestoresNext, Session!personVars
<1>2. SavedOnce /\ LastOfSaved /\ Session!AppsOf(todo) \cap open = {} /\ Session!Members(stack) = open
  BY <1>1 DEF SessionInv, PageInv
<1>3. /\ a \in SessionApps /\ Session!AppsOf(todo) = Session!AppsOf(todo') \cup {a}
      /\ Len(todo) = Len(todo') + 1 /\ Len(todo') \in Nat /\ Len(sessionSaved) \in Nat
      /\ Head(todo) = sessionSaved[Len(sessionSaved) - Len(todo')]
  BY <1>1, <1>2, NextToOpen
<1>4. a \notin open
  BY <1>2, <1>3
<1>5. Back' = k + 1 /\ sessionSaved[k + 1] = Head(todo) /\ k + 1 \in Nat /\ k \in Nat
  <2>1. Len(todo) <= Len(sessionSaved) /\ sessionSaved' = sessionSaved
    BY <1>1, <1>2 DEF LastOfSaved
  <2>2. (Len(sessionSaved) - Len(todo)) + 1 = Len(sessionSaved) - Len(todo')
    BY <1>3
  <2>3. Len(sessionSaved) - Len(todo) \in Nat
    BY <1>3, <2>1
  <2> QED BY <1>3, <2>1, <2>2, <2>3 DEF Back
<1>6. Neat(Session!Now)' /\ mini' = mini \ {a} /\ Len(stack') # 0 /\ stack'[Len(stack')] = a
  BY <1>1, <1>3, <1>4, SessionOpens
<1>7. Session!Members(stack)' = open' /\ open' = open \cup {a}
  BY <1>1, <1>3, <1>4, SessionOpens
<1>8. \A x, y \in SessionApps \ {a} : Session!Below(stack', x, y) <=> Session!Below(stack, x, y)
  BY <1>1, <1>3, <1>4, SessionOpens
<1>9. Stack(stack') /\ Session!Members(stack') = open \cup {a}
  <2>1. Session!Members(stack)' = Session!Members(stack')
    BY DEF Session!Members
  <2>2. Neat(Session!Now)' => Stack(stack')
    BY DEF Neat, Session!Now
  <2> QED BY <1>6, <1>7, <2>1, <2>2
<1>10. \A x \in open \cup {a} : Session!Below(stack', x, a)
  BY <1>6, <1>9, LastIsTop
<1>11. SUFFICES ASSUME kept.untouched PROVE KeptIsSaved' /\ Restored(Back)'
  BY <1>1, <1>5 DEF StackingInv
<1>12. KeptIsSaved'
  <2>1. KeptIsSaved
    BY <1>1, <1>11 DEF StackingInv
  <2> QED BY <1>1, <2>1 DEF KeptIsSaved
<1>13. Restored(k)
  BY <1>1, <1>11 DEF StackingInv
<1>14. /\ \A x : x \in open <=> \E i \in 1..k : sessionSaved[i].app = x
       /\ \A i \in 1..k : sessionSaved[i].app \in mini <=> sessionSaved[i].mini /\ NoApp # sessionSaved[i].app
       /\ \A i, j \in 1..k : i <= j /\ ~sessionSaved[i].mini /\ ~sessionSaved[j].mini
                               => Session!Below(stack, sessionSaved[i].app, sessionSaved[j].app)
  BY <1>1, <1>2, <1>13, RecordsAre DEF Restored
<1>15. \/ target = NoApp /\ \A i \in 1..k : sessionSaved[i].focused => NoApp = sessionSaved[i].app
       \/ \E i \in 1..k : target = sessionSaved[i].app /\ sessionSaved[i].focused
  BY <1>1, <1>13, RecordsAre DEF Restored
<1>16. open \subseteq SessionApps
  <2>1. Stack(stack)
    BY NowIs DEF SessionInv, Neat
  <2>2. \A x \in Session!Members(stack) : x \in SessionApps
    BY <2>1, TakenOut
  <2> QED BY <1>2, <2>2
<1> DEFINE at(i) == sessionSaved[i]
<1>17. at(k + 1).app = a /\ awaited' = at(k + 1) /\ awaited'.app = a
  BY <1>1, <1>5
<1>18. \A i \in 1..k : at(i).app \in open /\ at(i).app # a /\ at(i).app \in SessionApps /\ at(i).app # NoApp
  BY <1>4, <1>14, <1>16
<1>19. \A i : i \in 1..(k + 1) <=> i \in 1..k \/ i = k + 1
  BY <1>5
<1> HIDE DEF k, a, at
<1>20. \A x : x \in Session!Members(stack') <=> \E i \in 1..(k + 1) : at(i).app = x
  BY <1>9, <1>14, <1>17, <1>19 DEF at
<1>21. \A i \in 1..(k + 1) : at(i).app \in mini' <=> at(i).mini /\ awaited'.app # at(i).app
  <2>1. \A i \in 1..k : at(i).app \in mini <=> at(i).mini
    BY <1>14, <1>18 DEF at
  <2> QED BY <1>6, <1>17, <1>18, <1>19, <2>1
<1>22. ASSUME NEW i \in 1..(k + 1), NEW j \in 1..(k + 1), i <= j, ~at(i).mini, ~at(j).mini
       PROVE  Session!Below(stack', at(i).app, at(j).app)
  <2>1. CASE j = k + 1
    <3>1. at(i).app \in open \cup {a}
      BY <1>17, <1>18, <1>19
    <3> QED BY <1>10, <1>17, <2>1, <3>1
  <2>2. CASE j # k + 1
    <3>1. i \in 1..k /\ j \in 1..k
      BY <1>5, <1>22, <2>2
    <3> QED BY <1>8, <1>14, <1>18, <1>22, <3>1 DEF at
  <2> QED BY <2>1, <2>2
<1>23. \/ target' = NoApp /\ \A i \in 1..(k + 1) : at(i).focused => awaited'.app = at(i).app
       \/ \E i \in 1..(k + 1) : target' = at(i).app /\ at(i).focused
  <2>1. target' = target
    BY <1>1
  <2> QED BY <1>15, <1>17, <1>18, <1>19, <2>1 DEF at
<1>24. \E i \in 1..(k + 1) : awaited' = at(i)
  BY <1>17, <1>19
<1>25. Restored(Back)'
  <2>1. sessionSaved' = sessionSaved /\ Session!Members(stack)' = Session!Members(stack')
    BY <1>1 DEF Session!Members
  <2>2. \A x : x \in Session!Members(stack') <=> \E i \in 1..(k + 1) : sessionSaved'[i].app = x
    BY <1>20, <2>1 DEF at
  <2>3. \A i \in 1..(k + 1) : sessionSaved'[i].app \in mini' <=>
                                sessionSaved'[i].mini /\ awaited'.app # sessionSaved'[i].app
    BY <1>21, <2>1 DEF at
  <2>4. \A i, j \in 1..(k + 1) : i <= j /\ ~sessionSaved'[i].mini /\ ~sessionSaved'[j].mini
                        => Session!Below(stack', sessionSaved'[i].app, sessionSaved'[j].app)
    BY <1>22, <2>1 DEF at
  <2>5. \E i \in 1..(k + 1) : awaited' = sessionSaved'[i]
    BY <1>24, <2>1 DEF at
  <2>6. \/ target' = NoApp
           /\ \A i \in 1..(k + 1) : sessionSaved'[i].focused => awaited'.app = sessionSaved'[i].app
        \/ \E i \in 1..(k + 1) : target' = sessionSaved'[i].app /\ sessionSaved'[i].focused
    BY <1>23, <2>1 DEF at
  <2> QED BY <1>5, <2>2, <2>3, <2>4, <2>5, <2>6 DEF Restored, Session!Below, Session!Members
<1> QED BY <1>12, <1>25

\* The awaited window has mounted, or not: it is minimized now if it was when it was saved, and
\* gets the focus in the end if it had it.
LEMMA StackingMounts ==
  ASSUME NoApp \notin SessionApps, SessionInv, StackingInv, NEW a \in SessionApps,
         Session!MountReturns(a) \/ Session!MountThrows(a)
  PROVE  StackingInv'
<1> DEFINE k == Back
<1>1. UNCHANGED <<page, sessionSaved, todo, kept>>
  BY DEF Session!MountReturns, Session!MountThrows, Session!personVars
<1>2. CASE page = "up" \/ ~kept.untouched
  BY <1>1, <1>2 DEF StackingInv
<1>3. CASE awaited.app # a
  <2>1. UNCHANGED <<stack, mini, awaited, target>>
    BY <1>3 DEF Session!MountReturns, Session!MountThrows, Session!MinimizedAtLast, Session!Returned
  <2> QED BY <1>1, <2>1, StackingStays
<1>4. CASE awaited.app = a /\ kept.untouched /\ page # "up"
  <2>1. page = "restoring" /\ a \in open
    BY <1>4, AwaitedIsOpen
  <2>2. Session!MinimizedAtLast(a) /\ Session!Returned(a)
    BY <2>1 DEF Session!MountReturns, Session!MountThrows, Session!StillWanted
  <2>3. awaited' = Session!NoRecord /\ target' = IF awaited.focused THEN a ELSE target
    BY <1>4, <2>2 DEF Session!Returned
  <2>4. Session!Members(stack') = open /\ Session!Members(stack) = open
    BY <1>4, <2>1, <2>2, SessionMinimizesAtLast DEF SessionInv
  <2>5. ~awaited.mini => UNCHANGED <<stack, mini>>
    BY <1>4, <2>1, <2>2, SessionMinimizesAtLast
  <2>6. awaited.mini => mini' = mini \cup {a} /\ SameOrder(stack', stack, mini')
    BY <1>4, <2>1, <2>2, SessionMinimizesAtLast
  <2>7. KeptIsSaved /\ Restored(k)
    BY <1>4, <2>1 DEF StackingInv
  <2>8. KeptIsSaved'
    BY <1>1, <2>7 DEF KeptIsSaved
  <2>9. awaited # Session!NoRecord
    BY <1>4, RecordsAre
  <2>10. PICK m \in 1..k : awaited = sessionSaved[m]
    BY <2>7, <2>9 DEF Restored
  <2> DEFINE at(i) == sessionSaved[i]
  <2>11. \A x : x \in open <=> \E i \in 1..k : at(i).app = x
    BY <2>4, <2>7 DEF Restored
  <2>12. \A i \in 1..k : at(i).app \in mini <=> at(i).mini /\ a # at(i).app
    BY <1>4, <2>7 DEF Restored
  <2>13. \A i, j \in 1..k : i <= j /\ ~at(i).mini /\ ~at(j).mini
                              => Session!Below(stack, at(i).app, at(j).app)
    BY <2>7 DEF Restored
  <2>14. \/ target = NoApp /\ \A i \in 1..k : at(i).focused => a = at(i).app
         \/ \E i \in 1..k : target = at(i).app /\ at(i).focused
    BY <1>4, <2>7 DEF Restored
  <2>15. \A i \in 1..k : at(i).app = a => at(i) = awaited
    <3>1. k \in Nat /\ k <= Len(sessionSaved)
      <4>1. /\ todo \in Seq(WindowRecords) /\ sessionSaved \in Seq(WindowRecords)
            /\ Len(todo) <= Len(sessionSaved)
        BY <2>1 DEF SessionInv, PageInv, SavedOnce, LastOfSaved
      <4>2. Len(todo) \in Nat /\ Len(sessionSaved) \in Nat
        BY <4>1, LenProperties
      <4> QED BY <4>1, <4>2 DEF Back
    <3>2. Len(sessionSaved) \in Nat
      BY LenProperties DEF SessionInv, SavedOnce
    <3> HIDE DEF k
    <3>3. \A i \in 1..k : i \in 1..Len(sessionSaved)
      BY <3>1, <3>2
    <3>4. \A i, j \in 1..Len(sessionSaved) : sessionSaved[i].app = sessionSaved[j].app => i = j
      BY DEF SessionInv, SavedOnce
    <3>5. \A i \in 1..k : sessionSaved[i].app = a => i = m
      BY <1>4, <2>10, <3>3, <3>4
    <3> QED BY <2>10, <3>5
  <2>16. at(m) = awaited /\ at(m).app = a
    BY <1>4, <2>10
  <2>17. \A i \in 1..k : at(i).app \in SessionApps
    <3>1. open \subseteq SessionApps
      <4>1. Stack(stack)
        BY NowIs DEF SessionInv, Neat
      <4>2. \A x \in Session!Members(stack) : x \in SessionApps
        BY <4>1, TakenOut
      <4> QED BY <2>4, <4>2
    <3> QED BY <2>11, <3>1
  <2>18. awaited'.app = NoApp
    BY <2>3, RecordsAre
  <2>19. Back' = k
    BY <1>1 DEF Back
  <2> HIDE DEF k, at
  <2>20. \A i \in 1..k : at(i).app \in mini' <=> at(i).mini /\ awaited'.app # at(i).app
    <3> SUFFICES ASSUME NEW i \in 1..k PROVE at(i).app \in mini' <=> at(i).mini
      BY <2>17, <2>18
    <3>1. CASE at(i).app = a
      <4>1. at(i) = awaited /\ a \notin mini
        BY <2>12, <2>15, <3>1
      <4> QED BY <2>5, <2>6, <3>1, <4>1
    <3>2. CASE at(i).app # a
      BY <2>5, <2>6, <2>12, <3>2
    <3> QED BY <3>1, <3>2
  <2>21. ASSUME NEW i \in 1..k, NEW j \in 1..k, i <= j, ~at(i).mini, ~at(j).mini
         PROVE  Session!Below(stack', at(i).app, at(j).app)
    <3>1. Session!Below(stack, at(i).app, at(j).app)
      BY <2>13, <2>21
    <3>2. at(i).app \in SessionApps \ mini' /\ at(j).app \in SessionApps \ mini'
      BY <2>17, <2>20, <2>21
    <3>3. stack' = stack \/ SameOrder(stack', stack, mini')
      BY <2>5, <2>6
    <3> QED BY <3>1, <3>2, <3>3 DEF SameOrder
  <2>22. \/ target' = NoApp /\ \A i \in 1..k : at(i).focused => awaited'.app = at(i).app
         \/ \E i \in 1..k : target' = at(i).app /\ at(i).focused
    <3>1. CASE awaited.focused
      BY <2>3, <2>16, <3>1
    <3>2. CASE ~awaited.focused
      BY <2>3, <2>14, <2>15, <3>2
    <3> QED BY <3>1, <3>2
  <2>23. Restored(Back)'
    <3>1. sessionSaved' = sessionSaved
      BY <1>1
    <3>2. \A x : x \in Session!Members(stack') <=> \E i \in 1..k : sessionSaved'[i].app = x
      BY <2>4, <2>11, <3>1 DEF at
    <3>3. \A i \in 1..k : sessionSaved'[i].app \in mini' <=>
                            sessionSaved'[i].mini /\ awaited'.app # sessionSaved'[i].app
      BY <2>20, <3>1 DEF at
    <3>4. \A i, j \in 1..k : i <= j /\ ~sessionSaved'[i].mini /\ ~sessionSaved'[j].mini
                        => Session!Below(stack', sessionSaved'[i].app, sessionSaved'[j].app)
      BY <2>21, <3>1 DEF at
    <3>5. awaited' = Session!NoRecord'
      BY <2>3 DEF Session!NoRecord
    <3>6. \/ target' = NoApp
             /\ \A i \in 1..k : sessionSaved'[i].focused => awaited'.app = sessionSaved'[i].app
          \/ \E i \in 1..k : target' = sessionSaved'[i].app /\ sessionSaved'[i].focused
      BY <2>22, <3>1 DEF at
    <3> QED BY <2>19, <3>2, <3>3, <3>4, <3>5, <3>6 DEF Restored, Session!Below, Session!Members
  <2> QED BY <2>8, <2>23 DEF StackingInv
<1>5. page \in {"starting", "restoring", "up"}
  BY DEF SessionInv, PageInv
<1> QED BY <1>2, <1>3, <1>4

\* All that was saved is back: the screen is as it was left.
LEMMA StackingIsBack ==
  ASSUME NoApp \notin SessionApps, SessionInv, StackingInv, kept.untouched, Session!RestoreEnds
  PROVE  Session!Order(stack', mini') = kept.order /\ focus' = kept.focus
<1> DEFINE s == Session!Now
           t == IF target = NoApp THEN s ELSE Session!SetFocus(s, target)
           n == Len(sessionSaved)
           at(i) == sessionSaved[i]
<1>1. /\ page = "restoring" /\ awaited = Session!NoRecord /\ todo = <<>> /\ Session!Becomes(t)
  BY DEF Session!RestoreEnds
<1>2. /\ Neat(s) /\ Session!Members(s.stack) = open /\ target \in open \cup {NoApp} /\ SavedOnce
      /\ s.stack = stack /\ s.focus = focus /\ s.mini = mini
  BY <1>1, NowIs DEF SessionInv, PageInv
<1>3. KeptIsSaved /\ Restored(Back)
  BY <1>1 DEF StackingInv
<1>4. n \in Nat /\ Back = n
  <2>1. n \in Nat
    BY <1>2, LenProperties DEF SavedOnce
  <2>2. Len(todo) = 0
    BY <1>1
  <2> QED BY <2>1, <2>2 DEF Back
<1>5. \A x : x \in open <=> \E i \in 1..n : at(i).app = x
  BY <1>2, <1>3, <1>4 DEF Restored
<1>6. Stack(stack) /\ \A x \in open : x \in SessionApps /\ x # NoApp
  <2>1. Stack(stack)
    BY <1>2 DEF Neat
  <2> QED BY <1>2, <2>1, TakenOut
<1>7. \A i \in 1..n : at(i).app \in SessionApps /\ at(i).app \in open
  BY <1>5, <1>6
<1>8. \A i \in 1..n : at(i).app \in mini <=> at(i).mini
  <2>1. \A i \in 1..n : at(i).app \in mini <=> at(i).mini /\ NoApp # at(i).app
    BY <1>1, <1>3, <1>4, RecordsAre DEF Restored
  <2> QED BY <1>6, <1>7, <2>1
<1>9. \A i, j \in 1..n : i <= j /\ ~at(i).mini /\ ~at(j).mini
                           => Session!Below(stack, at(i).app, at(j).app)
  BY <1>3, <1>4 DEF Restored
<1>10. \/ target = NoApp /\ \A i \in 1..n : ~at(i).focused
       \/ \E i \in 1..n : target = at(i).app /\ at(i).focused
  <2>1. \/ target = NoApp /\ \A i \in 1..n : at(i).focused => NoApp = at(i).app
        \/ \E i \in 1..n : target = at(i).app /\ at(i).focused
    BY <1>1, <1>3, <1>4, RecordsAre DEF Restored
  <2> QED BY <1>6, <1>7, <2>1
<1>11. \A i, j \in 1..n : at(i).app = at(j).app => i = j
  BY <1>2 DEF SavedOnce
<1>12. /\ kept.order \subseteq SessionApps \X SessionApps
       /\ \A x, y \in SessionApps :
            <<x, y>> \in kept.order <=>
              \E i, j \in 1..n : i <= j /\ at(i).app = x /\ at(j).app = y /\ ~at(i).mini /\ ~at(j).mini
  BY <1>3 DEF KeptIsSaved
<1>13. \/ kept.focus = NoApp /\ \A i \in 1..n : at(i).mini /\ ~at(i).focused
       \/ \E m \in 1..n : /\ kept.focus = at(m).app /\ ~at(m).mini /\ at(m).focused
                          /\ \A i \in 1..n : i <= m /\ (at(i).focused => i = m)
  BY <1>3 DEF KeptIsSaved
<1>14. t = IF target = NoApp THEN s ELSE Session!SetFocus(s, target)
  OBVIOUS
<1>15. stack' = t.stack /\ focus' = t.focus /\ mini' = t.mini
  BY <1>1 DEF Session!Becomes
<1> HIDE DEF s, t, n, at
<1>16. focus' = kept.focus /\ mini' = mini /\ SameOrder(stack', stack, mini) /\ Session!Members(stack') = open
  <2>1. CASE kept.focus = NoApp /\ \A i \in 1..n : at(i).mini /\ ~at(i).focused
    <3>1. target = NoApp
      BY <1>10, <2>1
    <3>2. t = s
      BY <1>14, <3>1
    <3>3. stack' = stack /\ focus' = focus /\ mini' = mini
      BY <1>2, <1>15, <3>2
    <3>4. focus \in open => focus \in mini
      BY <1>5, <1>8, <2>1
    <3>5. focus = NoApp \/ (focus \notin mini /\ focus \in open)
      <4>1. focus = NoApp \/ (focus \notin mini /\ Len(stack) # 0 /\ focus = stack[Len(stack)])
        BY <1>2 DEF Neat, FocusIsOnTop
      <4> QED BY <1>2, <1>6, <4>1, LastIsTop
    <3>6. focus' = kept.focus
      BY <2>1, <3>3, <3>4, <3>5
    <3> QED BY <1>2, <3>3, <3>6 DEF SameOrder
  <2>2. ASSUME NEW m \in 1..n, kept.focus = at(m).app, ~at(m).mini, at(m).focused,
               \A i \in 1..n : i <= m /\ (at(i).focused => i = m)
        PROVE  focus' = kept.focus /\ mini' = mini /\ SameOrder(stack', stack, mini)
               /\ Session!Members(stack') = open
    <3> DEFINE w == at(m).app
    <3>1. target = w
      BY <1>10, <2>2
    <3>2. w \in open /\ w # NoApp /\ w \notin mini
      BY <1>6, <1>7, <1>8, <2>2
    <3>3. t = Session!SetFocus(s, w) /\ w \in Session!Members(s.stack)
      BY <1>2, <1>14, <3>1, <3>2
    <3> HIDE DEF w
    <3>4. Neat(t) /\ Session!Members(t.stack) = open /\ t.focus = w /\ t.mini = mini
      <4>1. Neat(t) /\ Session!Members(t.stack) = Session!Members(s.stack)
        BY <1>2, <3>3, FocusNeat
      <4>2. t.focus = w /\ t.mini = s.mini \ {w}
        BY <1>2, <3>3, FocusNeat
      <4> QED BY <1>2, <3>2, <4>1, <4>2
    <3>5. Len(t.stack) # 0 /\ t.stack[Len(t.stack)] = w
      BY <1>2, <3>3, FocusNeat
    <3>6. \A x, y \in SessionApps \ {w} : Session!Below(t.stack, x, y) <=> Session!Below(s.stack, x, y)
      BY <1>2, <3>3, FocusNeat
    <3>7. \A y \in Session!Members(stack) \ mini : Session!Below(stack, y, w)
      <4> SUFFICES ASSUME NEW y \in open \ mini PROVE Session!Below(stack, y, w)
        BY <1>2
      <4>1. PICK i \in 1..n : at(i).app = y
        BY <1>5
      <4>2. ~at(i).mini /\ i <= m
        BY <1>8, <2>2, <4>1
      <4> QED BY <1>9, <2>2, <4>1, <4>2 DEF w
    <3>8. Stack(t.stack) /\ Session!Members(t.stack) = Session!Members(stack)
      BY <1>2, <3>4 DEF Neat
    <3>9. \A x, y \in SessionApps \ {w} : Session!Below(t.stack, x, y) <=> Session!Below(stack, x, y)
      BY <1>2, <3>6
    <3>10. w \in Session!Members(stack)
      BY <1>2, <3>2
    <3>11. SameOrder(t.stack, stack, mini)
      BY <1>6, <3>5, <3>7, <3>8, <3>9, <3>10, OrderKept
    <3> QED BY <1>15, <2>2, <3>4, <3>11 DEF w
  <2> QED BY <1>13, <2>1, <2>2
<1>17. ASSUME NEW x \in SessionApps, NEW y \in SessionApps
       PROVE  x \notin mini /\ y \notin mini /\ Session!Below(stack', x, y) <=> <<x, y>> \in kept.order
  <2>1. ASSUME x \notin mini, y \notin mini, Session!Below(stack', x, y) PROVE <<x, y>> \in kept.order
    <3>1. Session!Below(stack, x, y)
      BY <1>16, <2>1 DEF SameOrder
    <3>2. x \in open /\ y \in open
      BY <1>2, <1>6, <3>1, OneIsBelow
    <3>3. PICK i \in 1..n : at(i).app = x
      BY <1>5, <3>2
    <3>4. PICK j \in 1..n : at(j).app = y
      BY <1>5, <3>2
    <3>5. ~at(i).mini /\ ~at(j).mini
      BY <1>8, <2>1, <3>3, <3>4
    <3>6. i <= j
      <4>1. SUFFICES ASSUME ~(i <= j) PROVE FALSE
        OBVIOUS
      <4>2. j <= i /\ j # i
        BY <1>4, <4>1
      <4>3. Session!Below(stack, y, x)
        BY <1>9, <3>3, <3>4, <3>5, <4>2
      <4>4. x = y
        BY <1>6, <3>1, <4>3, OneIsBelow
      <4> QED BY <1>11, <3>3, <3>4, <4>2, <4>4
    <3> QED BY <1>12, <3>3, <3>4, <3>5, <3>6
  <2>2. ASSUME <<x, y>> \in kept.order
        PROVE  x \notin mini /\ y \notin mini /\ Session!Below(stack', x, y)
    <3>1. PICK i \in 1..n, j \in 1..n :
            i <= j /\ at(i).app = x /\ at(j).app = y /\ ~at(i).mini /\ ~at(j).mini
      BY <1>12, <2>2
    <3>2. x \notin mini /\ y \notin mini /\ Session!Below(stack, x, y)
      BY <1>8, <1>9, <3>1
    <3> QED BY <1>16, <3>2 DEF SameOrder
  <2> QED BY <2>1, <2>2
<1>18. \A p : p \in Session!Order(stack', mini') <=> p \in kept.order
  <2>1. ASSUME NEW p \in Session!Order(stack', mini') PROVE p \in kept.order
    <3>1. /\ p \in (SessionApps \ mini') \X (SessionApps \ mini') /\ Session!Below(stack', p[1], p[2])
      BY DEF Session!Order
    <3>2. p = <<p[1], p[2]>> /\ p[1] \in SessionApps \ mini /\ p[2] \in SessionApps \ mini
      BY <1>16, <3>1
    <3> QED BY <1>17, <3>1, <3>2
  <2>2. ASSUME NEW p \in kept.order PROVE p \in Session!Order(stack', mini')
    <3>1. p = <<p[1], p[2]>> /\ p[1] \in SessionApps /\ p[2] \in SessionApps
      BY <1>12
    <3>2. p[1] \notin mini /\ p[2] \notin mini /\ Session!Below(stack', p[1], p[2])
      BY <1>17, <3>1
    <3> QED BY <1>16, <3>1, <3>2 DEF Session!Order
  <2> QED BY <2>1, <2>2
<1>19. Session!Order(stack', mini') = kept.order
  BY <1>18
<1> QED BY <1>16, <1>19

\* No step forgets what was on the screen.
LEMMA StackingGoesOn ==
  ASSUME NoApp \notin SessionApps, ~Impatient, ~ClosesEarly, SessionInv, StackingInv,
         [Session!Next]_sessionVars
  PROVE  StackingInv'
<1>1. CASE UNCHANGED sessionVars
  BY <1>1, StackingStays DEF sessionVars
<1>2. ASSUME NEW a \in SessionApps, Session!MountReturns(a) \/ Session!MountThrows(a)
      PROVE  StackingInv'
  BY <1>2, StackingMounts
<1>3. ASSUME Session!Uses, page' = page PROVE StackingInv'
  <2>1. page = "up" \/ ~kept'.untouched
    BY <1>3 DEF Session!Uses, Session!Touched, SessionInv, PageInv
  <2> QED BY <1>3, <2>1, StackingOwesNothing
<1>4. ASSUME NEW a \in SessionApps,
             Session!Launch(a) \/ Session!Closes(a) \/ Session!Focuses(a) \/ Session!Minimizes(a)
      PROVE  StackingInv'
  BY <1>3, <1>4 DEF Session!Launch, Session!Closes, Session!Focuses, Session!Minimizes, Session!Stacks
<1>5. CASE Session!MinimizeAll \/ Session!CycleFocus
  BY <1>3, <1>5 DEF Session!MinimizeAll, Session!CycleFocus, Session!Stacks
<1>6. ASSUME NEW a \in SessionApps, Session!Vetoes(a) \/ Session!Closed(a) PROVE StackingInv'
  <2>1. page = "up" /\ page' = page
    BY <1>6 DEF SessionInv, PageInv, Session!Vetoes, Session!Closed
  <2> QED BY <2>1, StackingOwesNothing
<1>7. CASE Session!SaveTimerFires \/ Session!Hidden
  <2>1. /\ page # "starting" /\ Session!SaveSessionNow
        /\ UNCHANGED <<page, Session!windowVars, Session!restoreVars, Session!personVars>>
    BY <1>7 DEF Session!SaveTimerFires, Session!Hidden, SessionInv, PageInv
  <2>2. CASE page = "up"
    BY <2>1, <2>2, StackingOwesNothing
  <2>3. CASE page = "restoring"
    <3>1. sessionSaved' = sessionSaved
      BY <2>1, <2>3, SessionSaves
    <3> QED BY <2>1, <3>1, StackingStays DEF Session!windowVars, Session!restoreVars, Session!personVars
  <2> QED BY <2>1, <2>2, <2>3 DEF SessionInv, PageInv
<1>8. CASE Session!Reload \/ Session!TabDies
  BY <1>8, StackingIsSaved
<1>9. CASE Session!Ready \/ Session!RestoresNext
  BY <1>9, StackingIsRead, StackingGrows
<1>10. CASE Session!RestoreEnds
  <2>1. page' = "up"
    BY <1>10 DEF Session!RestoreEnds
  <2> QED BY <2>1, StackingOwesNothing
<1>11. Session!Next \/ UNCHANGED sessionVars
  OBVIOUS
<1> QED BY <1>1, <1>2, <1>4, <1>5, <1>6, <1>7, <1>8, <1>9, <1>10, <1>11 DEF Session!Next

\* Only the end of a restore brings a page up that was being restored.
LEMMA StackingReturns ==
  ASSUME NoApp \notin SessionApps, SessionInv, StackingInv, Session!Next,
         page = "restoring", page' = "up", kept.untouched
  PROVE  Session!Order(stack', mini') = kept.order /\ focus' = kept.focus
<1>1. ASSUME NEW a \in SessionApps,
             \/ Session!Launch(a) \/ Session!MountReturns(a) \/ Session!MountThrows(a)
             \/ Session!Closes(a) \/ Session!Vetoes(a) \/ Session!Closed(a)
      PROVE  page' = page
  BY <1>1 DEF Session!Launch, Session!MountReturns, Session!MountThrows, Session!Closes,
     Session!Vetoes, Session!Closed
<1>2. ASSUME NEW a \in SessionApps, Session!Focuses(a) \/ Session!Minimizes(a) PROVE page' = page
  BY <1>2 DEF Session!Focuses, Session!Minimizes, Session!Stacks
<1>3. ASSUME Session!MinimizeAll \/ Session!CycleFocus PROVE page' = page
  BY <1>3 DEF Session!MinimizeAll, Session!CycleFocus, Session!Stacks
<1>4. ASSUME Session!SaveTimerFires \/ Session!Hidden \/ Session!RestoresNext PROVE page' = page
  BY <1>4 DEF Session!SaveTimerFires, Session!Hidden, Session!RestoresNext
<1>5. ASSUME Session!Reload \/ Session!TabDies PROVE page' = "starting"
  BY <1>5 DEF Session!Reload, Session!TabDies, Session!NewPage
<1>6. ~Session!Ready
  BY DEF Session!Ready
<1>7. Session!RestoreEnds
  BY <1>1, <1>2, <1>3, <1>4, <1>5, <1>6 DEF Session!Next
<1> QED BY <1>7, StackingIsBack

\* A desktop begins with nothing that was kept.
LEMMA StackingBegins == Session!Init => StackingInv
  BY DEF Session!Init, Session!Touched, StackingInv

\* A page that was left and comes back shows its windows in the same order and with the same
\* focus, however the mounts of its applications come in, fail or are late, unless the person
\* has done something before all of it was back.
THEOREM ScreensComeBack == ASSUME ~Impatient, ~ClosesEarly PROVE Spec => StackingSurvives
<1>1. NoApp \notin SessionApps
  BY ConstantsAssumption DEF Session!DesktopSessionAssumption
<1> DEFINE Inv == SessionInv /\ StackingInv
<1>2. Session!Init => Inv
  BY <1>1, SessionBegins, StackingBegins
<1>3. Inv /\ [Session!Next]_sessionVars => Inv'
  BY <1>1, SessionGoesOn, StackingGoesOn
<1>4. Inv /\ [Session!Next]_sessionVars
        => [page = "restoring" /\ page' = "up" /\ kept.untouched
              => Session!Order(stack', mini') = kept.order /\ focus' = kept.focus]_Session!desktopVars
  <2>1. SUFFICES ASSUME Inv, Session!Next, page = "restoring", page' = "up", kept.untouched
                 PROVE  Session!Order(stack', mini') = kept.order /\ focus' = kept.focus
    BY DEF sessionVars
  <2> QED BY <1>1, <2>1, StackingReturns
<1>5. StackingSurvives
        <=> [][page = "restoring" /\ page' = "up" /\ kept.untouched
                 => Session!Order(stack', mini') = kept.order /\ focus' = kept.focus]_Session!desktopVars
  BY DEF StackingSurvives, Session!StackingSurvives
<1> QED BY <1>2, <1>3, <1>4, <1>5, SessionRuns, PTL
=============================================================================
