----------------------------- MODULE MCContainer -----------------------------
(* Small dependency graphs for Container.                                     *)
EXTENDS Container, TLC

CONSTANTS Repo, Mailer, Service, Handler, Clock,
          newRepo, mockRepo, loopRepo, newMailer, newService, newHandler, clock

\* A diamond: Handler takes Service and has fields of type Repo and Mailer,
\* Service takes Clock, which a service of the App implements, and Repo; Mailer
\* has no constructor at first.  mockRepo stands in for newRepo.  With loopRepo,
\* which has a field of type Service, Repo and Service need each other.
MCOut == newRepo :> Repo @@ mockRepo :> Repo @@ loopRepo :> Repo
           @@ newService :> Service @@ newHandler :> Handler @@ newMailer :> Mailer
MCParams == newRepo :> <<>> @@ mockRepo :> <<>> @@ loopRepo :> <<>>
              @@ newService :> <<Clock, Repo>> @@ newHandler :> <<Service>> @@ newMailer :> <<>>
MCFields == newRepo :> <<>> @@ mockRepo :> <<>> @@ loopRepo :> <<Service>>
              @@ newService :> <<>> @@ newHandler :> <<Repo, Mailer>> @@ newMailer :> <<>>
MCImplementers == [t \in Types |-> IF t = Clock THEN {clock} ELSE {}]
=============================================================================
