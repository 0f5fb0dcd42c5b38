--------------------------- MODULE MCBillingMonth -----------------------------
(* TLC instances of AccountDays: from the end of January 2027 into April, over a *)
(* common February, and from the end of December 2027 into March 2028, over the  *)
(* end of the year and a leap February.                                          *)
EXTENDS AccountDays

MCStarts == {32, 360}
MCStops == {96, 432}

\* An account that is old, one that begins to spend on the last of a month, and
\* one that begins in the middle of one.
MCFirstSpend == {0, 58, 384}

Tagged1 == [k \in {"team"} |-> "core"]
Blank1 == [k \in {"team"} |-> Blank]
NoTags == [k \in {} |-> Blank]
MCLines == {
    [line |-> "web", service |-> "ec2", bucket |-> None, tags |-> Tagged1],
    [line |-> "az", service |-> "ec2", bucket |-> "cross-az", tags |-> Blank1],
    [line |-> "db", service |-> "rds", bucket |-> None, tags |-> NoTags],
    [line |-> "ip", service |-> "vpc", bucket |-> None, tags |-> None]}

\* Working days and weekends differ; the database leaps on two days of each
\* period, and one March there is a refund.
Weekly(l, d) ==
    CASE l.line = "web" -> IF Weekday(d) >= 5 THEN 4 ELSE 400
      [] l.line = "az" -> IF Weekday(d) = 0 THEN 300 ELSE 10
      [] l.line = "db" -> IF Weekday(d) >= 5 THEN 20 ELSE 60
      [] l.line = "ip" -> 12
MCSpend(l, d) ==
    IF l.line = "db" /\ d \in {66, 402, 426} THEN 200
    ELSE IF l.line = "ip" /\ d \in {62, 63, 64} THEN -2000
    ELSE Weekly(l, d)

MCBudgets == {[account |-> "*", service |-> None, limit |-> 9000],
              [account |-> "prod", service |-> "rds", limit |-> 1390],
              [account |-> "dev", service |-> None, limit |-> 1]}

\* Both disks fill by one percent in twelve hours and are emptied now and then;
\* one of them grows by itself, the other stops its database when it is full.  The
\* balance of credits is high at noon, and on two days is not.
MCDatabases == {[id |-> "db1", allocated |-> 200, max |-> 0], [id |-> "db2", allocated |-> 100, max |-> 500]}
MCFree(db, h) == (db.allocated * (96 - ((h \div 12) % 97))) \div 100
MCStatus(db, d) == IF db.id = "db1" /\ MCFree(db, 24 * d) = 0 THEN "storage-full" ELSE "available"
MCCredits(db, h) ==
    LET usual == IF h % 24 = 12 THEN 5000 ELSE 1000
        jitter == 100 * ((h \div 24) % 3)
    IN IF h \div 24 \in {70, 400} THEN 1000 ELSE usual + jitter

MCRules == [n \in {"FreeStoragePercent"} |-> [over |-> FALSE, limit |-> 10]]
MCFullAt == [n \in {"FreeStoragePercent"} |-> 0]
=============================================================================
