--------------------------- MODULE CurrentMeasurement ------------------------
(***************************************************************************)
(* The periodic measurement of the battery current.  QmBattery asks BME    *)
(* for it in two queries, reads the results from BME's message queue, and  *)
(* asks BME to stop.  The object EmCurrentMeasurement is there from a      *)
(* start, also one that fails, to a stop.  BME is external: any query may  *)
(* fail, and BME may restart, which ends the measurement.                  *)
(***************************************************************************)
EXTENDS Naturals

VARIABLES
    measurements,    \* measurements_: null, or whether it is_opened
    period,          \* period_
    measuring,       \* the period BME measures with, or Off
    message,         \* what is in the message queue
    batteryCurrent,  \* history: what the last signal carried
    abandoned        \* history: BME measures since a start that failed halfway,
                     \* or in spite of a stop that it was not told

currentVars ==
    <<measurements, period, measuring, message, batteryCurrent, abandoned>>

Rates == {"RATE_250ms", "RATE_1000ms", "RATE_5000ms"}
Off == "off"

CurrentInit ==
    /\ measurements = "null"
    /\ period = Off /\ measuring = Off
    /\ message = "none" /\ batteryCurrent = "nothing"
    /\ abandoned = FALSE

\* The header and then the element, each in a query of its own: BME measures
\* when it has got both.  Of a query that fails BME may have got the message.
request_measurements ==
    {[ok |-> FALSE, began |-> FALSE], [ok |-> FALSE, began |-> TRUE],
     [ok |-> TRUE, began |-> TRUE]}

MayStart == measurements = "null"

\* A start that fails returns false and leaves the closed object behind: every
\* further start returns false until stop.  The queue is opened after BME has
\* begun to measure, and may fail to.
startCurrentMeasurement(rate) ==
    /\ MayStart
    /\ period' = rate
    /\ \E r \in request_measurements, mq_open \in BOOLEAN :
        /\ measuring' = IF r.began THEN rate ELSE measuring
        /\ measurements' = IF r.ok /\ mq_open THEN "open" ELSE "closed"
        /\ abandoned' = (~(r.ok /\ mq_open) /\ (abandoned \/ r.began))
    /\ UNCHANGED <<message, batteryCurrent>>

\* Mutant: the connection is closed before BME is told.
StopTold_Closed(told) == measuring

StopTold(told) == IF told THEN Off ELSE measuring

\* close, which tells BME only if the queue is open, ignores a failure to tell,
\* and closes the queue in any case.  The object must be there: without it a
\* null pointer is followed.
stopCurrentMeasurement ==
    /\ measurements # "null"
    /\ measurements' = "null"
    /\ \/ /\ measurements = "open"
          /\ \E told \in BOOLEAN :
                /\ measuring' = StopTold(told)
                /\ abandoned' = (~told /\ measuring # Off)
       \/ /\ measurements = "closed"
          /\ UNCHANGED <<measuring, abandoned>>
    /\ UNCHANGED <<period, message, batteryCurrent>>

\* The notifier of an open queue.  A message that is none, or that tells of an
\* error, is signalled too, as a current of 0.
onMeasurement ==
    /\ measurements = "open"
    /\ message # "none"
    /\ message' = "none"
    /\ batteryCurrent' = IF message = "current" THEN "current" ELSE "zero"
    /\ UNCHANGED <<measurements, period, measuring, abandoned>>

\* BME sends a result, or an error.
Measured ==
    /\ measuring # Off
    /\ message' \in {"current", "error"}
    /\ UNCHANGED <<measurements, period, measuring, batteryCurrent, abandoned>>

BmeRestarts ==
    /\ measuring' = Off
    /\ message' \in {message, "off"}
    /\ abandoned' = FALSE
    /\ UNCHANGED <<measurements, period, batteryCurrent>>

CurrentNext ==
    \/ \E rate \in Rates : startCurrentMeasurement(rate)
    \/ stopCurrentMeasurement
    \/ onMeasurement
    \/ Measured
    \/ BmeRestarts

CurrentSpec == CurrentInit /\ [][CurrentNext]_currentVars

-----------------------------------------------------------------------------
\* When BME measures, the object is open and the rate is that of its start,
\* whatever was started, refused or stopped before; but for what a start left that
\* failed after BME had begun (request_measurements_, open_), or a stop that BME
\* did not get (close_), and until BME restarts, a later start succeeds or a later
\* stop is told.
MeasuredAsAsked ==
    measuring # Off => abandoned \/ (measurements = "open" /\ measuring = period)
==============================================================================
