----------------------------- MODULE MCMqttApp -----------------------------
EXTENDS MqttApp

CONSTANTS m1, m2, m3, t1, t2

\* One QoS 1 and one QoS 0 message; two topics for a one-slot table.
MCMsgs == {m1, m3}
MCQoS1 == {m1}
MCTopics == {t1, t2}

\* A second QoS 1 message: a stale PUBACK token needs a second wait.
MCMsgs3 == {m1, m2, m3}
MCQoS1Two == {m1, m2}
=============================================================================
