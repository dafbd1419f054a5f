---- MODULE MCIocpServer ----
\* IocpServer for TLC: the constants are plain values, given in the configuration.
EXTENDS IocpServer, TLC
====
