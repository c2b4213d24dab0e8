------------------------------ MODULE MCDaemon ------------------------------
EXTENDS Daemon, TLC

MCJobList  == <<"shop", "blog">>
MCStartup  == {"shop"}
MCLevel    == [shop |-> "warnings", blog |-> "all"]
MCChannels == [shop |-> <<"hook", "mail">>, blog |-> <<"typo", "mail">>]
MCDelivery == [mail |-> "works", hook |-> "breaks", typo |-> "skipped"]
=============================================================================
