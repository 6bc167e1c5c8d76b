----------------------------- MODULE MCHandlers -----------------------------
EXTENDS Handlers

MCStyles == [resumes : {"once"}, frames : {{"bind", "local", "finally"}, {"bind", "mask"}, {"mask", "open"}, {"finally", "open"}}]
       \cup [resumes : {"inside"}, frames : {{"finally", "local"}, {"mask"}}]
=============================================================================
